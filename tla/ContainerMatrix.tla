-------------------------- MODULE ContainerMatrix ---------------------------
(***************************************************************************)
(* The FlowMesh container matrix runner,                                   *)
(* integrations/flowmesh/container_matrix_runner.py: the commands          *)
(* run_flowmesh_container_matrix and                                       *)
(* adopt_flowmesh_container_matrix_replay_results on one output directory. *)
(*                                                                         *)
(* Every phase of every trial goes through SUBMISSION_INTENT,              *)
(* WORKFLOW_BOUND and RESULTS_OBTAINED in the journal; a trial then gets a *)
(* checkpoint and TRIAL_COMPLETED.  Any exception ends the run with        *)
(* RUN_FAILED and a failure document.  Two exits lead out of a failure:    *)
(* one audited recovery of the phase, which submits its workflow again,    *)
(* and the adoption of the results of that second workflow when all that   *)
(* was wrong with them is a replayed schedule marker.                      *)
(*                                                                         *)
(* The journal is represented by the value of the left fold that           *)
(* _validate_journal is; an entry it refuses makes it illegal for good.    *)
(***************************************************************************)
EXTENDS FlowMeshNode

CONSTANTS
    Processes,      \* command processes on the output directory
    None,
    MaxCrashes      \* bound: process deaths

ASSUME ProcessAssumption == None \notin Processes /\ MaxCrashes \in Nat

VARIABLES
    files,          \* how many of the directory and its first three files exist
    contract,       \* the runtime epoch the contract is bound to
    journal,        \* the journal file
    checkpoints,    \* the checkpoint file: "measured" or "adopted", by trial
    document,       \* the immutable failure document, if any
    sums,           \* SHA256SUMS exists: the run is complete
    holder,         \* the process that holds the run lock
    pc,             \* each process' next step
    mem,            \* its journal_entries
    at,             \* the phase of the current trial it is at
    submitted,      \* the workflow it submitted and has not bound yet
    error,          \* the failure it is about to record
    crashes

diskVars == <<files, contract, journal, checkpoints, document, sums>>
procVars == <<holder, pc, mem, at, submitted, error>>
vars == <<meshVars, diskVars, procVars, crashes>>

-----------------------------------------------------------------------------
(* The journal.                                                            *)

Phases(t) == IF t \in Conditional THEN <<"A", "B">> ELSE <<"unconditional">>

NoFailure == [trial |-> 0, phase |-> "none", error |-> "none"]
NoResult == [schedule |-> Pending, work |-> Pending, workflow |-> 0]

EmptyJournal ==
    [completed |-> 0, phase |-> 1, step |-> 0, workflow |-> 0,
     failed |-> NoFailure, first |-> NoFailure,
     recovered |-> {}, adopted |-> {},
     results |-> [k \in PhaseKeys |-> NoResult], legal |-> TRUE]

Trial(j) == j.completed + 1

\* ready_for_checkpoint: every phase of the trial has its results.
Ready(j) == Trial(j) \in Trials /\ j.phase > Len(Phases(Trial(j)))

\* A phase of the trial is open and the row is about it.
InPhase(j, row) == ~Ready(j) /\ row.phase = Phases(Trial(j))[j.phase]

Row(state, t, phase, content) ==
    [state |-> state, trial |-> t, phase |-> phase, content |-> content]

PhaseStates == <<"SUBMISSION_INTENT", "WORKFLOW_BOUND", "RESULTS_OBTAINED">>

\* _validate_journal: may the row follow the entries of j?
Follows(j, row) ==
    /\ row.trial = Trial(j) /\ row.trial \in Trials
    /\ CASE row.state = "RUN_FAILED" -> j.failed = NoFailure
         [] row.state = "INFRASTRUCTURE_RECOVERY_AUTHORIZED" ->
               /\ j.failed # NoFailure /\ InPhase(j, row) /\ j.step = 2
               /\ <<row.trial, row.phase>> \notin j.recovered
         [] row.state = "REPLAY_RESULTS_ADOPTION_AUTHORIZED" ->
               /\ j.failed.error = "replayed" /\ InPhase(j, row) /\ j.step = 2
               /\ <<row.trial, row.phase>> \in j.recovered \ j.adopted
         [] row.state = "TRIAL_COMPLETED" -> j.failed = NoFailure /\ Ready(j)
         [] OTHER -> /\ j.failed = NoFailure /\ InPhase(j, row)
                     /\ row.state = PhaseStates[j.step + 1]

\* ... and the fold's value after it.
After(j, row) ==
    LET key == <<row.trial, row.phase>> IN
    CASE row.state = "RUN_FAILED" ->
            [j EXCEPT !.failed = row.content,
                      !.first = IF j.first = NoFailure THEN row.content ELSE j.first]
      [] row.state = "INFRASTRUCTURE_RECOVERY_AUTHORIZED" ->
            [j EXCEPT !.failed = NoFailure, !.step = 0, !.workflow = 0,
                      !.recovered = j.recovered \cup {key}]
      [] row.state = "REPLAY_RESULTS_ADOPTION_AUTHORIZED" ->
            [j EXCEPT !.failed = NoFailure, !.adopted = j.adopted \cup {key}]
      [] row.state = "TRIAL_COMPLETED" ->
            [j EXCEPT !.completed = j.completed + 1, !.phase = 1]
      [] row.state = "SUBMISSION_INTENT" -> [j EXCEPT !.step = 1]
      [] row.state = "WORKFLOW_BOUND" ->
            [j EXCEPT !.step = 2, !.workflow = row.content]
      [] row.state = "RESULTS_OBTAINED" ->
            [j EXCEPT !.step = 0, !.workflow = 0, !.phase = j.phase + 1,
                      !.results = [j.results EXCEPT ![key] = row.content]]

Extend(j, row) ==
    IF j.legal /\ Follows(j, row) THEN After(j, row) ELSE [j EXCEPT !.legal = FALSE]

\* The checkpoint of a trial was written but not journalled.
Gap(j) == Len(checkpoints) = j.completed + 1 /\ Ready(j) /\ j.failed = NoFailure

\* _load_checkpoints: a checkpoint with a replayed result is an adopted one.
Loads(j) ==
    \A t \in DOMAIN checkpoints :
        checkpoints[t] = "adopted"
            <=> \E phase \in Labels : j.results[<<t, phase>>].schedule.kind = "replay"

\* _validate_journal against the checkpoints, as a resumed command calls it.
Valid(j) == j.legal /\ Loads(j) /\ (Len(checkpoints) = j.completed \/ Gap(j))

\* Mutant: an unfinished adoption is not noticed.
PendingIgnored(j) == FALSE

\* An adopted phase whose trial has no checkpoint yet.
PendingAdoption(j) == \E k \in j.adopted : k[1] > Len(checkpoints)

-----------------------------------------------------------------------------
Init ==
    /\ MeshInit
    /\ files = 0 /\ contract = 0 /\ journal = EmptyJournal
    /\ checkpoints = <<>> /\ document = NoFailure /\ sums = FALSE
    /\ holder = None
    /\ pc = [p \in Processes |-> "idle"]
    /\ mem = [p \in Processes |-> EmptyJournal]
    /\ at = [p \in Processes |-> 1]
    /\ submitted = [p \in Processes |-> 0]
    /\ error = [p \in Processes |-> NoFailure]
    /\ crashes = 0

Goto(p, step) == pc' = [pc EXCEPT ![p] = step]

\* The command ends, with its report or an exception, and unlocks.
Exit(p) ==
    /\ Goto(p, "idle")
    /\ holder' = None
    /\ mem' = [mem EXCEPT ![p] = EmptyJournal]
    /\ at' = [at EXCEPT ![p] = 1]
    /\ submitted' = [submitted EXCEPT ![p] = 0]
    /\ error' = [error EXCEPT ![p] = NoFailure]

\* The process goes on with its memory as it is.
Continue(p, step) == Goto(p, step) /\ UNCHANGED <<holder, mem, at, submitted, error>>

\* _journal_entry: one row, in the file and in memory.
Journal(p, row) ==
    /\ journal' = Extend(journal, row)
    /\ mem' = [mem EXCEPT ![p] = Extend(mem[p], row)]

Current(p) == Trial(mem[p])
Phase(p) == Phases(Current(p))[at[p]]

\* An exception of the trial loop, on its way to the journal.
Raise(p, phase, kind) ==
    /\ error' = [error EXCEPT ![p] = [trial |-> Current(p), phase |-> phase, error |-> kind]]
    /\ Goto(p, "fail")
    /\ UNCHANGED <<holder, mem, at, submitted>>

-----------------------------------------------------------------------------
(* Starting a command.                                                     *)

\* _exclusive_run_lock: taken without waiting; a second command is refused.
Acquire(p) == pc[p] = "idle" /\ holder = None /\ holder' = p

\* A run on a new directory: the worker and the epochs are probed, then the
\* directory is made ...
StartFresh(p) ==
    /\ files = 0
    /\ Acquire(p)
    /\ files' = 1 /\ contract' = epoch
    /\ Goto(p, "create")
    /\ UNCHANGED <<meshVars, journal, checkpoints, document, sums, mem, at, submitted, error, crashes>>

\* ... and the contract, an empty journal and no checkpoints are written.
Create(p) ==
    /\ pc[p] = "create"
    /\ files' = files + 1
    /\ Continue(p, IF files = 3 THEN "loop" ELSE "create")
    /\ UNCHANGED <<meshVars, contract, journal, checkpoints, document, sums, crashes>>

\* What both commands demand of an existing directory: all its files, a
\* failure document for a journalled failure, and a journal that validates.
Durable(j) ==
    /\ files = 4
    /\ j.first # NoFailure => document = j.first
    /\ Valid(j)

\* The recovery request a resumed run must carry: the digest of the terminal
\* failure, of a phase not recovered before; otherwise none, or the request
\* of a recovery in the journal.
Requests == {"none", "recover", "repeat"}
Admits(j, request) ==
    IF j.failed # NoFailure
    THEN request = "recover" /\ <<j.failed.trial, j.failed.phase>> \notin j.recovered
    ELSE request = "none" \/ (request = "repeat" /\ j.recovered # {})

\* A run on an existing directory.
StartResume(p, request) ==
    /\ ~sums
    /\ Durable(journal) /\ ~PendingAdoption(journal)
    /\ Admits(journal, request)
    /\ Acquire(p)
    /\ Goto(p, "open")
    /\ UNCHANGED <<meshVars, diskVars, mem, at, submitted, error, crashes>>

\* The worker and the epochs are those of the contract; the files are read.
Open(p) ==
    /\ pc[p] = "open"
    /\ \/ /\ epoch = contract
          /\ mem' = [mem EXCEPT ![p] = journal]
          /\ Goto(p, IF journal.failed = NoFailure THEN "reconcile" ELSE "authorize")
          /\ UNCHANGED <<holder, at, submitted, error>>
       \/ /\ epoch # contract
          /\ Exit(p)
    /\ UNCHANGED <<meshVars, diskVars, crashes>>

\* Mutant: the gap is not closed.
ReconcileNothing(p) ==
    /\ pc[p] = "reconcile"
    /\ IF Gap(mem[p]) THEN Exit(p) ELSE Continue(p, "loop")
    /\ UNCHANGED <<journal, meshVars, files, contract, checkpoints, document, sums, crashes>>

\* _reconcile_checkpoint_completion.
Reconcile(p) ==
    /\ pc[p] = "reconcile"
    /\ IF Gap(mem[p])
       THEN Journal(p, Row("TRIAL_COMPLETED", Current(p), "trial", None))
       ELSE UNCHANGED <<journal, mem>>
    /\ Goto(p, "loop")
    /\ UNCHANGED <<meshVars, files, contract, checkpoints, document, sums,
                   holder, at, submitted, error, crashes>>

\* _validate_recoverable_task_evidence: FlowMesh attempted one task, which
\* failed at a delivery boundary, and left the others alone.
SoleFailure(flow) ==
    /\ flow.status = "FAILED" /\ flow.work = Pending
    /\ flow.schedule.kind \in {"identity-503", "upload-timeout"}

\* _recovery_schedule_safety_evidence: the phase hangs on a schedule marker.
ScheduleRooted(phase) == phase # "B"

\* _build_recovery_payload on the failed workflow, which is read again.
Recoverable(phase, flow) ==
    /\ SoleFailure(flow)
    /\ ScheduleRooted(phase)
    /\ flow.schedule.kind = "upload-timeout" => phase = "unconditional"

\* The failed phase of j was bound to a workflow that can be recovered.
Authorizable(j) ==
    /\ j.failed.phase \in Labels /\ j.step = 2
    /\ Recoverable(j.failed.phase, workflows[j.workflow])

\* _authorize_infrastructure_recovery.
Authorize(p) ==
    LET failed == mem[p].failed IN
    /\ pc[p] = "authorize"
    /\ mem[p].step = 2 => workflows[mem[p].workflow].status # "RUNNING"
    /\ IF Authorizable(mem[p])
       THEN /\ Journal(p, Row("INFRASTRUCTURE_RECOVERY_AUTHORIZED", failed.trial, failed.phase, None))
            /\ Goto(p, "loop")
            /\ UNCHANGED <<holder, at, submitted, error>>
       ELSE Exit(p) /\ UNCHANGED journal
    /\ UNCHANGED <<meshVars, files, contract, checkpoints, document, sums, crashes>>

-----------------------------------------------------------------------------
(* The trial loop.                                                         *)

\* The head of the loop: the worker and the epochs before the trial.
NextTrial(p) ==
    /\ pc[p] = "loop"
    /\ IF Current(p) \notin Trials THEN Continue(p, "finalize")
       ELSE IF epoch # contract THEN Raise(p, "preflight", "other")
       ELSE Continue(p, "phase")
    /\ UNCHANGED <<meshVars, diskVars, crashes>>

\* _phase_progress: the last state of the process' phase.
Progress(p) == IF at[p] < mem[p].phase THEN 3 ELSE mem[p].step

\* Mutant: an intent without a workflow is submitted again.
BeginPhaseAgain(p) ==
    /\ pc[p] = "phase"
    /\ IF Progress(p) = 0
       THEN /\ Journal(p, Row("SUBMISSION_INTENT", Current(p), Phase(p), None))
            /\ Goto(p, "submit")
            /\ UNCHANGED <<holder, at, submitted, error>>
       ELSE /\ Continue(p, <<"submit", "wait", "after">>[Progress(p)])
            /\ UNCHANGED journal
    /\ UNCHANGED <<meshVars, files, contract, checkpoints, document, sums, crashes>>

\* _execute_phase: results are reused, a bound workflow is waited for, an
\* intent without a workflow is refused, and a new phase begins.
BeginPhase(p) ==
    /\ pc[p] = "phase"
    /\ \/ /\ Progress(p) = 0
          /\ Journal(p, Row("SUBMISSION_INTENT", Current(p), Phase(p), None))
          /\ Goto(p, "submit")
          /\ UNCHANGED <<holder, at, submitted, error>>
       \/ /\ Progress(p) = 1
          /\ Raise(p, Phase(p), "other")
          /\ UNCHANGED journal
       \/ /\ Progress(p) \in {2, 3}
          /\ Continue(p, IF Progress(p) = 2 THEN "wait" ELSE "after")
          /\ UNCHANGED journal
    /\ UNCHANGED <<meshVars, files, contract, checkpoints, document, sums, crashes>>

\* client.submit.
Submit(p) ==
    /\ pc[p] = "submit"
    /\ Accept(<<Current(p), Phase(p)>>)
    /\ submitted' = [submitted EXCEPT ![p] = Len(workflows) + 1]
    /\ Goto(p, "bind")
    /\ UNCHANGED <<ledger, sent, epoch, failures, diskVars, holder, mem, at, error, crashes>>

\* The call fails; FlowMesh may have accepted the workflow all the same.
SubmitFails(p) ==
    /\ pc[p] = "submit"
    /\ CanFail
    /\ Accept(<<Current(p), Phase(p)>>) \/ UNCHANGED workflows
    /\ Raise(p, Phase(p), "other")
    /\ UNCHANGED <<ledger, sent, epoch, diskVars, crashes>>

\* The workflow's ID is journalled.
Bind(p) ==
    /\ pc[p] = "bind"
    /\ Journal(p, Row("WORKFLOW_BOUND", Current(p), Phase(p), submitted[p]))
    /\ submitted' = [submitted EXCEPT ![p] = 0]
    /\ Goto(p, "wait")
    /\ UNCHANGED <<meshVars, files, contract, checkpoints, document, sums, holder, at, error, crashes>>

Bound(p) == workflows[mem[p].workflow]

\* client.wait: the workflow is DONE, or the run fails.
Wait(p) ==
    /\ pc[p] = "wait" /\ Bound(p).status # "RUNNING"
    /\ IF Bound(p).status = "DONE" THEN Continue(p, "collect")
       ELSE Raise(p, Phase(p), "other")
    /\ UNCHANGED <<meshVars, diskVars, crashes>>

Replayed(flow) == {o \in {"schedule", "work"} : flow[o].kind = "replay"}

\* The nodes' epochs in the results are the contract's.
OfContract(flow) ==
    flow.work.epoch = contract /\ (flow.schedule # Absent => flow.schedule.epoch = contract)

Result(p) ==
    [schedule |-> Bound(p).schedule, work |-> Bound(p).work, workflow |-> mem[p].workflow]

\* _operation_result looks at replays first, at the epoch then, task by task.
CollectError(flow) ==
    IF \/ flow.schedule.kind = "replay"
       \/ flow.work.kind = "replay" /\ (flow.schedule = Absent \/ flow.schedule.epoch = contract)
    THEN "replayed" ELSE "other"

\* _collect_results: a replayed operation or one of another epoch fails the
\* run; the others become the results of the phase.
Collect(p) ==
    /\ pc[p] = "collect"
    /\ \/ /\ Replayed(Bound(p)) = {} /\ OfContract(Bound(p))
          /\ Journal(p, Row("RESULTS_OBTAINED", Current(p), Phase(p), Result(p)))
          /\ Goto(p, "after")
          /\ UNCHANGED <<holder, at, submitted, error>>
       \/ /\ Replayed(Bound(p)) # {} \/ ~OfContract(Bound(p))
          /\ Raise(p, Phase(p), CollectError(Bound(p)))
          /\ UNCHANGED journal
    /\ UNCHANGED <<meshVars, files, contract, checkpoints, document, sums, crashes>>

\* The worker and the epochs after a phase: phase B follows A, the
\* checkpoint follows the last one.
AfterPhase(p) ==
    /\ pc[p] = "after"
    /\ \/ /\ epoch = contract
          /\ IF at[p] < Len(Phases(Current(p)))
             THEN at' = [at EXCEPT ![p] = @ + 1] /\ Goto(p, "phase")
             ELSE at' = at /\ Goto(p, "checkpoint")
          /\ UNCHANGED <<holder, mem, submitted, error>>
       \/ epoch # contract /\ Raise(p, Phase(p), "other")
    /\ UNCHANGED <<meshVars, diskVars, crashes>>

\* A lookup of the worker, a health probe, a validation, a wait, a retrieval
\* or the comparison of cache outcomes fails.
CheckFails(p) ==
    /\ pc[p] \in {"loop", "phase", "wait", "collect", "after"}
    /\ Current(p) \in Trials
    /\ CanFail
    /\ Raise(p, IF pc[p] = "loop" THEN "preflight" ELSE Phase(p), "other")
    /\ UNCHANGED <<workflows, ledger, sent, epoch, diskVars, crashes>>

\* _trial_checkpoint: the trial's results, appended to the checkpoint file.
Checkpoint(p) ==
    /\ pc[p] = "checkpoint"
    /\ checkpoints' = Append(checkpoints, "measured")
    /\ Continue(p, "complete")
    /\ UNCHANGED <<meshVars, files, contract, journal, document, sums, crashes>>

\* The completion is journalled, bound to the checkpoint.
Complete(p) ==
    /\ pc[p] = "complete"
    /\ Journal(p, Row("TRIAL_COMPLETED", Current(p), "trial", None))
    /\ at' = [at EXCEPT ![p] = 1]
    /\ Goto(p, "loop")
    /\ UNCHANGED <<meshVars, files, contract, checkpoints, document, sums,
                   holder, submitted, error, crashes>>

\* The exception is journalled, ...
Fail(p) ==
    /\ pc[p] = "fail"
    /\ Journal(p, Row("RUN_FAILED", error[p].trial, error[p].phase, error[p]))
    /\ Goto(p, "document")
    /\ UNCHANGED <<meshVars, files, contract, checkpoints, document, sums,
                   holder, at, submitted, error, crashes>>

\* ... and the first one gets the failure document (_write_failure).
WriteFailure(p) ==
    /\ pc[p] = "document"
    /\ document' = IF document = NoFailure THEN error[p] ELSE document
    /\ Exit(p)
    /\ UNCHANGED <<meshVars, files, contract, journal, checkpoints, sums, crashes>>

\* _finalize: SHA256SUMS is written last, when the recoveries in the journal
\* and the failure document agree.
Finalize(p) ==
    /\ pc[p] = "finalize"
    /\ sums' = (sums \/ (mem[p].recovered = {} <=> document = NoFailure))
    /\ Exit(p)
    /\ UNCHANGED <<meshVars, files, contract, journal, checkpoints, document, crashes>>

-----------------------------------------------------------------------------
(* adopt_flowmesh_container_matrix_replay_results.                         *)

\* The adoption of a failure, or a repeated request that finishes one.
StartAdoption(p) ==
    /\ ~sums /\ Durable(journal) /\ document # NoFailure
    /\ \/ /\ journal.failed.error = "replayed" /\ journal.failed.phase = "unconditional"
          /\ journal.step = 2
          /\ <<Trial(journal), "unconditional">> \in journal.recovered
          /\ Goto(p, "adopt")
       \/ /\ <<Trial(journal), "unconditional">> \in journal.adopted
          /\ Goto(p, "adopted")
    /\ Acquire(p)
    /\ mem' = [mem EXCEPT ![p] = journal]
    /\ UNCHANGED <<meshVars, diskVars, at, submitted, error, crashes>>

\* The bound workflow is DONE and the schedule marker alone was replayed.
Adoptable(flow) ==
    flow.status = "DONE" /\ OfContract(flow) /\ Replayed(flow) = {"schedule"}

\* The workflow is read again, with the worker and the epochs checked before
\* and after.
Adopt(p) ==
    /\ pc[p] = "adopt"
    /\ \/ /\ Adoptable(Bound(p)) /\ epoch = contract
          /\ Journal(p, Row("REPLAY_RESULTS_ADOPTION_AUTHORIZED", Current(p), Phase(p), None))
          /\ Goto(p, "adopted")
          /\ UNCHANGED <<holder, at, submitted, error>>
       \/ /\ ~Adoptable(Bound(p)) \/ epoch # contract
          /\ Exit(p)
          /\ UNCHANGED journal
    /\ UNCHANGED <<meshVars, files, contract, checkpoints, document, sums, crashes>>

\* The adopted results, the checkpoint and its completion, each unless it is
\* there (_reconcile_durable_replay_adoption).
FinishAdoption(p) ==
    /\ pc[p] = "adopted"
    /\ \/ /\ ~Ready(mem[p])
          /\ Journal(p, Row("RESULTS_OBTAINED", Current(p), Phase(p), Result(p)))
          /\ UNCHANGED <<checkpoints, holder, pc, at, submitted, error>>
       \/ /\ Ready(mem[p]) /\ Len(checkpoints) < Current(p)
          /\ checkpoints' = Append(checkpoints, "adopted")
          /\ Continue(p, "adopted")
          /\ UNCHANGED journal
       \/ /\ Ready(mem[p]) /\ Len(checkpoints) = Current(p)
          /\ journal' = Extend(journal, Row("TRIAL_COMPLETED", Current(p), "trial", None))
          /\ Exit(p)
          /\ UNCHANGED checkpoints
    /\ UNCHANGED <<meshVars, files, contract, document, sums, crashes>>

\* A process dies; the operating system releases its lock.  Files are
\* replaced by renames, so that a write is all or nothing.
Crash(p) ==
    /\ pc[p] # "idle" /\ crashes < MaxCrashes
    /\ crashes' = crashes + 1
    /\ Exit(p)
    /\ UNCHANGED <<meshVars, diskVars>>

\* The first probe of a command fails: nothing is written.
ProbeFails(p) ==
    /\ pc[p] \in {"open", "authorize", "adopt"}
    /\ CanFail
    /\ Exit(p)
    /\ UNCHANGED <<workflows, ledger, sent, epoch, diskVars, crashes>>

Step(p) ==
    \/ Create(p) \/ Open(p) \/ Reconcile(p) \/ Authorize(p)
    \/ NextTrial(p) \/ BeginPhase(p) \/ Submit(p) \/ Bind(p) \/ Wait(p) \/ Collect(p)
    \/ AfterPhase(p) \/ Checkpoint(p) \/ Complete(p) \/ Fail(p) \/ WriteFailure(p)
    \/ Finalize(p) \/ Adopt(p) \/ FinishAdoption(p)

Start(p) ==
    \/ StartFresh(p) \/ StartAdoption(p)
    \/ \E request \in Requests : StartResume(p, request)

Next ==
    \/ \E p \in Processes :
          Start(p) \/ Step(p) \/ SubmitFails(p) \/ CheckFails(p) \/ ProbeFails(p) \/ Crash(p)
    \/ Mesh /\ UNCHANGED <<diskVars, procVars, crashes>>

Spec == Init /\ [][Next]_vars

\* Processes are scheduled, FlowMesh runs what it accepted, and the operator
\* gives the command again whenever it is admitted.
FairSpec ==
    /\ Spec
    /\ \A p \in Processes : WF_vars(Step(p))
    /\ WF_vars(MeshProgress /\ UNCHANGED <<diskVars, procVars, crashes>>)
    /\ WF_vars(\E p \in Processes : StartFresh(p) \/ StartResume(p, "none") \/ StartResume(p, "recover"))
    /\ WF_vars(\E p \in Processes : StartAdoption(p))

-----------------------------------------------------------------------------
Failures == [trial : 0 .. N, phase : Labels \cup {"none", "preflight"},
             error : {"none", "other", "replayed"}]

Journals ==
    [completed : 0 .. N, phase : 1 .. 3, step : 0 .. 2, workflow : Nat,
     failed : Failures, first : Failures,
     recovered : SUBSET PhaseKeys, adopted : SUBSET PhaseKeys,
     results : [PhaseKeys -> [schedule : Outcomes, work : Outcomes, workflow : Nat]],
     legal : BOOLEAN]

Steps == {"idle", "create", "open", "reconcile", "authorize", "loop", "phase", "submit",
          "bind", "wait", "collect", "after", "checkpoint", "complete", "fail",
          "document", "finalize", "adopt", "adopted"}

TypeOK ==
    /\ MeshTypeOK
    /\ files \in 0 .. 4 /\ contract \in 0 .. MaxRestarts
    /\ journal \in Journals
    /\ checkpoints \in Seq({"measured", "adopted"})
    /\ document \in Failures /\ sums \in BOOLEAN
    /\ holder \in Processes \cup {None}
    /\ pc \in [Processes -> Steps]
    /\ mem \in [Processes -> Journals]
    /\ at \in [Processes -> 1 .. 2]
    /\ submitted \in [Processes -> Nat]
    /\ error \in [Processes -> Failures]
    /\ crashes \in Nat

\* The runner never writes files that its own validation would refuse on the
\* next start, wherever it dies, fails or is recovered (_validate_journal,
\* "the sole safe two-file crash window").
JournalValidates == Valid(journal)

\* The rows a command decides by are those of the file: no other command
\* writes between its reading and its last row (_exclusive_run_lock).
MemoryIsFile ==
    \A p \in Processes : pc[p] \notin {"idle", "open"} => mem[p] = journal

\* The operations that move data are sent to the nodes at most once for a
\* phase, whatever workflows were lost, orphaned or submitted again
\* ("refusing to resubmit"; recovery only before anything but the schedule
\* marker was attempted).
WorkSentOnce == \A k \in PhaseKeys : sent[k] <= 1

\* A journalled result is a measurement: its work was executed for it, in the
\* epoch of the contract, and nothing but an adopted schedule marker is a
\* replay ("container operation was replayed").
ResultsAreMeasured ==
    \A k \in PhaseKeys : journal.results[k] # NoResult =>
        LET result == journal.results[k] IN
        /\ sent[k] = 1
        /\ result.work = [kind |-> "fresh", epoch |-> contract]
        /\ result.schedule.kind = "replay" => k \in journal.adopted

\* The failure document is about the first failure of the run, over later
\* failures and recoveries (_validate_failure_document, "immutable evidence
\* for the first failure").
DocumentIsFirst == document # NoFailure => document = journal.first

\* A run with its checksums verifies: its journal is complete, every phase of
\* every trial was sent to the nodes once and has its results, and a failure
\* is documented (verify_flowmesh_container_matrix_run).
CompleteIsMeasured ==
    sums => /\ Valid(journal) /\ journal.completed = N
            /\ \A t \in Trials : \A i \in DOMAIN Phases(t) :
                  /\ journal.results[<<t, Phases(t)[i]>>] # NoResult
                  /\ sent[<<t, Phases(t)[i]>>] = 1
            /\ document = journal.first

\* What the runner wrote, what it decides by and what it documents agree, over
\* every death, failure and recovery.
FilesAgree == TypeOK /\ JournalValidates /\ MemoryIsFile /\ DocumentIsFirst

\* Each phase is executed at the nodes once and its journalled result is that
\* execution's, in a complete run for all of them.
MeasuredOnce == WorkSentOnce /\ ResultsAreMeasured /\ CompleteIsMeasured

\* A failure a command can still take the run out of.
CanRecover ==
    LET failed == journal.failed IN
    \/ /\ <<failed.trial, failed.phase>> \notin journal.recovered
       /\ Authorizable(journal)
    \/ /\ <<failed.trial, "unconditional">> \in journal.recovered /\ journal.step = 2
       /\ failed.error = "replayed" /\ failed.phase = "unconditional"
       /\ Adoptable(workflows[journal.workflow])

\* What no command repairs: a death while the directory is created, or
\* between a failure's row and its document; restarted nodes; a failure that
\* is neither recoverable nor adoptable.
DeadEnd ==
    \/ holder = None /\ files \in 1 .. 3
    \/ holder = None /\ journal.first # NoFailure /\ document = NoFailure
    \/ files > 0 /\ epoch # contract
    \/ journal.failed # NoFailure /\ ~CanRecover

\* Given its commands as long as they are admitted, a run ends complete or in
\* one of these cases, and stays there.
Settles == <>[](sums \/ DeadEnd)
=============================================================================
