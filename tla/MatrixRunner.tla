---------------------------- MODULE MatrixRunner ----------------------------
(***************************************************************************)
(* The semantic matrix runner: run_full_flow_semantic_matrix of            *)
(* simulator/full_flow_matrix_runner.py over the executor side of          *)
(* RouteExecution.                                                         *)
(*                                                                         *)
(* The journal is represented by what _audit_journal computes from it, one *)
(* entry after the other: the number of completed trials, the state and    *)
(* the trial of the last entry, and the results.  An entry the audit would *)
(* refuse makes the journal "invalid".  The operator starts the runner     *)
(* again after a failure or a death, with or without an acknowledgement.   *)
(***************************************************************************)
EXTENDS RouteExecution

VARIABLES
    journal,        \* the audited journal
    checkpoints,    \* the checkpoint of each trial: its result, or "none"
    stray,          \* a temporary file is left in the run directory
    final,          \* final documents written, SHA256SUMS being the fourth
    verified,       \* the run was reported VERIFIED
    pc, ack,        \* the runner process and its acknowledgement argument
    result          \* the executor result it holds in memory

diskVars == <<journal, checkpoints, stray, final>>
runVars == <<diskVars, verified, pc, ack, result>>
vars == <<runVars, routeVars, failures, crashes>>

Documents == 4
Results == {"none", "fresh", "replay"}
Acknowledgements == {"none", "latest", "stale"}

Init ==
    /\ RouteInit
    /\ journal = [completed |-> 0, state |-> "none", active |-> 0,
                  results |-> [t \in Trials |-> "none"]]
    /\ checkpoints = [t \in Trials |-> "none"]
    /\ stray = FALSE /\ final = 0 /\ verified = FALSE
    /\ pc = "idle" /\ ack = "none" /\ result = "none"

-----------------------------------------------------------------------------
\* The trial the loop is at.
Current == journal.completed + 1

\* The entry _audit_journal allows after the last one.
Legal(state, t) ==
    /\ state = "TRIAL_INTENT" =>
          /\ journal.state \in {"none", "TRIAL_COMPLETED", "FAILURE_ACKNOWLEDGED"}
          /\ journal.state = "FAILURE_ACKNOWLEDGED" => t = journal.active
          /\ t = Current
    /\ state \in {"TRIAL_RESULT", "RUN_FAILED"} =>
          journal.state = "TRIAL_INTENT" /\ t = journal.active
    /\ state = "TRIAL_COMPLETED" =>
          journal.state = "TRIAL_RESULT" /\ t = journal.active
    /\ state = "FAILURE_ACKNOWLEDGED" =>
          journal.state = "RUN_FAILED" /\ t = journal.active

\* _append_journal, and what the audit makes of the entry.
Append(state, t, r) ==
    journal' = [
        state     |-> IF Legal(state, t) THEN state ELSE "invalid",
        active    |-> IF state = "TRIAL_COMPLETED" THEN 0 ELSE t,
        completed |-> IF state = "TRIAL_COMPLETED" THEN Current ELSE journal.completed,
        results   |-> IF state = "TRIAL_RESULT"
                      THEN [journal.results EXCEPT ![t] = r] ELSE journal.results]

-----------------------------------------------------------------------------
\* _final_documents and verify_full_flow_semantic_matrix_run: the journal is
\* complete, the checkpoints are its results, and the directory holds nothing
\* else.
Finished ==
    /\ journal.state = "TRIAL_COMPLETED" /\ journal.completed = N
    /\ \A t \in Trials : checkpoints[t] # "none" /\ checkpoints[t] = journal.results[t]

Verifies == Finished /\ ~stray

Verify ==
    /\ verified' = (verified \/ Verifies)
    /\ pc' = "idle"
    /\ UNCHANGED <<diskVars, ack, result>>

\* Mutant: an unfinished trial is executed again on restart.
ResumeIntentAgain == pc' = "loop" /\ UNCHANGED journal

\* An intent without a result is turned into a failure of the run.
ResumeIntent ==
    /\ Append("RUN_FAILED", Current, "none")
    /\ pc' = "idle"

\* Mutant: the checkpoint of a journalled result is not written again.
ResumeResultLost == pc' = "loop" /\ UNCHANGED journal

\* A result without its completion is completed from the journal.
ResumeResult == pc' = "checkpoint" /\ UNCHANGED journal

\* Mutant: the acknowledgement is accepted but not journalled.
ResumeFailedSilently(a) ==
    pc' = "idle" /\ UNCHANGED journal

\* A failed run goes on only with the digest of its latest failure.
ResumeFailed(a) ==
    IF a = "latest" THEN pc' = "loop" /\ Append("FAILURE_ACKNOWLEDGED", journal.active, "none")
    ELSE pc' = "idle" /\ UNCHANGED journal

\* A run that ended between two trials goes on, and has no failure to
\* acknowledge.
ResumeLoop(a) == pc' = (IF a = "none" THEN "loop" ELSE "idle") /\ UNCHANGED journal

Resume(a) ==
    \/ journal.state = "TRIAL_RESULT" /\ ResumeResult
    \/ journal.state = "TRIAL_INTENT" /\ ResumeIntent
    \/ journal.state = "RUN_FAILED" /\ ResumeFailed(a)
    \/ journal.state \in {"none", "TRIAL_COMPLETED", "FAILURE_ACKNOWLEDGED"} /\ ResumeLoop(a)

\* The operator starts the runner with acknowledgement a.
Start(a) ==
    /\ pc = "idle"
    /\ \/ final = Documents /\ Verify
       \/ /\ final < Documents /\ Resume(a)
          /\ ack' = IF journal.state = "TRIAL_RESULT" THEN a ELSE "none"
          /\ UNCHANGED <<checkpoints, stray, final, verified, result>>
    /\ UNCHANGED <<routeVars, failures, crashes>>

-----------------------------------------------------------------------------
\* The head of the trial loop: the intent of the next trial, or the end.  A
\* checkpoint that is there already stops the run.
NextTrial ==
    /\ pc = "loop"
    /\ IF Current \in Trials /\ checkpoints[Current] = "none"
       THEN Append("TRIAL_INTENT", Current, "none") /\ pc' = "execute"
       ELSE UNCHANGED journal /\ pc' = IF Finished THEN "final" ELSE "idle"
    /\ UNCHANGED <<checkpoints, stray, final, verified, ack, result>>
    /\ UNCHANGED <<routeVars, failures, crashes>>

\* executor.execute: the workflow is submitted.
Submit ==
    /\ pc = "execute"
    /\ workflow' = Submitted(Current)
    /\ pc' = "wait"
    /\ UNCHANGED <<diskVars, verified, ack, result>>
    /\ UNCHANGED <<rows, execution, scores, abandoned, failures, crashes>>

\* The call fails before a workflow is accepted, or its acceptance is lost.
SubmitFails ==
    /\ pc = "execute"
    /\ CanFail
    /\ pc' = "failed"
    /\ \/ UNCHANGED abandoned
       \/ abandoned' = [abandoned EXCEPT ![Current] = @ + 1]
    /\ UNCHANGED <<diskVars, verified, ack, result>>
    /\ UNCHANGED <<rows, execution, scores, workflow>>

\* The workflow ended and its evidence is the result, or it failed.
Wait ==
    /\ pc = "wait" /\ workflow.state \in {"done", "error"}
    /\ pc' = IF workflow.state = "done" THEN "result" ELSE "failed"
    /\ result' = workflow.result
    /\ workflow' = NoWorkflow
    /\ UNCHANGED <<diskVars, verified, ack>>
    /\ UNCHANGED <<rows, execution, scores, abandoned, failures, crashes>>

\* Waiting, retrieval or a check of the evidence fails.
WaitFails ==
    /\ pc = "wait"
    /\ CanFail
    /\ Abandon
    /\ pc' = "failed"
    /\ UNCHANGED <<diskVars, verified, ack, result>>
    /\ UNCHANGED <<rows, execution, scores>>

\* The failure is journalled and raised.
AppendFailed ==
    /\ pc = "failed"
    /\ Append("RUN_FAILED", Current, "none")
    /\ pc' = "idle"
    /\ UNCHANGED <<checkpoints, stray, final, verified, ack, result>>
    /\ UNCHANGED <<routeVars, failures, crashes>>

\* The result is journalled before the checkpoint is written.
AppendResult ==
    /\ pc = "result"
    /\ Append("TRIAL_RESULT", Current, result)
    /\ result' = "none"
    /\ pc' = "checkpoint"
    /\ UNCHANGED <<checkpoints, stray, final, verified, ack>>
    /\ UNCHANGED <<routeVars, failures, crashes>>

\* _write_atomic_new of the checkpoint: a temporary file, unless recovery
\* finds the checkpoint there, ...
CreateCheckpoint ==
    /\ pc = "checkpoint"
    /\ pc' = IF checkpoints[Current] = "none" THEN "install"
             ELSE IF checkpoints[Current] = journal.results[Current] THEN "complete"
             ELSE "idle"
    /\ UNCHANGED <<diskVars, verified, ack, result>>
    /\ UNCHANGED <<routeVars, failures, crashes>>

\* ... and its rename.
InstallCheckpoint ==
    /\ pc = "install"
    /\ checkpoints' = [checkpoints EXCEPT ![Current] = journal.results[Current]]
    /\ pc' = "complete"
    /\ UNCHANGED <<journal, stray, final, verified, ack, result>>
    /\ UNCHANGED <<routeVars, failures, crashes>>

\* The completion is journalled.  After a recovery an acknowledgement has no
\* failure to acknowledge and the run is refused.
AppendCompleted ==
    /\ pc = "complete"
    /\ Append("TRIAL_COMPLETED", Current, "none")
    /\ pc' = IF ack = "none" THEN "loop" ELSE "idle"
    /\ ack' = "none"
    /\ UNCHANGED <<checkpoints, stray, final, verified, result>>
    /\ UNCHANGED <<routeVars, failures, crashes>>

\* _freeze_final: each document not there yet is written through a temporary
\* file; with SHA256SUMS written the run is verified.
Freeze ==
    /\ \/ /\ pc = "final" /\ final < Documents
          /\ pc' = "freeze" /\ UNCHANGED <<diskVars, verified, ack, result>>
       \/ /\ pc = "freeze"
          /\ final' = final + 1
          /\ pc' = "final" /\ UNCHANGED <<journal, checkpoints, stray, verified, ack, result>>
       \/ /\ pc = "final" /\ final = Documents
          /\ Verify
    /\ UNCHANGED <<routeVars, failures, crashes>>

\* The runner's process dies: a temporary file it was writing stays.
Crash ==
    /\ pc # "idle"
    /\ CanCrash
    /\ pc' = "idle" /\ ack' = "none" /\ result' = "none"
    /\ stray' = (stray \/ pc \in {"install", "freeze"})
    /\ Abandon
    /\ UNCHANGED <<journal, checkpoints, final, verified, rows, execution, scores>>

RunnerStep ==
    \/ NextTrial \/ Submit \/ Wait \/ AppendFailed \/ AppendResult
    \/ CreateCheckpoint \/ InstallCheckpoint \/ AppendCompleted \/ Freeze

Coordinator ==
    /\ \/ \E t \in Trials : Arrive(t) \/ Execute(t) \/ StageFails(t)
       \/ CoordinatorCrash
    /\ UNCHANGED runVars

Next ==
    \/ \E a \in Acknowledgements : Start(a)
    \/ RunnerStep
    \/ SubmitFails \/ WaitFails \/ Crash
    \/ Coordinator

Spec == Init /\ [][Next]_vars

\* The processes are scheduled, FlowMesh delivers what it accepted, and the
\* operator starts a stopped run again, with the digest of its failure.
FairSpec ==
    /\ Spec
    /\ WF_vars(RunnerStep)
    /\ WF_vars(Start("none")) /\ WF_vars(Start("latest"))
    /\ \A t \in Trials :
          /\ WF_vars(Arrive(t) /\ UNCHANGED runVars)
          /\ WF_vars(Execute(t) /\ UNCHANGED runVars)

-----------------------------------------------------------------------------
Entries == {"TRIAL_INTENT", "TRIAL_RESULT", "TRIAL_COMPLETED", "RUN_FAILED",
            "FAILURE_ACKNOWLEDGED"}

JournalType ==
    [completed : 0 .. N, state : Entries \cup {"none", "invalid"}, active : 0 .. N,
     results : [Trials -> Results]]

TypeOK ==
    /\ RouteTypeOK
    /\ journal \in JournalType
    /\ checkpoints \in [Trials -> Results]
    /\ stray \in BOOLEAN /\ final \in 0 .. Documents /\ verified \in BOOLEAN
    /\ pc \in {"idle", "loop", "execute", "wait", "failed", "result", "checkpoint",
               "install", "complete", "final", "freeze"}
    /\ ack \in Acknowledgements /\ result \in Results

\* Whatever the retries, the abandoned workflows and the deaths of the two
\* processes, N1 is asked to score a trial at most once, and a trial with a
\* journalled result was scored and its evidence is stored at its node
\* (SemanticTrialExecutor: "Implementations MUST make idempotency_key
\* effective"; SQLiteRouteExecutionStore: "Durable exactly-once route
\* evidence").
ScoredOnce ==
    \A t \in Trials :
        /\ scores[t] <= 1
        /\ journal.results[t] # "none" => scores[t] = 1 /\ rows[t] = "COMPLETE"

\* The runner never writes a journal that its own audit refuses, whichever
\* entry it died after (_audit_journal, the recovery of crash windows).
JournalLegal == journal.state # "invalid"

\* The runner never calls the executor for a trial whose checkpoint is
\* written, and never stops at a checkpoint ahead of its journal
\* (SemanticTrialExecutor; "checkpoint exists before its journal completion").
NeverReexecuted ==
    pc \in {"loop", "execute", "wait", "failed", "result"} =>
        \A t \in Trials : checkpoints[t] # "none" => t < Current

\* What no restart of the runner repairs: a trial whose row is failed or
\* belongs to an execution that is no more, and a left-over temporary file.
Unfinishable ==
    \/ stray
    \/ \E t \in Trials :
          rows[t] = "FAILED" \/ (rows[t] = "RUNNING" /\ execution[t] = "none")

\* Restarted as long as it fails, the run ends VERIFIED, with every trial
\* scored, or in one of these cases.
Settles == <>(Unfinishable \/ (verified /\ \A t \in Trials : scores[t] = 1))
=============================================================================
