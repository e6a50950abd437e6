--------------------------- MODULE OracleRecovery ----------------------------
(***************************************************************************)
(* The reduced oracle (reduced_oracle/runner.py), which runs every trial   *)
(* under every physical design and restores the safe one, and its audited  *)
(* recovery (reduced_oracle/recovery.py), which freezes an incident,       *)
(* retries the missing and failed trials in a ledger of its own and        *)
(* combines both into one canonical result.  Either process may die at     *)
(* any step and be started again.  One of them runs at a time: each locks  *)
(* its own directory, and the operator runs them in turn.                  *)
(***************************************************************************)
EXTENDS DesignTransition, FiniteSetsExt

CONSTANTS
    Trials,          \* the trials of each design, in order
    MaxConsecutive,  \* max_consecutive_infrastructure_failures
    MaxAttempts,     \* max_attempts_per_trial
    MaxFaults        \* bound on deaths, errors, trials that do not complete and
                     \* starts of the oracle over an incident that has a plan

AllTrials == UNION {Range(Trials[d]) : d \in Designs}

ASSUME RecoveryAssumption ==
    /\ Trials \in [Designs -> Seq(AllTrials)]
    /\ \A d, e \in Designs : d # e => Range(Trials[d]) \cap Range(Trials[e]) = {}
    /\ {MaxConsecutive, MaxAttempts} \subseteq Nat \ {0} /\ MaxFaults \in Nat

VARIABLES
    records,    \* outcomes in the runs.jsonl files of the incident
    complete,   \* designs whose manifest says COMPLETE
    finished,   \* the oracle's summary and manifest exist
    sessions,   \* results the gateways keep
    plan,       \* recovery_plan.json: retry set, and trials kept as they are
    intact,     \* the incident still has the digests of the plan
    attempts,   \* attempts.jsonl
    canonical,  \* canonical-oracle: the source of each trial's record
    manifest,   \* status in recovery_manifest.json
    torn,       \* files whose last line was cut short
    proc,       \* the running process
    faults

incidentVars == <<records, complete, finished>>
recoveryVars == <<plan, attempts, canonical, manifest>>
vars == <<transitionVars, incidentVars, recoveryVars, sessions, intact, torn, proc, faults>>

Outcomes == {"completed", "unevaluable", "infrastructure", "integrity"}
Statuses == {"RUNNING", "ATTEMPT_LIMIT_REACHED", "RESEARCH_INTEGRITY_FAILURE", "CIRCUIT_OPEN",
             "INCOMPLETE", "FINALIZATION_FAILED", "COMPLETE"}

NoProc == [kind |-> "none", pc |-> "off", then |-> "off", k |-> 0, queue |-> <<>>,
           outcome |-> None, first |-> TRUE, failures |-> 0,
           status |-> "RUNNING", raised |-> FALSE]

Process == [kind : {"none", "run", "recover"},
            pc : {"off", "copystate", "copyplan", "open", "moving", "next", "trial",
                  "append", "leave", "raise", "finish", "canonical", "complete"},
            then : {"off", "next", "trial", "raise"}, k : 0 .. Len(Order),
            queue : Seq(AllTrials), outcome : Outcomes \cup {None},
            first : BOOLEAN, failures : 0 .. MaxConsecutive, status : Statuses,
            raised : BOOLEAN]

Attempt == [trial : AllTrials, n : 1 .. MaxAttempts, outcome : Outcomes, first : BOOLEAN]

\* The state of the two commands stays within its types.
TypeOK ==
    /\ TransitionTypeOK
    /\ records \in [AllTrials -> Outcomes \cup {"missing"}]
    /\ complete \in SUBSET Designs
    /\ {finished, intact} \subseteq BOOLEAN
    /\ \A s \in sessions : /\ s.trial \in AllTrials /\ s.n \in 0 .. MaxAttempts
                           /\ s.outcome \in Outcomes
    /\ plan = None \/ (plan.items \in Seq(AllTrials) /\ plan.kept \subseteq AllTrials)
    /\ attempts \in Seq(Attempt)
    /\ canonical = None \/ canonical \in [AllTrials -> 0 .. MaxAttempts]
    /\ manifest \in Statuses \cup {None}
    /\ torn \subseteq {"runs", "incident", "attempts", "recovery"}
    /\ proc \in Process
    /\ faults \in 0 .. MaxFaults

\* oracle_plan.json is frozen and nothing has run.
Init ==
    /\ TransitionInit
    /\ records = [t \in AllTrials |-> "missing"] /\ complete = {} /\ finished = FALSE
    /\ plan = None /\ attempts = <<>> /\ canonical = None /\ manifest = None
    /\ sessions = {} /\ intact = TRUE /\ torn = {} /\ proc = NoProc /\ faults = 0

Fault == faults < MaxFaults /\ faults' = faults + 1

Dir == IF proc.kind = "run" THEN "incident" ELSE "recovery"
Pc(label) == proc.pc = label
Design == Order[proc.k]
Trial == Head(proc.queue)

\* A write into the incident changes the digests that a plan has frozen.
Touch(writes) ==
    intact' = (intact /\ (plan = None \/ proc.kind # "run" \/ ~writes))

----------------------------------------------------------------------------
\* Starting: run_reduced_oracle, plan_reduced_oracle_recovery and
\* run_reduced_oracle_recovery.

\* The oracle, also by mistake over an incident with a plan; what more is started
\* there once the recovery is refused for good is not followed.
StartRun ==
    /\ proc = NoProc /\ intact
    /\ IF plan = None THEN UNCHANGED faults ELSE Fault
    /\ proc' = [NoProc EXCEPT !.kind = "run", !.pc = "open"]
    /\ UNCHANGED <<transitionVars, incidentVars, recoveryVars, sessions, intact, torn>>

Retryable == {"missing", "infrastructure"}

Audited ==
    /\ "runs" \notin torn
    /\ \A t \in AllTrials : records[t] \in Retryable \cup {"completed"}

InOrder == FlattenSeq([k \in DOMAIN Order |-> Trials[Order[k]]])

Frozen == [items |-> SelectSeq(InOrder, LAMBDA t : records[t] \in Retryable),
           kept |-> {t \in AllTrials : records[t] = "completed"}]

PlanRecovery ==
    /\ proc = NoProc /\ plan = None /\ Audited
    /\ plan' = Frozen
    /\ intact' = TRUE
    /\ UNCHANGED <<transitionVars, incidentVars, attempts, canonical, manifest,
                   sessions, torn, proc, faults>>

StartRecovery ==
    /\ proc = NoProc /\ plan # None /\ intact
    /\ proc' = [NoProc EXCEPT !.kind = "recover", !.pc = "copystate"]
    /\ UNCHANGED <<transitionVars, incidentVars, recoveryVars, sessions, intact, torn, faults>>

\* _initialize_recovery_runtime: a file that exists is not copied again.
CopyState ==
    /\ Pc("copystate")
    /\ runtime' = IF runtime["recovery"].exists THEN runtime
                  ELSE [runtime EXCEPT !["recovery"] =
                           [runtime["incident"] EXCEPT !.plan = runtime["recovery"].plan]]
    /\ proc' = [proc EXCEPT !.pc = "copyplan"]
    /\ UNCHANGED <<present, foreign, move, transitions, astray, incidentVars, recoveryVars,
                   sessions, intact, torn, faults>>

\* ... and _load_attempts, which does not repair a line cut short.
CopyPlan ==
    /\ Pc("copyplan")
    /\ runtime' = IF runtime["recovery"].plan # None THEN runtime
                  ELSE [runtime EXCEPT !["recovery"].plan = runtime["incident"].plan]
    /\ proc' = IF "attempts" \in torn THEN NoProc ELSE [proc EXCEPT !.pc = "open"]
    /\ UNCHANGED <<present, foreign, move, transitions, astray, incidentVars, recoveryVars,
                   sessions, intact, torn, faults>>

----------------------------------------------------------------------------
\* Transitions of the process.

MoveTo(d, type, then) ==
    /\ Begin(Dir, d, type)
    /\ proc' = [proc EXCEPT !.pc = "moving", !.then = then]

Open ==
    /\ Pc("open")
    /\ IF runtime[Dir].active = Safe
       THEN proc' = [proc EXCEPT !.pc = "next"] /\ UNCHANGED transitionVars
       ELSE MoveTo(Safe, IF runtime[Dir].active = None THEN "activate" ELSE "restore", "next")
    /\ UNCHANGED <<incidentVars, recoveryVars, sessions, intact, torn, faults>>

\* load_pilot_records, when the pilot of a design begins.
Repaired == IF proc.kind = "run" THEN torn \ {"runs"} ELSE torn

MoveStep ==
    /\ Pc("moving") /\ TransitionStep
    /\ Touch(runtime' # runtime)
    /\ UNCHANGED <<incidentVars, recoveryVars, sessions, torn, proc, faults>>

MoveEnds ==
    /\ Pc("moving") /\ Observe
    /\ Touch(TRUE)
    /\ proc' = [proc EXCEPT !.pc = proc.then, !.then = "off"]
    /\ torn' = IF proc.then = "trial" THEN Repaired ELSE torn
    /\ UNCHANGED <<incidentVars, recoveryVars, sessions, faults>>

\* The first transition is outside the try block that writes the manifest.
\* An exception of a later one takes the place of what the trials raised.
MoveFails ==
    /\ Pc("moving") /\ Fault /\ Abandon(Dir)
    /\ proc' = IF proc.k = 0 THEN NoProc
               ELSE [proc EXCEPT !.pc = "raise", !.then = "off", !.raised = FALSE]
    /\ UNCHANGED <<incidentVars, recoveryVars, sessions, intact, torn>>

----------------------------------------------------------------------------
\* The loop over the designs.

Tries(t) == Len(SelectSeq(attempts, LAMBDA a : a.trial = t))
Recovered(t) == \E i \in DOMAIN attempts :
                    attempts[i].trial = t /\ attempts[i].outcome = "completed"

Pending(d) == SelectSeq(plan.items, LAMBDA t : t \in Range(Trials[d]) /\ ~Recovered(t))

Unrecorded(d) == SelectSeq(Trials[d], LAMBDA t : records[t] = "missing")

HasWork(d) == IF proc.kind = "run" THEN d \notin complete ELSE Pending(d) # <<>>

\* The next design with work.
NextDesign ==
    /\ Pc("next")
    /\ LET rest == {k \in proc.k + 1 .. Len(Order) : HasWork(Order[k])}
           d == Order[Min(rest)]
           entered == [proc EXCEPT !.k = Min(rest),
                          !.queue = IF proc.kind = "run" THEN Unrecorded(d) ELSE Pending(d)]
       IN  \/ /\ rest = {}
              /\ proc' = [proc EXCEPT !.pc = "finish"]
              /\ UNCHANGED <<transitionVars, intact, torn>>
           \/ /\ rest # {} /\ d = Safe
              /\ proc' = [entered EXCEPT !.pc = "trial"]
              /\ Touch(TRUE) /\ torn' = Repaired /\ UNCHANGED transitionVars
           \/ /\ rest # {} /\ d # Safe
              /\ Begin(Dir, d, "forward")
              /\ proc' = [entered EXCEPT !.pc = "moving", !.then = "trial"]
              /\ UNCHANGED <<intact, torn>>
    /\ UNCHANGED <<incidentVars, recoveryVars, sessions, faults>>

\* Mutant: an attempt is numbered by the ledger, not by its trial.
NumberInLedger(t) == IF proc.kind = "run" THEN 0 ELSE Len(attempts) + 1

\* The session of a trial is derived from its number of attempts.
Number(t) == IF proc.kind = "run" THEN 0 ELSE Tries(t) + 1

Kept(t) == {s \in sessions : s.trial = t /\ s.n = Number(t)}

AtLimit(t) == proc.kind = "recover" /\ Tries(t) >= MaxAttempts

ReachLimit ==
    /\ Pc("trial") /\ proc.queue # <<>> /\ AtLimit(Trial)
    /\ proc' = [proc EXCEPT !.pc = "leave", !.raised = TRUE, !.status = "ATTEMPT_LIMIT_REACHED"]
    /\ UNCHANGED <<transitionVars, incidentVars, recoveryVars, sessions, intact, torn, faults>>

\* adapter.recover gives the result of a session that has ended.
Recover ==
    /\ Pc("trial") /\ proc.queue # <<>> /\ ~AtLimit(Trial)
    /\ \E s \in Kept(Trial) :
          proc' = [proc EXCEPT !.pc = "append", !.outcome = s.outcome]
    /\ UNCHANGED <<transitionVars, incidentVars, recoveryVars, sessions, intact, torn, faults>>

\* The outcomes that the gateway can give again.  It may do so for a failed
\* delivery too, which is here one of the outcomes of a new call.
Keeps == {"completed", "unevaluable"}

\* adapter.run
Submit ==
    /\ Pc("trial") /\ proc.queue # <<>> /\ ~AtLimit(Trial) /\ Kept(Trial) = {}
    /\ \E outcome \in Outcomes :
          /\ IF outcome = "completed" THEN UNCHANGED faults ELSE Fault
          /\ proc' = [proc EXCEPT !.pc = "append", !.outcome = outcome]
          /\ sessions' = IF outcome \notin Keeps THEN sessions
                         ELSE sessions \cup {[trial |-> Trial, n |-> Number(Trial),
                                             outcome |-> outcome]}
    /\ UNCHANGED <<transitionVars, incidentVars, recoveryVars, intact, torn>>

AppendRecord ==
    /\ Pc("append") /\ proc.kind = "run"
    /\ records' = [records EXCEPT ![Trial] = proc.outcome]
    /\ proc' = [proc EXCEPT !.pc = "trial", !.queue = Tail(@), !.outcome = None]
    /\ Touch(TRUE)
    /\ UNCHANGED <<transitionVars, complete, finished, recoveryVars, sessions, torn, faults>>

OpenCircuit(failures) == failures >= MaxConsecutive

\* The sealed attempt is appended; some outcomes stop the process.
AppendAttempt ==
    /\ Pc("append") /\ proc.kind = "recover"
    /\ attempts' = Append(attempts, [trial |-> Trial, n |-> Number(Trial),
                                     outcome |-> proc.outcome, first |-> proc.first])
    /\ LET failures == IF proc.outcome = "infrastructure" THEN proc.failures + 1 ELSE 0
           done == [proc EXCEPT !.queue = Tail(@), !.outcome = None,
                                !.first = FALSE, !.failures = failures]
           stop(status) == [done EXCEPT !.pc = "leave", !.raised = TRUE, !.status = status]
       IN  proc' = CASE proc.outcome = "integrity" -> stop("RESEARCH_INTEGRITY_FAILURE")
                     [] proc.outcome # "integrity" /\ OpenCircuit(failures) -> stop("CIRCUIT_OPEN")
                     [] OTHER -> [done EXCEPT !.pc = "trial"]
    /\ UNCHANGED <<transitionVars, incidentVars, plan, canonical, manifest, sessions,
                   intact, torn, faults>>

\* An error of the append: the trial has no record.
WriteFails ==
    /\ Pc("append") /\ Fault
    /\ proc' = [proc EXCEPT !.pc = "leave", !.raised = TRUE, !.outcome = None]
    /\ UNCHANGED <<transitionVars, incidentVars, recoveryVars, sessions, intact, torn>>

DesignDone ==
    /\ Pc("trial") /\ proc.queue = <<>>
    /\ complete' = IF proc.kind = "run" THEN complete \cup {Design} ELSE complete
    /\ Touch(TRUE)
    /\ proc' = [proc EXCEPT !.pc = "leave"]
    /\ UNCHANGED <<transitionVars, records, finished, recoveryVars, sessions, torn, faults>>

\* The finally block restores the safe design, also after an exception.
Leave ==
    /\ Pc("leave")
    /\ LET then == IF proc.raised THEN "raise" ELSE "next"
       IN  IF Design = Safe
           THEN proc' = [proc EXCEPT !.pc = then] /\ UNCHANGED transitionVars
           ELSE MoveTo(Safe, "restore", then)
    /\ UNCHANGED <<incidentVars, recoveryVars, sessions, intact, torn, faults>>

Raise ==
    /\ Pc("raise")
    /\ manifest' = IF proc.kind = "recover" THEN proc.status ELSE manifest
    /\ proc' = NoProc
    /\ UNCHANGED <<transitionVars, incidentVars, plan, attempts, canonical, sessions,
                   intact, torn, faults>>

----------------------------------------------------------------------------
\* The end.

\* analyze_reduced_oracle and the oracle's manifest, the same when repeated.
FinishRun ==
    /\ Pc("finish") /\ proc.kind = "run"
    /\ finished' = (finished \/ "incident" \notin torn)
    /\ Touch(finished' # finished)
    /\ proc' = NoProc
    /\ UNCHANGED <<transitionVars, records, complete, recoveryVars, sessions, torn, faults>>

\* Mutant: counted against all trials, not the recoverable ones.
AllRecoveredOfAll == \A t \in AllTrials : Recovered(t)

AllRecovered == \A t \in Range(plan.items) : Recovered(t)

FinishRecovery ==
    /\ Pc("finish") /\ proc.kind = "recover"
    /\ IF AllRecovered
       THEN proc' = [proc EXCEPT !.pc = "canonical"] /\ UNCHANGED manifest
       ELSE proc' = NoProc /\ manifest' = "INCOMPLETE"
    /\ UNCHANGED <<transitionVars, incidentVars, plan, attempts, canonical, sessions,
                   intact, torn, faults>>

\* _select_canonical_transitions: a forward and a restore of every design.
Observed(d) ==
    {<<Safe, d, "forward">>, <<d, Safe, "restore">>}
        \subseteq transitions["incident"] \cup transitions["recovery"]

CanFinalize ==
    /\ torn \cap {"incident", "recovery"} = {}
    /\ \A d \in Designs \ {Safe} : Observed(d)
    /\ runtime["recovery"].plan = Safe

\* The record of a trial: the incident's (0), or the last completed attempt.
Source(t) ==
    IF t \in plan.kept THEN 0
    ELSE Max({attempts[i].n : i \in {j \in DOMAIN attempts :
                 attempts[j].trial = t /\ attempts[j].outcome = "completed"}})

\* _finalize_canonical_oracle: an existing result is verified and kept, a new
\* one appears with one rename.
Finalize ==
    /\ Pc("canonical")
    /\ IF canonical # None \/ CanFinalize
       THEN /\ canonical' = IF canonical # None THEN canonical
                            ELSE [t \in AllTrials |-> Source(t)]
            /\ proc' = [proc EXCEPT !.pc = "complete"]
            /\ UNCHANGED manifest
       ELSE /\ manifest' = "FINALIZATION_FAILED"
            /\ proc' = NoProc
            /\ UNCHANGED canonical
    /\ UNCHANGED <<transitionVars, incidentVars, plan, attempts, sessions,
                   intact, torn, faults>>

Complete ==
    /\ Pc("complete")
    /\ manifest' = "COMPLETE"
    /\ proc' = NoProc
    /\ UNCHANGED <<transitionVars, incidentVars, plan, attempts, canonical, sessions,
                   intact, torn, faults>>

----------------------------------------------------------------------------
\* Deaths.

Die ==
    /\ proc # NoProc /\ Fault /\ Abandon(Dir)
    /\ proc' = NoProc
    /\ UNCHANGED <<incidentVars, recoveryVars, sessions, intact, torn>>

\* In the middle of a line of a journal.
DieWriting ==
    /\ Fault /\ Abandon(Dir)
    /\ \/ /\ Pc("append")
          /\ torn' = torn \cup {IF proc.kind = "run" THEN "runs" ELSE "attempts"}
       \/ /\ Pc("moving") /\ At("observe")
          /\ torn' = torn \cup {Dir}
    /\ Touch(TRUE)
    /\ proc' = NoProc
    /\ UNCHANGED <<incidentVars, recoveryVars, sessions>>

\* What a process does by itself.
Step ==
    \/ CopyState \/ CopyPlan \/ Open \/ MoveStep \/ MoveEnds
    \/ NextDesign \/ ReachLimit \/ Recover \/ Submit \/ AppendRecord \/ AppendAttempt
    \/ DesignDone \/ Leave \/ Raise \/ FinishRun \/ FinishRecovery \/ Finalize \/ Complete

Next ==
    \/ StartRun \/ PlanRecovery \/ StartRecovery
    \/ Step
    \/ MoveFails \/ WriteFails \/ Die \/ DieWriting

\* A process goes on, and the operator runs the recovery again and again.
Spec == Init /\ [][Next]_vars /\ WF_vars(Step) /\ SF_vars(StartRecovery)

----------------------------------------------------------------------------
\* A file that was there before the oracle is never removed, whatever was
\* interrupted (transition.py: "Existing matching files are reused but never
\* claimed or removed").
ForeignKept == foreign \subseteq present

\* The files that only the directory of the other command owns.  A command never
\* touches them, so that they may be there, under any design, when that command
\* has died away from the safe one.
OfOther == UNION {runtime[d].owned : d \in Dirs \ {Dir}} \ runtime[Dir].owned

LaidOut(d) ==
    /\ Desired[d] \subseteq present
    /\ present \subseteq Desired[d] \cup foreign \cup OfOther

\* A trial is measured under its design: the design is the active one, all its
\* files are there, and no file this command has written for another design is.
\* Only of the safe design less is known: a process that finds it active makes no
\* transition (run_reduced_oracle, run_reduced_oracle_recovery), also when an
\* earlier one has died, or failed to move, away from it or with its files half
\* removed and no transition to it was completed since.
TrialUnderDesign ==
    proc.pc \in {"trial", "append"} =>
        /\ runtime[Dir].active = Design
        /\ (Design = Safe /\ astray) \/ LaidOut(Design)

\* A process that stops because of its trials (an error, the circuit, the
\* limit, a failure of integrity), and one that reaches the end of its loop,
\* has the safe design active; if it had left it, all its files are back and
\* those of the candidates gone.
StopsSafe ==
    (Pc("raise") /\ proc.raised) \/ Pc("finish") =>
        /\ runtime[Dir].active = Safe
        /\ proc.k > 0 /\ Design # Safe => LaidOut(Safe)

\* The ledger has, for each trial of the frozen retry set and no other,
\* attempts numbered from one up to the limit, of which only the last can be
\* completed, over any number of processes.
LedgerInOrder ==
    \A t \in AllTrials :
        LET mine == SelectSeq(attempts, LAMBDA a : a.trial = t)
        IN  /\ mine # <<>> => t \in Range(plan.items)
            /\ Len(mine) <= MaxAttempts
            /\ \A i \in DOMAIN mine :
                  mine[i].n = i /\ (mine[i].outcome = "completed" => i = Len(mine))

\* No process submits more work after MaxConsecutive infrastructure failures in
\* a row: no longer row of them is the work of one process.
CircuitHolds ==
    \A i \in DOMAIN attempts :
        LET row == i .. i + MaxConsecutive
        IN  ~ /\ row \subseteq DOMAIN attempts
              /\ \A j \in row : attempts[j].outcome = "infrastructure"
              /\ \A j \in row \ {i} : ~attempts[j].first

\* The recovery does not run a trial again that has a completed session, also
\* when the process died before the attempt was in the ledger.
CompletedNotRepeated ==
    \A r, s \in {c \in sessions : c.n > 0 /\ c.outcome = "completed"} :
        r.trial = s.trial => r = s

\* The canonical result takes the incident's record of exactly the trials that
\* were complete when the plan was frozen and the one completed attempt of the
\* others; COMPLETE is only said of an existing one.
CanonicalIsTrue ==
    /\ canonical # None =>
          \A t \in AllTrials :
              IF canonical[t] = 0 THEN t \in plan.kept /\ records[t] = "completed"
              ELSE \E i \in DOMAIN attempts :
                      /\ attempts[i].trial = t /\ attempts[i].n = canonical[t]
                      /\ attempts[i].outcome = "completed"
    /\ manifest = "COMPLETE" => canonical # None

\* Trials run under their design and no other, processes leave the safe design
\* behind, and nothing that was there before is lost.
DesignIsActive == TypeOK /\ ForeignKept /\ TrialUnderDesign /\ StopsSafe

\* Over any number of processes the ledger stays in order and within its
\* limits, no trial is completed twice, and the canonical result is taken from
\* nothing else.
LedgerIsTrue == LedgerInOrder /\ CircuitHolds /\ CompletedNotRepeated /\ CanonicalIsTrue

\* A recovery cannot be finished for ever: a journal was cut short, a trial has
\* used up its attempts, the incident was written to, or a death fell between
\* the last restore of a design, its active plan and its observation, none of
\* which a later process repeats.
Stuck ==
    \/ torn # {} \/ ~intact
    \/ \E t \in AllTrials : Tries(t) = MaxAttempts /\ ~Recovered(t)
    \/ /\ proc = NoProc /\ plan # None /\ AllRecovered
       /\ ~CanFinalize /\ runtime["recovery"].active = Safe

\* A planned recovery that is started again and again ends in a canonical
\* result, unless it is stuck in one of these ways.
Settles == plan # None ~> canonical # None \/ Stuck
=============================================================================
