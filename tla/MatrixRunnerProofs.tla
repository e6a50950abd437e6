------------------------- MODULE MatrixRunnerProofs -------------------------
(***************************************************************************)
(* Proofs about MatrixRunner, for every number of trials, failures and     *)
(* deaths of the runner and of the coordinator.                            *)
(***************************************************************************)
EXTENDS MatrixRunner, TLAPS

Open == {"TRIAL_INTENT", "TRIAL_RESULT", "RUN_FAILED", "FAILURE_ACKNOWLEDGED"}

\* A row, the execution it belongs to and the score it spent.
RowInv ==
    \A t \in Trials :
        /\ rows[t] = "none" => scores[t] = 0
        /\ execution[t] = "running" => rows[t] = "RUNNING" /\ scores[t] = 0
        /\ execution[t] = "scored" => rows[t] = "RUNNING" /\ scores[t] = 1
        /\ rows[t] = "COMPLETE" => scores[t] = 1
        /\ scores[t] <= 1

\* A workflow is waited for by the trial of the loop, and what ended well
\* has its evidence stored.
WorkflowInv ==
    /\ workflow.state # "none" => pc = "wait"
    /\ pc = "wait" => workflow.trial = Current
    /\ workflow.state = "done" => rows[workflow.trial] = "COMPLETE"
    /\ pc = "result" => rows[Current] = "COMPLETE"
    /\ \A t \in Trials : journal.results[t] # "none" => rows[t] = "COMPLETE"

\* The step of the runner and the last entry of its journal.
PhaseInv ==
    /\ journal.state # "invalid"
    /\ journal.state \in Open => journal.active = Current /\ Current \in Trials
    /\ pc \in {"execute", "wait", "failed", "result"} => journal.state = "TRIAL_INTENT"
    /\ pc \in {"checkpoint", "install", "complete"} => journal.state = "TRIAL_RESULT"
    /\ pc = "loop" =>
          journal.state \in {"none", "TRIAL_COMPLETED", "FAILURE_ACKNOWLEDGED"}
    /\ pc = "freeze" => final < Documents

\* A checkpoint belongs to a completed trial or to the journalled result.
CheckpointInv ==
    \A t \in Trials :
        checkpoints[t] # "none" =>
            t < Current \/ (t = Current /\ journal.state = "TRIAL_RESULT")

IInv == TypeOK /\ RowInv /\ WorkflowInv /\ PhaseInv /\ CheckpointInv

\* The runner starts in the invariant (_initialize_run).
LEMMA InitOK == Init => IInv
<1> SUFFICES ASSUME Init PROVE IInv
  OBVIOUS
<1> USE MatrixAssumption DEF Trials
<1>1. RouteTypeOK
  BY DEF Init, RouteInit, NoWorkflow, RouteTypeOK
<1>2. journal \in JournalType
  BY DEF Init, Results, JournalType, Entries
<1>3. stray \in BOOLEAN /\ verified \in BOOLEAN
  BY Zenon DEF Init
<1>4. TypeOK
  BY <1>1, <1>2, <1>3 DEF Init, TypeOK, Documents, Results, Acknowledgements
<1>5. RowInv
  BY DEF Init, RouteInit, RowInv
<1>6. WorkflowInv
  BY DEF Init, RouteInit, NoWorkflow, WorkflowInv
<1>7. PhaseInv
  BY DEF Init, PhaseInv, Open
<1>8. CheckpointInv
  BY DEF Init, CheckpointInv
<1> QED
  BY <1>4, <1>5, <1>6, <1>7, <1>8 DEF IInv

\* An entry keeps the journal well typed, and a legal one becomes its state.
LEMMA AppendTyped ==
  ASSUME TypeOK, NEW state \in Entries, NEW t \in Trials, NEW r \in Results,
         Append(state, t, r), Legal(state, t),
         state = "TRIAL_COMPLETED" => Current \in Trials
  PROVE  /\ journal' \in JournalType
         /\ journal'.state = state
         /\ journal'.active = IF state = "TRIAL_COMPLETED" THEN 0 ELSE t
         /\ journal'.completed = IF state = "TRIAL_COMPLETED"
                                 THEN journal.completed + 1 ELSE journal.completed
         /\ \A u \in Trials :
               journal'.results[u] = IF state = "TRIAL_RESULT" /\ u = t
                                     THEN r ELSE journal.results[u]
<1> USE MatrixAssumption DEF Trials
<1>1. journal \in JournalType
  BY DEF TypeOK
<1> QED
  BY <1>1 DEF Append, JournalType, Entries, Current

\* Which entries are legal after which.
LEMMA LegalEntry ==
  ASSUME TypeOK, PhaseInv
  PROVE  /\ journal.state = "TRIAL_INTENT" =>
               Legal("RUN_FAILED", Current) /\ Legal("TRIAL_RESULT", Current)
         /\ journal.state = "TRIAL_RESULT" => Legal("TRIAL_COMPLETED", Current)
         /\ journal.state = "RUN_FAILED" =>
               Legal("FAILURE_ACKNOWLEDGED", journal.active)
         /\ journal.state \in {"none", "TRIAL_COMPLETED", "FAILURE_ACKNOWLEDGED"} =>
               Legal("TRIAL_INTENT", Current)
BY DEF Legal, PhaseInv, Open

\* Steps that write the checkpoint.
LEMMA CreateCheckpointOK == ASSUME IInv, CreateCheckpoint PROVE IInv'
<1> USE MatrixAssumption DEF Trials, IInv
<1>1. /\ pc = "checkpoint" /\ pc' \in {"install", "complete", "idle"}
      /\ UNCHANGED <<journal, checkpoints, stray, final, verified, ack, result, rows, execution,
                     scores, workflow, abandoned, failures, crashes>>
  BY DEF CreateCheckpoint, diskVars, routeVars
<1>2. TypeOK'
  BY <1>1 DEF TypeOK, RouteTypeOK
<1>3. RowInv' /\ WorkflowInv' /\ PhaseInv' /\ CheckpointInv'
  BY <1>1 DEF RowInv, WorkflowInv, PhaseInv, CheckpointInv, Current, Open, TypeOK
<1> QED
  BY <1>2, <1>3

\* The rename of the checkpoint.
LEMMA InstallCheckpointOK == ASSUME IInv, InstallCheckpoint PROVE IInv'
<1> USE MatrixAssumption DEF Trials, IInv
<1>1. /\ UNCHANGED <<journal, stray, final, verified, ack, result, rows, execution,
                     scores, workflow, abandoned, failures, crashes>>
      /\ pc = "install" /\ pc' = "complete"
      /\ checkpoints' = [checkpoints EXCEPT ![Current] = journal.results[Current]]
  BY DEF InstallCheckpoint, routeVars
<1>2. Current \in Trials /\ journal.state = "TRIAL_RESULT"
  BY <1>1 DEF PhaseInv, Open
<1>3. checkpoints' \in [Trials -> Results]
  BY <1>1, <1>2 DEF TypeOK, JournalType
<1>4. TypeOK'
  BY <1>1, <1>3 DEF TypeOK, RouteTypeOK
<1>5. RowInv' /\ WorkflowInv' /\ PhaseInv'
  BY <1>1 DEF RowInv, WorkflowInv, PhaseInv, Current, Open, TypeOK
<1>6. CheckpointInv'
  BY <1>1, <1>2 DEF CheckpointInv, Current, TypeOK
<1> QED
  BY <1>4, <1>5, <1>6

\* The head of the loop.
LEMMA NextTrialOK == ASSUME IInv, NextTrial PROVE IInv'
<1> USE MatrixAssumption DEF Trials, IInv
<1>1. UNCHANGED <<checkpoints, stray, final, verified, ack, result, rows, execution, scores,
                  workflow, abandoned, failures, crashes>>
  BY DEF NextTrial, routeVars
<1>2. CASE Current \in Trials /\ checkpoints[Current] = "none"
  <2>1. Append("TRIAL_INTENT", Current, "none") /\ pc = "loop" /\ pc' = "execute"
    BY <1>2 DEF NextTrial
  <2>2. Legal("TRIAL_INTENT", Current)
    BY <2>1, LegalEntry DEF PhaseInv
  <2>3. /\ journal' \in JournalType
        /\ journal'.state = "TRIAL_INTENT" /\ journal'.active = Current
        /\ journal'.completed = journal.completed
        /\ \A u \in Trials : journal'.results[u] = journal.results[u]
    BY <1>2, <2>1, <2>2, AppendTyped DEF Entries, Results
  <2>4. TypeOK'
    BY <1>1, <2>1, <2>3 DEF TypeOK, RouteTypeOK
  <2>5. RowInv' /\ WorkflowInv'
    BY <1>1, <2>1, <2>3 DEF RowInv, WorkflowInv, Current, TypeOK, RouteTypeOK
  <2>6. PhaseInv' /\ CheckpointInv'
    BY <1>1, <1>2, <2>1, <2>3 DEF PhaseInv, CheckpointInv, Current, Open, TypeOK
  <2> QED
    BY <2>4, <2>5, <2>6
<1>3. CASE ~(Current \in Trials /\ checkpoints[Current] = "none")
  <2>1. UNCHANGED journal /\ pc' \in {"final", "idle"} /\ pc = "loop"
    BY <1>3 DEF NextTrial
  <2>2. TypeOK'
    BY <1>1, <2>1 DEF TypeOK, RouteTypeOK
  <2>3. RowInv' /\ WorkflowInv' /\ PhaseInv' /\ CheckpointInv'
    BY <1>1, <2>1 DEF RowInv, WorkflowInv, PhaseInv, CheckpointInv, Current, Open, TypeOK
  <2> QED
    BY <2>2, <2>3
<1> QED
  BY <1>2, <1>3

\* The failure is journalled.
LEMMA AppendFailedOK == ASSUME IInv, AppendFailed PROVE IInv'
<1> USE MatrixAssumption DEF Trials, IInv
<1>1. /\ UNCHANGED <<checkpoints, stray, final, verified, ack, result, rows, execution, scores,
                     workflow, abandoned, failures, crashes>>
      /\ Append("RUN_FAILED", Current, "none") /\ pc = "failed" /\ pc' = "idle"
  BY DEF AppendFailed, routeVars
<1>2. Legal("RUN_FAILED", Current) /\ Current \in Trials
  BY <1>1, LegalEntry DEF PhaseInv, Open
<1>3. /\ journal' \in JournalType
      /\ journal'.state = "RUN_FAILED" /\ journal'.active = Current
      /\ journal'.completed = journal.completed
      /\ \A u \in Trials : journal'.results[u] = journal.results[u]
  BY <1>1, <1>2, AppendTyped DEF Entries, Results
<1>4. TypeOK'
  BY <1>1, <1>3 DEF TypeOK, RouteTypeOK
<1>5. RowInv' /\ WorkflowInv'
  BY <1>1, <1>3 DEF RowInv, WorkflowInv, Current, TypeOK, RouteTypeOK
<1>6. PhaseInv' /\ CheckpointInv'
  BY <1>1, <1>2, <1>3 DEF PhaseInv, CheckpointInv, Current, Open, TypeOK
<1> QED
  BY <1>4, <1>5, <1>6

\* The result is journalled: the evidence of its trial is stored.
LEMMA AppendResultOK == ASSUME IInv, AppendResult PROVE IInv'
<1> USE MatrixAssumption DEF Trials, IInv
<1>1. /\ UNCHANGED <<checkpoints, stray, final, verified, ack, rows, execution, scores,
                     workflow, abandoned, failures, crashes>>
      /\ Append("TRIAL_RESULT", Current, result) /\ result' = "none"
      /\ pc = "result" /\ pc' = "checkpoint"
  BY DEF AppendResult, routeVars
<1>2. Legal("TRIAL_RESULT", Current) /\ Current \in Trials /\ result \in Results
  BY <1>1, LegalEntry DEF PhaseInv, Open, TypeOK
<1>3. /\ journal' \in JournalType
      /\ journal'.state = "TRIAL_RESULT" /\ journal'.active = Current
      /\ journal'.completed = journal.completed
      /\ \A u \in Trials : journal'.results[u] = IF u = Current THEN result
                                                 ELSE journal.results[u]
  BY <1>1, <1>2, AppendTyped DEF Entries
<1>4. TypeOK'
  BY <1>1, <1>3 DEF TypeOK, RouteTypeOK, Results
<1>5. RowInv' /\ WorkflowInv'
  BY <1>1, <1>2, <1>3 DEF RowInv, WorkflowInv, Current, TypeOK, RouteTypeOK
<1>6. PhaseInv' /\ CheckpointInv'
  BY <1>1, <1>2, <1>3 DEF PhaseInv, CheckpointInv, Current, Open, TypeOK
<1> QED
  BY <1>4, <1>5, <1>6

\* The completion is journalled.
LEMMA AppendCompletedOK == ASSUME IInv, AppendCompleted PROVE IInv'
<1> USE MatrixAssumption DEF Trials, IInv
<1>1. /\ UNCHANGED <<checkpoints, stray, final, verified, result, rows, execution, scores,
                     workflow, abandoned, failures, crashes>>
      /\ Append("TRIAL_COMPLETED", Current, "none") /\ ack' = "none"
      /\ pc = "complete" /\ pc' \in {"loop", "idle"}
  BY DEF AppendCompleted, routeVars
<1>2. Legal("TRIAL_COMPLETED", Current) /\ Current \in Trials
      /\ journal.state = "TRIAL_RESULT"
  BY <1>1, LegalEntry DEF PhaseInv, Open
<1>3. /\ journal' \in JournalType
      /\ journal'.state = "TRIAL_COMPLETED"
      /\ journal'.completed = journal.completed + 1
      /\ \A u \in Trials : journal'.results[u] = journal.results[u]
  BY <1>1, <1>2, AppendTyped DEF Entries, Results
<1>4. TypeOK'
  BY <1>1, <1>3 DEF TypeOK, RouteTypeOK, Acknowledgements
<1>5. RowInv' /\ WorkflowInv'
  BY <1>1, <1>2, <1>3 DEF RowInv, WorkflowInv, Current, TypeOK, RouteTypeOK
<1>6. PhaseInv'
  BY <1>1, <1>2, <1>3 DEF PhaseInv, Current, Open, TypeOK
<1>7. CheckpointInv'
  BY <1>1, <1>2, <1>3 DEF CheckpointInv, Current, TypeOK, JournalType
<1> QED
  BY <1>4, <1>5, <1>6, <1>7

\* The final documents are written and verified.
LEMMA VerifyOK == ASSUME TypeOK, Verify PROVE verified' \in BOOLEAN
BY Zenon DEF Verify

\* The documents, with the runner's step among them.
LEMMA FreezeOK == ASSUME IInv, Freeze PROVE IInv'
<1> USE MatrixAssumption DEF Trials, IInv
<1>1. /\ UNCHANGED <<journal, checkpoints, stray, ack, result, rows, execution, scores,
                     workflow, abandoned, failures, crashes>>
      /\ pc \in {"final", "freeze"} /\ pc' \in {"final", "freeze", "idle"}
  BY DEF Freeze, Verify, routeVars, diskVars
<1>2. final' \in 0 .. Documents /\ (pc' = "freeze" => final' < Documents)
  BY DEF Freeze, Verify, diskVars, Documents, TypeOK, PhaseInv
<1>3. verified' \in BOOLEAN
  <2>1. verified' = verified \/ Verify
    BY DEF Freeze
  <2>2. CASE verified' = verified
    BY <2>2, Zenon DEF TypeOK
  <2> QED
    BY <2>1, <2>2, VerifyOK
<1>4. TypeOK'
  BY <1>1, <1>2, <1>3 DEF TypeOK, RouteTypeOK
<1>5. RowInv' /\ WorkflowInv' /\ PhaseInv' /\ CheckpointInv'
  BY <1>1, <1>2 DEF RowInv, WorkflowInv, PhaseInv, CheckpointInv, Current, Open, TypeOK
<1> QED
  BY <1>4, <1>5

-----------------------------------------------------------------------------
\* The workflow is submitted.
LEMMA SubmitOK == ASSUME IInv, Submit PROVE IInv'
<1> USE MatrixAssumption DEF Trials, IInv
<1>1. /\ UNCHANGED <<journal, checkpoints, stray, final, verified, ack, result, rows, execution,
                     scores, abandoned, failures, crashes>>
      /\ pc = "execute" /\ pc' = "wait"
      /\ workflow' = [trial |-> Current, state |-> "queued", result |-> "none"]
  BY DEF Submit, Submitted, diskVars
<1>2. Current \in Trials
  BY <1>1 DEF PhaseInv, Open
<1>3. TypeOK'
  BY <1>1, <1>2 DEF TypeOK, RouteTypeOK
<1>4. RowInv' /\ WorkflowInv' /\ PhaseInv' /\ CheckpointInv'
  BY <1>1, <1>2 DEF RowInv, WorkflowInv, PhaseInv, CheckpointInv, Current, Open, TypeOK
<1> QED
  BY <1>3, <1>4

\* The workflow ended.
LEMMA WaitOK == ASSUME IInv, Wait PROVE IInv'
<1> USE MatrixAssumption DEF Trials, IInv
<1>1. /\ UNCHANGED <<journal, checkpoints, stray, final, verified, ack, rows, execution,
                     scores, abandoned, failures, crashes>>
      /\ pc = "wait" /\ pc' \in {"result", "failed"} /\ result' = workflow.result
      /\ pc' = "result" => workflow.state = "done"
      /\ workflow' = [trial |-> 0, state |-> "none", result |-> "none"]
  BY DEF Wait, NoWorkflow, diskVars
<1>2. TypeOK'
  BY <1>1 DEF TypeOK, RouteTypeOK, Results
<1>3. RowInv' /\ WorkflowInv' /\ PhaseInv' /\ CheckpointInv'
  BY <1>1 DEF RowInv, WorkflowInv, PhaseInv, CheckpointInv, Current, Open, TypeOK
<1> QED
  BY <1>2, <1>3

\* The call fails.
LEMMA SubmitFailsOK == ASSUME IInv, SubmitFails PROVE IInv'
<1> USE MatrixAssumption DEF Trials, IInv
<1>1. /\ UNCHANGED <<journal, checkpoints, stray, final, verified, ack, result, rows, execution,
                     scores, workflow, crashes>>
      /\ pc = "execute" /\ pc' = "failed"
  BY DEF SubmitFails, CanFail, diskVars
<1>2. abandoned' \in [Trials -> Nat] /\ failures' \in Nat
  <2>1. failures' \in Nat
    BY DEF SubmitFails, CanFail, TypeOK, RouteTypeOK
  <2>2. Current \in Trials
    BY <1>1 DEF PhaseInv, Open
  <2>3. CASE abandoned' = abandoned
    BY <2>1, <2>3 DEF TypeOK, RouteTypeOK
  <2>4. CASE abandoned' = [abandoned EXCEPT ![Current] = @ + 1]
    BY <2>1, <2>2, <2>4 DEF TypeOK, RouteTypeOK
  <2> QED
    BY <2>3, <2>4 DEF SubmitFails
<1>3. TypeOK'
  BY <1>1, <1>2 DEF TypeOK, RouteTypeOK
<1>4. RowInv' /\ WorkflowInv' /\ PhaseInv' /\ CheckpointInv'
  BY <1>1 DEF RowInv, WorkflowInv, PhaseInv, CheckpointInv, Current, Open, TypeOK
<1> QED
  BY <1>3, <1>4

\* A workflow nobody waits for stays well typed.
LEMMA AbandonTyped ==
  ASSUME TypeOK, Abandon
  PROVE  /\ workflow' = [trial |-> 0, state |-> "none", result |-> "none"]
         /\ abandoned' \in [Trials -> Nat]
BY MatrixAssumption DEF Abandon, NoWorkflow, TypeOK, RouteTypeOK

\* Waiting fails.
LEMMA WaitFailsOK == ASSUME IInv, WaitFails PROVE IInv'
<1> USE MatrixAssumption DEF Trials, IInv
<1>1. /\ UNCHANGED <<journal, checkpoints, stray, final, verified, ack, result, rows, execution,
                     scores, crashes>>
      /\ pc = "wait" /\ pc' = "failed"
      /\ workflow' = [trial |-> 0, state |-> "none", result |-> "none"]
      /\ abandoned' \in [Trials -> Nat] /\ failures' \in Nat
  BY AbandonTyped DEF WaitFails, CanFail, diskVars, TypeOK, RouteTypeOK
<1>2. TypeOK'
  BY <1>1 DEF TypeOK, RouteTypeOK
<1>3. RowInv' /\ WorkflowInv' /\ PhaseInv' /\ CheckpointInv'
  BY <1>1 DEF RowInv, WorkflowInv, PhaseInv, CheckpointInv, Current, Open, TypeOK
<1> QED
  BY <1>2, <1>3

\* The runner dies.
LEMMA CrashOK == ASSUME IInv, Crash PROVE IInv'
<1> USE MatrixAssumption DEF Trials, IInv
<1>1. /\ UNCHANGED <<journal, checkpoints, final, verified, rows, execution, scores, failures>>
      /\ pc' = "idle" /\ ack' = "none" /\ result' = "none"
      /\ workflow' = [trial |-> 0, state |-> "none", result |-> "none"]
      /\ abandoned' \in [Trials -> Nat] /\ crashes' \in Nat
  BY AbandonTyped DEF Crash, CanCrash, TypeOK, RouteTypeOK
<1>2. stray' \in BOOLEAN
  BY Zenon DEF Crash
<1>3. TypeOK'
  BY <1>1, <1>2 DEF TypeOK, RouteTypeOK, Acknowledgements, Results
<1>4. RowInv' /\ WorkflowInv' /\ PhaseInv' /\ CheckpointInv'
  BY <1>1 DEF RowInv, WorkflowInv, PhaseInv, CheckpointInv, Current, Open, TypeOK
<1> QED
  BY <1>3, <1>4

-----------------------------------------------------------------------------
(* The coordinator's steps.  What the runner knows of them: stored         *)
(* evidence stays, and a workflow ends well only with its evidence stored. *)
Effect ==
    /\ RouteTypeOK' /\ RowInv'
    /\ \A t \in Trials : rows[t] = "COMPLETE" => rows'[t] = "COMPLETE"
    /\ workflow'.trial = workflow.trial
    /\ workflow.state = "none" => workflow'.state = "none"
    /\ workflow'.state = "done" /\ workflow.state # "done" =>
          workflow.trial \in Trials /\ rows'[workflow.trial] = "COMPLETE"

\* A request reaches the coordinator (begin).
LEMMA ArriveEffect ==
  ASSUME RouteTypeOK, RowInv, NEW t \in Trials, Arrive(t) PROVE Effect
<1> USE MatrixAssumption DEF Trials
<1>1. /\ UNCHANGED <<scores, failures, crashes>>
      /\ rows' = IF rows[t] = "none" THEN [rows EXCEPT ![t] = "RUNNING"] ELSE rows
      /\ execution' = IF rows[t] = "none" THEN [execution EXCEPT ![t] = "running"]
                      ELSE execution
  BY DEF Arrive, Begin
<1>2. RowInv'
  BY <1>1 DEF RouteTypeOK, RowInv
<1>3. CASE workflow' = workflow /\ abandoned[t] > 0
           /\ abandoned' = [abandoned EXCEPT ![t] = @ - 1]
  BY <1>1, <1>2, <1>3 DEF Effect, RouteTypeOK
<1>4. CASE /\ workflow.trial = t /\ workflow.state = "queued" /\ abandoned' = abandoned
           /\ workflow' = Begun(Begin(rows[t]))
  <2>1. workflow' \in [trial : 0 .. N,
                       state : {"none", "queued", "executing", "done", "error"},
                       result : {"none", "fresh", "replay"}]
    BY <1>4 DEF Begun, RouteTypeOK
  <2>2. /\ workflow'.trial = t
        /\ workflow'.state = "done" => rows[t] = "COMPLETE"
    BY <1>4 DEF Begun, Begin, RouteTypeOK
  <2> QED
    BY <1>1, <1>2, <1>4, <2>1, <2>2 DEF Effect, RouteTypeOK
<1> QED
  BY <1>3, <1>4 DEF Arrive

\* N1 scores the answer.
LEMMA ScoreEffect ==
  ASSUME RouteTypeOK, RowInv, NEW t \in Trials, Score(t) PROVE Effect
BY MatrixAssumption DEF Score, Effect, RouteTypeOK, RowInv, Trials

\* What Settle does to the workflow that is waited for.
LEMMA SettleTyped ==
  ASSUME RouteTypeOK, NEW t \in Trials, NEW state \in {"done", "error"},
         NEW r \in {"none", "fresh"}, Settle(t, state, r)
  PROVE  /\ workflow' \in [trial : 0 .. N,
                            state : {"none", "queued", "executing", "done", "error"},
                            result : {"none", "fresh", "replay"}]
         /\ workflow'.trial = workflow.trial
         /\ workflow.state = "none" => workflow'.state = "none"
         /\ workflow'.state = "done" /\ workflow.state # "done" =>
               workflow.trial = t /\ state = "done"
BY DEF Settle, RouteTypeOK

\* The evidence is stored (complete).
LEMMA CompleteEffect ==
  ASSUME RouteTypeOK, RowInv, NEW t \in Trials, Complete(t) PROVE Effect
<1>1. Settle(t, "done", "fresh")
  BY DEF Complete
<1>2. RowInv'
  BY DEF Complete, RouteTypeOK, RowInv
<1> QED
  BY <1>1, <1>2, SettleTyped DEF Complete, Effect, RouteTypeOK

\* A stage fails (fail).
LEMMA StageFailsEffect ==
  ASSUME RouteTypeOK, RowInv, NEW t \in Trials, StageFails(t) PROVE Effect
<1>1. Settle(t, "error", "none")
  BY DEF StageFails
<1>2. RowInv'
  BY DEF StageFails, RouteTypeOK, RowInv
<1> QED
  BY <1>1, <1>2, SettleTyped DEF StageFails, CanFail, Effect, RouteTypeOK

\* The coordinator dies.
LEMMA CoordinatorCrashEffect ==
  ASSUME RouteTypeOK, RowInv, CoordinatorCrash PROVE Effect
<1>1. /\ UNCHANGED <<rows, scores, abandoned, failures>>
      /\ execution' = [t \in Trials |-> "none"]
      /\ crashes' \in Nat
  BY DEF CoordinatorCrash, CanCrash, RouteTypeOK
<1>2. RowInv'
  BY <1>1 DEF RouteTypeOK, RowInv
<1>3. /\ workflow' \in [trial : 0 .. N,
                         state : {"none", "queued", "executing", "done", "error"},
                         result : {"none", "fresh", "replay"}]
      /\ workflow'.trial = workflow.trial
      /\ workflow.state = "none" => workflow'.state = "none"
      /\ workflow'.state = "done" => workflow.state = "done"
  BY DEF CoordinatorCrash, RouteTypeOK
<1> QED
  BY <1>1, <1>2, <1>3 DEF Effect, RouteTypeOK

\* A step of the coordinator leaves the runner alone.
LEMMA CoordinatorOK == ASSUME IInv, Coordinator PROVE IInv'
<1> USE DEF IInv
<1>1. Effect
  <2> USE DEF TypeOK
  <2>1. CASE \E t \in Trials : Arrive(t) \/ Execute(t) \/ StageFails(t)
    BY <2>1, ArriveEffect, ScoreEffect, CompleteEffect, StageFailsEffect DEF Execute
  <2>2. CASE CoordinatorCrash
    BY <2>2, CoordinatorCrashEffect
  <2> QED
    BY <2>1, <2>2 DEF Coordinator
<1>2. UNCHANGED <<journal, checkpoints, stray, final, verified, pc, ack, result>>
  BY DEF Coordinator, runVars, diskVars
<1>3. TypeOK'
  BY <1>1, <1>2 DEF TypeOK, Effect
<1>4. PhaseInv' /\ CheckpointInv'
  BY <1>2 DEF PhaseInv, CheckpointInv, Current
<1>5. WorkflowInv'
  <2>1. Current' = Current /\ (pc \in {"wait", "result"} => Current \in Trials)
    BY <1>2 DEF Current, PhaseInv, Open
  <2> QED
    BY <1>1, <1>2, <2>1 DEF WorkflowInv, Effect
<1> QED
  BY <1>1, <1>3, <1>4, <1>5 DEF Effect

-----------------------------------------------------------------------------
\* The operator starts the runner.
LEMMA StartOK == ASSUME IInv, NEW a \in Acknowledgements, Start(a) PROVE IInv'
<1> USE MatrixAssumption DEF Trials, IInv
<1>1. /\ UNCHANGED <<checkpoints, stray, final, result, rows, execution, scores,
                     workflow, abandoned, failures, crashes>>
      /\ pc = "idle" /\ ack' \in Acknowledgements
  BY DEF Start, Verify, diskVars, routeVars, Acknowledgements, TypeOK
<1>2. verified' \in BOOLEAN
  <2>1. verified' = verified \/ Verify
    BY DEF Start
  <2>2. CASE verified' = verified
    BY <2>2, Zenon DEF TypeOK
  <2> QED
    BY <2>1, <2>2, VerifyOK
<1>3. SUFFICES /\ journal' \in JournalType /\ PhaseInv' /\ CheckpointInv'
               /\ pc' \in {"idle", "loop", "checkpoint"}
               /\ \A u \in Trials : journal'.results[u] = journal.results[u]
  <2>1. ASSUME journal' \in JournalType, pc' \in {"idle", "loop", "checkpoint"}
        PROVE  TypeOK'
    BY <1>1, <1>2, <2>1 DEF TypeOK, RouteTypeOK
  <2>2. ASSUME pc' \in {"idle", "loop", "checkpoint"},
               \A u \in Trials : journal'.results[u] = journal.results[u]
        PROVE  RowInv' /\ WorkflowInv'
    BY <1>1, <2>2 DEF RowInv, WorkflowInv, TypeOK, RouteTypeOK
  <2> QED
    BY <2>1, <2>2
<1>4. CASE /\ UNCHANGED journal
           /\ \/ pc' = "idle"
              \/ pc' = "checkpoint" /\ journal.state = "TRIAL_RESULT"
              \/ pc' = "loop" /\ journal.state \in
                    {"none", "TRIAL_COMPLETED", "FAILURE_ACKNOWLEDGED"}
  BY <1>1, <1>4 DEF PhaseInv, CheckpointInv, Current, Open, TypeOK
<1>5. CASE /\ journal.state = "TRIAL_INTENT" /\ pc' = "idle"
           /\ Append("RUN_FAILED", Current, "none")
  <2>1. Legal("RUN_FAILED", Current) /\ Current \in Trials
    BY <1>5, LegalEntry DEF PhaseInv, Open
  <2>2. /\ journal' \in JournalType
        /\ journal'.state = "RUN_FAILED" /\ journal'.active = Current
        /\ journal'.completed = journal.completed
        /\ \A u \in Trials : journal'.results[u] = journal.results[u]
    BY <1>5, <2>1, AppendTyped DEF Entries, Results
  <2> QED
    BY <1>1, <1>5, <2>1, <2>2 DEF PhaseInv, CheckpointInv, Current, Open
<1>6. CASE /\ journal.state = "RUN_FAILED" /\ pc' = "loop"
           /\ Append("FAILURE_ACKNOWLEDGED", journal.active, "none")
  <2>1. Legal("FAILURE_ACKNOWLEDGED", journal.active)
        /\ journal.active = Current /\ Current \in Trials
    BY <1>6, LegalEntry DEF PhaseInv, Open
  <2>2. /\ journal' \in JournalType
        /\ journal'.state = "FAILURE_ACKNOWLEDGED" /\ journal'.active = Current
        /\ journal'.completed = journal.completed
        /\ \A u \in Trials : journal'.results[u] = journal.results[u]
    BY <1>6, <2>1, AppendTyped DEF Entries, Results
  <2> QED
    BY <1>1, <1>6, <2>1, <2>2 DEF PhaseInv, CheckpointInv, Current, Open
<1> QED
  BY <1>4, <1>5, <1>6 DEF Start, Verify, diskVars, Resume, ResumeResult, ResumeIntent,
     ResumeFailed, ResumeLoop

\* The invariant is inductive: one lemma for each action.
LEMMA NextOK == IInv /\ [Next]_vars => IInv'
<1> SUFFICES ASSUME IInv, [Next]_vars PROVE IInv'
  OBVIOUS
<1>1. CASE \E a \in Acknowledgements : Start(a)
  BY <1>1, StartOK
<1>2. CASE RunnerStep
  BY <1>2, NextTrialOK, SubmitOK, WaitOK, AppendFailedOK, AppendResultOK, CreateCheckpointOK,
     InstallCheckpointOK, AppendCompletedOK, FreezeOK DEF RunnerStep
<1>3. CASE SubmitFails \/ WaitFails \/ Crash
  BY <1>3, SubmitFailsOK, WaitFailsOK, CrashOK
<1>4. CASE Coordinator
  BY <1>4, CoordinatorOK
<1>5. CASE UNCHANGED vars
  <2>1. UNCHANGED <<journal, checkpoints, stray, final, verified, pc, ack, result, rows,
                    execution, scores, workflow, abandoned, failures, crashes>>
    BY <1>5 DEF vars, runVars, diskVars, routeVars
  <2> QED
    BY <2>1 DEF IInv, TypeOK, RouteTypeOK, RowInv, WorkflowInv, PhaseInv, CheckpointInv, Current
<1> QED
  BY <1>1, <1>2, <1>3, <1>4, <1>5 DEF Next

\* Every reachable state satisfies the inductive invariant.
THEOREM Invariance == Spec => []IInv
BY InitOK, NextOK, PTL DEF Spec

\* The runner, the executor and the coordinator are well typed.
THEOREM TypeCorrect == Spec => []TypeOK
<1>1. IInv => TypeOK
  BY DEF IInv
<1> QED
  BY <1>1, Invariance, PTL

\* N1 is asked to score a trial at most once, and a journalled result has its
\* score spent and its evidence stored (SQLiteRouteExecutionStore.begin).
THEOREM OneScore == Spec => []ScoredOnce
<1>1. IInv => ScoredOnce
  BY DEF IInv, RowInv, WorkflowInv, ScoredOnce
<1> QED
  BY <1>1, Invariance, PTL

\* The runner never writes a journal its audit refuses (_audit_journal).
THEOREM LegalJournal == Spec => []JournalLegal
<1>1. IInv => JournalLegal
  BY DEF IInv, PhaseInv, JournalLegal
<1> QED
  BY <1>1, Invariance, PTL

\* The runner never calls the executor for a trial that has its checkpoint
\* (SemanticTrialExecutor).
THEOREM NoSecondCall == Spec => []NeverReexecuted
<1>1. IInv => NeverReexecuted
  BY DEF IInv, PhaseInv, CheckpointInv, NeverReexecuted
<1> QED
  BY <1>1, Invariance, PTL
=============================================================================
