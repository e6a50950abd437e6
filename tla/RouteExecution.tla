--------------------------- MODULE RouteExecution ---------------------------
(***************************************************************************)
(* The executor side of one trial: FlowMeshSemanticTrialExecutor of        *)
(* integrations/flowmesh/semantic_matrix_trial.py submits a workflow and   *)
(* waits for it; the workflow calls the route coordinator of the node,     *)
(* GenericSemanticRouteCoordinator.execute, which keeps one row for each   *)
(* trial in SQLiteRouteExecutionStore and has N1 score the answer.         *)
(*                                                                         *)
(* The executor may give up on a workflow that FlowMesh still runs: such   *)
(* requests stay queued or go on executing, and meet the retries.          *)
(***************************************************************************)
EXTENDS Naturals

CONSTANTS
    N,              \* trials of the matrix, in canonical order
    MaxFailures,    \* bound on the failures of calls and stages explored
    MaxCrashes      \* bound on the process deaths explored

ASSUME MatrixAssumption ==
    N \in Nat \ {0} /\ MaxFailures \in Nat /\ MaxCrashes \in Nat

Trials == 1 .. N

VARIABLES
    rows,           \* route_executions: the state of each trial's row
    execution,      \* the trial's running _execute_once, if any
    scores,         \* how many times N1 was asked to score the trial
    workflow,       \* the workflow the executor waits for
    abandoned,      \* queued workflows of the trial nobody waits for
    failures, crashes

routeVars == <<rows, execution, scores, workflow, abandoned>>

NoWorkflow == [trial |-> 0, state |-> "none", result |-> "none"]

RouteInit ==
    /\ rows = [t \in Trials |-> "none"]
    /\ execution = [t \in Trials |-> "none"]
    /\ scores = [t \in Trials |-> 0]
    /\ workflow = NoWorkflow
    /\ abandoned = [t \in Trials |-> 0]
    /\ failures = 0 /\ crashes = 0

CanFail == failures < MaxFailures /\ failures' = failures + 1 /\ UNCHANGED crashes
CanCrash == crashes < MaxCrashes /\ crashes' = crashes + 1 /\ UNCHANGED failures

-----------------------------------------------------------------------------
\* What SQLiteRouteExecutionStore.begin answers for a row.
Begin(row) ==
    IF row = "none" THEN "execute" ELSE IF row = "COMPLETE" THEN "replay" ELSE "refuse"

\* The workflow after the coordinator's first look at its row.
Begun(answer) ==
    IF answer = "execute" THEN [workflow EXCEPT !.state = "executing"]
    ELSE IF answer = "replay" THEN [workflow EXCEPT !.state = "done", !.result = "replay"]
    ELSE [workflow EXCEPT !.state = "error"]

\* Mutant: a failed row is executed again.
ArriveAgain(t) ==
    /\ workflow.trial = t /\ workflow.state = "queued"
    /\ workflow' = Begun(IF rows[t] = "FAILED" THEN "execute" ELSE Begin(rows[t]))
    /\ rows' = [rows EXCEPT ![t] = IF @ \in {"none", "FAILED"} THEN "RUNNING" ELSE @]
    /\ execution' = [execution EXCEPT ![t] = IF rows[t] \in {"none", "FAILED"}
                                             THEN "running" ELSE @]
    /\ UNCHANGED <<scores, abandoned, failures, crashes>>

\* A request reaches the coordinator: the workflow's own, or that of a
\* workflow nobody waits for any more.
Arrive(t) ==
    /\ \/ /\ workflow.trial = t /\ workflow.state = "queued"
          /\ workflow' = Begun(Begin(rows[t]))
          /\ UNCHANGED abandoned
       \/ /\ abandoned[t] > 0
          /\ abandoned' = [abandoned EXCEPT ![t] = @ - 1]
          /\ UNCHANGED workflow
    /\ IF Begin(rows[t]) = "execute"
       THEN /\ rows' = [rows EXCEPT ![t] = "RUNNING"]
            /\ execution' = [execution EXCEPT ![t] = "running"]
       ELSE UNCHANGED <<rows, execution>>
    /\ UNCHANGED <<scores, failures, crashes>>

\* The stages up to score-hidden-answer: N1 scores the model's answer.
Score(t) ==
    /\ execution[t] = "running"
    /\ execution' = [execution EXCEPT ![t] = "scored"]
    /\ scores' = [scores EXCEPT ![t] = @ + 1]
    /\ UNCHANGED <<rows, workflow, abandoned, failures, crashes>>

\* The coordinator answers the workflow that started the execution, if the
\* executor still waits for it.
Settle(t, state, result) ==
    workflow' = IF workflow.trial = t /\ workflow.state = "executing"
                THEN [workflow EXCEPT !.state = state, !.result = result]
                ELSE workflow

\* store.complete: the evidence is stored, then answered.
Complete(t) ==
    /\ execution[t] = "scored" /\ rows[t] = "RUNNING"
    /\ rows' = [rows EXCEPT ![t] = "COMPLETE"]
    /\ execution' = [execution EXCEPT ![t] = "none"]
    /\ Settle(t, "done", "fresh")
    /\ UNCHANGED <<scores, abandoned, failures, crashes>>

\* A stage fails, before or after the score: store.fail marks the row.
StageFails(t) ==
    /\ execution[t] # "none"
    /\ CanFail
    /\ rows' = [rows EXCEPT ![t] = IF @ = "RUNNING" THEN "FAILED" ELSE @]
    /\ execution' = [execution EXCEPT ![t] = "none"]
    /\ Settle(t, "error", "none")
    /\ UNCHANGED <<scores, abandoned>>

\* The coordinator's process dies: every execution ends, the rows stay.
CoordinatorCrash ==
    /\ \E t \in Trials : execution[t] # "none"
    /\ CanCrash
    /\ execution' = [t \in Trials |-> "none"]
    /\ workflow' = IF workflow.state = "executing"
                   THEN [workflow EXCEPT !.state = "error"] ELSE workflow
    /\ UNCHANGED <<rows, scores, abandoned>>

\* The thread of a running execution.
Execute(t) == Score(t) \/ Complete(t)

-----------------------------------------------------------------------------
\* client.submit: one workflow for the trial.
Submitted(t) == [trial |-> t, state |-> "queued", result |-> "none"]

\* The executor, or its process, stops waiting.  A workflow that has not
\* reached the coordinator will; one that has goes on executing.
Abandon ==
    /\ workflow' = NoWorkflow
    /\ abandoned' = [t \in Trials |->
            IF workflow.trial = t /\ workflow.state = "queued"
            THEN abandoned[t] + 1 ELSE abandoned[t]]

RouteTypeOK ==
    /\ rows \in [Trials -> {"none", "RUNNING", "COMPLETE", "FAILED"}]
    /\ execution \in [Trials -> {"none", "running", "scored"}]
    /\ scores \in [Trials -> Nat]
    /\ workflow \in [trial : 0 .. N,
                     state : {"none", "queued", "executing", "done", "error"},
                     result : {"none", "fresh", "replay"}]
    /\ abandoned \in [Trials -> Nat]
    /\ failures \in Nat /\ crashes \in Nat
=============================================================================
