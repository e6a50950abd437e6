---------------------------- MODULE FlowMeshNode ----------------------------
(***************************************************************************)
(* What the container matrix runner sees of FlowMesh and of the container  *)
(* nodes.  FlowMesh runs the tasks of a workflow one after the other; each *)
(* task is one HTTP request to a node, whose idempotency ledger            *)
(* (ContainerNodeRuntime.execute, simulator/container_node.py) lives as    *)
(* long as the node's process and is identified by its runtime epoch.      *)
(*                                                                         *)
(* The operations of one phase are reduced to two: the zero-byte schedule  *)
(* marker, the dependency-free root of every phase but B, and the work,    *)
(* which stands for the operations downstream of it, the ones that move    *)
(* data and are measured.                                                  *)
(***************************************************************************)
EXTENDS Naturals, Sequences, FiniteSets

CONSTANTS
    N,              \* trials of the matrix, in frozen order
    Conditional,    \* trials of a conditional design: phases A and B
    MaxRestarts,    \* bound: restarts of the container nodes
    MaxFailures     \* bound: failed tasks, calls and checks

ASSUME ContainerAssumption ==
    /\ N \in Nat \ {0} /\ Conditional \subseteq 1 .. N
    /\ MaxRestarts \in Nat /\ MaxFailures \in Nat

Trials == 1 .. N
Labels == {"unconditional", "A", "B"}
PhaseKeys == Trials \X Labels

VARIABLES
    workflows,      \* every workflow FlowMesh accepted, oldest first
    ledger,         \* operations the nodes executed in this epoch
    sent,           \* how often the work of a phase was sent to its nodes
    epoch,          \* the nodes' runtime epoch
    failures

meshVars == <<workflows, ledger, sent, epoch, failures>>

MeshInit ==
    /\ workflows = <<>>
    /\ ledger = {}
    /\ sent = [k \in PhaseKeys |-> 0]
    /\ epoch = 0
    /\ failures = 0

CanFail == failures < MaxFailures /\ failures' = failures + 1

\* Outcome of one operation of a workflow: fresh or replayed in an epoch.
Pending == [kind |-> "pending", epoch |-> 0]
Absent == [kind |-> "none", epoch |-> 0]    \* phase B has no schedule marker
Outcome(kind) == [kind |-> kind, epoch |-> epoch]

Workflow(key) ==
    [key |-> key, status |-> "RUNNING", work |-> Pending,
     schedule |-> IF key[2] = "B" THEN Absent ELSE Pending]

\* client.submit: FlowMesh accepts a workflow.
Accept(key) == workflows' = Append(workflows, Workflow(key))

\* ContainerNodeRuntime.execute: a key the ledger knows is replayed.
Answer(key, operation) ==
    Outcome(IF <<key, operation>> \in ledger THEN "replay" ELSE "fresh")

\* The schedule marker is executed and its result reaches FlowMesh.
RunSchedule(w) ==
    LET flow == workflows[w] IN
    /\ flow.status = "RUNNING" /\ flow.schedule = Pending
    /\ workflows' = [workflows EXCEPT ![w] = [flow EXCEPT !.schedule = Answer(flow.key, "schedule")]]
    /\ ledger' = ledger \cup {<<flow.key, "schedule">>}
    /\ UNCHANGED <<sent, epoch, failures>>

\* The delivery of the schedule marker fails: with the identity provider's
\* 503, whether or not the node saw the request; with a timeout of the result
\* upload, after the node executed it; or in a way no recovery covers.
ScheduleFails(w, class, executed) ==
    LET flow == workflows[w] IN
    /\ flow.status = "RUNNING" /\ flow.schedule = Pending
    /\ class = "upload-timeout" => executed
    /\ CanFail
    /\ workflows' = [workflows EXCEPT ![w] = [flow EXCEPT !.schedule = Outcome(class), !.status = "FAILED"]]
    /\ ledger' = IF executed THEN ledger \cup {<<flow.key, "schedule">>} ELSE ledger
    /\ UNCHANGED <<sent, epoch>>

\* The work is sent to its nodes and its results reach FlowMesh.
RunWork(w) ==
    LET flow == workflows[w] IN
    /\ flow.status = "RUNNING" /\ flow.schedule # Pending
    /\ workflows' = [workflows EXCEPT ![w] = [flow EXCEPT !.work = Answer(flow.key, "work"), !.status = "DONE"]]
    /\ ledger' = ledger \cup {<<flow.key, "work">>}
    /\ sent' = [sent EXCEPT ![flow.key] = @ + 1]
    /\ UNCHANGED <<epoch, failures>>

\* The work is sent and one of its tasks fails.
WorkFails(w) ==
    LET flow == workflows[w] IN
    /\ flow.status = "RUNNING" /\ flow.schedule # Pending
    /\ CanFail
    /\ workflows' = [workflows EXCEPT ![w] = [flow EXCEPT !.work = Outcome("failed"), !.status = "FAILED"]]
    /\ ledger' = ledger \cup {<<flow.key, "work">>}
    /\ sent' = [sent EXCEPT ![flow.key] = @ + 1]
    /\ UNCHANGED epoch

\* The nodes restart: a new runtime epoch with empty ledgers and caches.
NodeRestart ==
    /\ epoch < MaxRestarts
    /\ epoch' = epoch + 1
    /\ ledger' = {}
    /\ UNCHANGED <<workflows, sent, failures>>

DeliveryFailures == {"identity-503", "upload-timeout", "other"}

Mesh ==
    \/ \E w \in DOMAIN workflows :
          \/ RunSchedule(w) \/ RunWork(w) \/ WorkFails(w)
          \/ \E class \in DeliveryFailures, executed \in BOOLEAN :
                ScheduleFails(w, class, executed)
    \/ NodeRestart

\* FlowMesh runs the tasks of what it accepted.
MeshProgress == \E w \in DOMAIN workflows : RunSchedule(w) \/ RunWork(w)

Outcomes == [kind : DeliveryFailures \cup {"none", "pending", "fresh", "replay", "failed"},
             epoch : 0 .. MaxRestarts]

MeshTypeOK ==
    /\ workflows \in Seq([key : PhaseKeys, status : {"RUNNING", "DONE", "FAILED"},
                          schedule : Outcomes, work : Outcomes])
    /\ ledger \subseteq PhaseKeys \X {"schedule", "work"}
    /\ sent \in [PhaseKeys -> Nat]
    /\ epoch \in 0 .. MaxRestarts
    /\ failures \in Nat
=============================================================================
