----------------------------- MODULE W4Candidate -----------------------------
(***************************************************************************)
(* The W4 candidate matrix: run_flowmesh_w4_candidate_matrix submits one   *)
(* FlowMesh workflow whose tasks form a chain over both W4 coordinators;   *)
(* FullFlowW4FlowMeshCoordinator (N7 and N8) executes its trials in the    *)
(* frozen order, against an external artifact cache whose contents it      *)
(* follows in memory and rebuilds from its stored responses on start.      *)
(*                                                                         *)
(* Runners and coordinators may die, tasks may time out while their        *)
(* request is still being executed, operations and commits may fail, and   *)
(* another client may touch the cache.  Two runs may compete.              *)
(***************************************************************************)
EXTENDS Naturals, FiniteSets

CONSTANTS
    Nodes,          \* coordinators
    LastTrial,      \* trials are 1 .. LastTrial, in frozen order
    NodeOf,         \* executor_node_id by trial
    Repetition,     \* 0 or 1 by trial
    Rankings,       \* the candidate prefixes a ranking may select, by trial
    Runs,           \* run ids of runners on these coordinators
    Slots,          \* FlowMesh workflows that exist at a time
    None,
    MaxFaults       \* bound on the faults explored, of all kinds together

Trials == 1 .. LastTrial
Keys == UNION UNION {Rankings[t] : t \in Trials}

\* A request at a coordinator; its caller is gone once its task has timed out.
RequestType == [trial : Trials, run : Runs, caller : Slots \cup {None}]

\* The request that holds the lock: candidates still to examine (None before
\* they are ranked), and those found in the cache and inserted into it.
JobType == [trial : Trials, caller : Slots \cup {None}, todo : (SUBSET Keys) \cup {None},
            inserts : SUBSET Keys, hits : SUBSET Keys]

ASSUME W4Assumption ==
    /\ LastTrial \in Nat \ {0}
    /\ NodeOf \in [Trials -> Nodes]
    /\ Repetition \in [Trials -> {0, 1}]
    /\ None \notin Nodes \cup Runs \cup Slots
    /\ None \notin JobType /\ \A keys \in SUBSET Keys : keys # None
    /\ MaxFaults \in Nat

VARIABLES
    up,             \* coordinators that are serving
    fresh,          \* coordinators whose database has no metadata yet
    rows,           \* executions: status, run and evidence by trial
    store,          \* entries of each node's external cache
    known,          \* _cache of the running coordinator
    waiting,        \* requests at a coordinator, waiting for its lock
    job,            \* the request that holds the lock, and what it still does
    flow,           \* FlowMesh workflows: run, task and what the task waits for
    runner,         \* the workflow each runner waits for
    published,      \* runs whose output directory is installed
    starts,         \* how often the operations of a trial were started
    foreign,        \* nodes whose cache another client touched
    faults

durable == <<fresh, rows, store>>
service == <<up, known, waiting, job>>
clients == <<flow, runner, published>>
history == <<starts, foreign>>
vars == <<durable, service, clients, history, faults>>

NoRow == [status |-> "NONE", run |-> None, inserts |-> {}, hits |-> {}]
NoFlow == [state |-> "free", run |-> None, task |-> 1]

Init ==
    /\ up = {} /\ fresh = Nodes
    /\ rows = [t \in Trials |-> NoRow]
    /\ store = [n \in Nodes |-> {}]
    /\ known = [n \in Nodes |-> {}]
    /\ waiting = [n \in Nodes |-> {}]
    /\ job = [n \in Nodes |-> None]
    /\ flow = [s \in Slots |-> NoFlow]
    /\ runner = [r \in Runs |-> None]
    /\ published = {}
    /\ starts = [t \in Trials |-> 0]
    /\ foreign = {}
    /\ faults = 0

Fault == faults < MaxFaults /\ faults' = faults + 1

Own(n) == {t \in Trials : NodeOf[t] = n}
Ambiguous(n) == {t \in Own(n) : rows[t].status \in {"RUNNING", "FAILED"}}
Completed(n) == {t \in Own(n) : rows[t].status = "COMPLETE"}

\* The trial at the position of the number of completed ones.
IsNext(n, t) == {u \in Own(n) : u < t} = Completed(n)

\* _restore_cache_from_response, over all stored responses.
Restored(n) == UNION {rows[t].inserts : t \in Completed(n)}

\* The occupancy of the external cache is the one the coordinator expects.
Agrees(n, entries) == Cardinality(store[n]) = Cardinality(entries)

-----------------------------------------------------------------------------
(* The coordinator process.                                                *)

\* _initialize_state: a new database needs an empty cache, an old one has
\* completed executions only, a prefix of the order, and their cache entries.
Start(n) ==
    /\ n \notin up
    /\ n \in fresh => store[n] = {}
    /\ Ambiguous(n) = {}
    /\ \A t \in Completed(n) : \A u \in Own(n) : u < t => u \in Completed(n)
    /\ Agrees(n, Restored(n))
    /\ known' = [known EXCEPT ![n] = Restored(n)]
    /\ up' = up \cup {n}
    /\ fresh' = fresh \ {n}
    /\ UNCHANGED <<rows, store, waiting, job, clients, history, faults>>

\* The tasks of these workflows fail: their answer will not come.
Failing(callers) ==
    flow' = [s \in Slots |->
                IF s \in callers THEN [flow[s] EXCEPT !.state = "failed"] ELSE flow[s]]

\* Threads and memory are gone, and callers see their connection break.
Crash(n) ==
    /\ Fault
    /\ n \in up
    /\ up' = up \ {n}
    /\ known' = [known EXCEPT ![n] = {}]
    /\ waiting' = [waiting EXCEPT ![n] = {}]
    /\ job' = [job EXCEPT ![n] = None]
    /\ Failing({q.caller : q \in waiting[n]}
                 \cup (IF job[n] = None THEN {} ELSE {job[n].caller}))
    /\ UNCHANGED <<durable, runner, published, history>>

-----------------------------------------------------------------------------
(* execute, under the coordinator's lock.                                  *)

\* The answer to a request: the task ends, and the workflow goes on to the
\* next task or fails; an answer nobody waits for is dropped.
Answered(f, ok) ==
    CASE ~ok -> [f EXCEPT !.state = "failed"]
      [] ok /\ f.task = LastTrial -> [f EXCEPT !.state = "done"]
      [] ok /\ f.task # LastTrial -> [state |-> "ready", run |-> f.run, task |-> f.task + 1]

Answer(s, ok) ==
    flow' = IF s = None THEN flow ELSE [flow EXCEPT ![s] = Answered(flow[s], ok)]

Taken(n, q) ==
    /\ n \in up
    /\ job[n] = None
    /\ q \in waiting[n]
    /\ waiting' = [waiting EXCEPT ![n] = @ \ {q}]

\* Mutant: the idempotency key does not name the run.
StoredForTrial(q) == rows[q.trial].status # "NONE"

\* An execution is stored under the request's idempotency key.
Stored(q) == rows[q.trial].status # "NONE" /\ rows[q.trial].run = q.run

\* Mutant: a completed execution is refused like an ambiguous one.
ReplayRefused(n, q) ==
    /\ Taken(n, q)
    /\ Stored(q)
    /\ Answer(q.caller, FALSE)
    /\ UNCHANGED <<up, known, job, durable, runner, published, history, faults>>

\* The stored response, or a conflict over an ambiguous execution.
Replay(n, q) ==
    /\ Taken(n, q)
    /\ Stored(q)
    /\ Answer(q.caller, rows[q.trial].status = "COMPLETE")
    /\ UNCHANGED <<up, known, job, durable, runner, published, history, faults>>

\* A new request may run: it is next in order, the cache is the expected one,
\* and no other run has a row for its trial (UNIQUE trial_key).
Admissible(n, q) ==
    /\ IsNext(n, q.trial)
    /\ Agrees(n, known[n])
    /\ rows[q.trial].status = "NONE"

Refuse(n, q) ==
    /\ Taken(n, q)
    /\ ~Stored(q) /\ ~Admissible(n, q)
    /\ Answer(q.caller, FALSE)
    /\ UNCHANGED <<up, known, job, durable, runner, published, history, faults>>

\* The RUNNING row is committed before the first operation.
Begin(n, q) ==
    /\ Taken(n, q)
    /\ ~Stored(q) /\ Admissible(n, q)
    /\ rows' = [rows EXCEPT ![q.trial] = [status |-> "RUNNING", run |-> q.run,
                                             inserts |-> {}, hits |-> {}]]
    /\ job' = [job EXCEPT ![n] = [trial |-> q.trial, caller |-> q.caller,
                                  todo |-> None, inserts |-> {}, hits |-> {}]]
    /\ starts' = [starts EXCEPT ![q.trial] = @ + 1]
    /\ UNCHANGED <<fresh, store, up, known, clients, foreign, faults>>

\* The index or the model ranks the candidates; a prefix of them is examined.
Rank(n) ==
    /\ job[n] # None /\ job[n].todo = None
    /\ \E prefix \in Rankings[job[n].trial] : job' = [job EXCEPT ![n].todo = prefix]
    /\ UNCHANGED <<durable, up, known, waiting, clients, history, faults>>

\* The operations of the candidates come in a fixed order.
Examining(n, k) ==
    /\ job[n] # None /\ job[n].todo \notin {None, {}}
    /\ k = CHOOSE x \in job[n].todo : TRUE

\* The outcome is the one of the repetition, and the external cache agrees.
AsFrozen(n, k) ==
    /\ k \in known[n] <=> Repetition[job[n].trial] = 1
    /\ k \in known[n] <=> k \in store[n]

\* lookup and read of a candidate whose artifact is cached.
Hit(n, k) ==
    /\ Examining(n, k)
    /\ AsFrozen(n, k) /\ k \in known[n]
    /\ job' = [job EXCEPT ![n].todo = job[n].todo \ {k},
                         ![n].hits = job[n].hits \cup {k}]
    /\ UNCHANGED <<durable, up, known, waiting, clients, history, faults>>

\* lookup, remote access, transfer and insert of a candidate that is not.
Insert(n, k) ==
    /\ Examining(n, k)
    /\ AsFrozen(n, k) /\ k \notin known[n]
    /\ store' = [store EXCEPT ![n] = @ \cup {k}]
    /\ known' = [known EXCEPT ![n] = @ \cup {k}]
    /\ job' = [job EXCEPT ![n].todo = job[n].todo \ {k},
                         ![n].inserts = job[n].inserts \cup {k}]
    /\ UNCHANGED <<fresh, rows, up, waiting, clients, history, faults>>

\* Mutant: a failed execution is deleted so that it can be tried again.
GiveUpAndForget(n, status) ==
    /\ rows' = [rows EXCEPT ![job[n].trial] = NoRow]
    /\ job' = [job EXCEPT ![n] = None]
    /\ Answer(job[n].caller, FALSE)

\* The exception handler: the row is FAILED, or stays RUNNING when that
\* update fails too.
GiveUp(n, status) ==
    /\ rows' = [rows EXCEPT ![job[n].trial].status = status]
    /\ job' = [job EXCEPT ![n] = None]
    /\ Answer(job[n].caller, FALSE)

\* _require: a lookup is not as frozen, or the cache does not agree at the end.
Reject(n) ==
    /\ job[n] # None /\ job[n].todo # None
    /\ \/ \E k \in job[n].todo : Examining(n, k) /\ ~AsFrozen(n, k)
       \/ job[n].todo = {} /\ ~Agrees(n, known[n])
    /\ GiveUp(n, "FAILED")
    /\ UNCHANGED <<fresh, store, up, known, waiting, runner, published, history, faults>>

\* An operation raises; a cache insertion may have happened nevertheless.
OperationFails(n) ==
    /\ Fault
    /\ job[n] # None
    /\ \E status \in {"FAILED", "RUNNING"} : GiveUp(n, status)
    /\ \/ UNCHANGED store
       \/ \E k \in IF job[n].todo = None THEN {} ELSE job[n].todo :
             /\ Examining(n, k)
             /\ AsFrozen(n, k) /\ k \notin known[n]
             /\ store' = [store EXCEPT ![n] = @ \cup {k}]
    /\ UNCHANGED <<fresh, up, known, waiting, runner, published, history>>

\* The response is committed, then answered.
Complete(n) ==
    /\ job[n] # None /\ job[n].todo = {}
    /\ Agrees(n, known[n])
    /\ rows' = [rows EXCEPT ![job[n].trial] =
                   [status |-> "COMPLETE", run |-> rows[job[n].trial].run,
                    inserts |-> job[n].inserts, hits |-> job[n].hits]]
    /\ job' = [job EXCEPT ![n] = None]
    /\ Answer(job[n].caller, TRUE)
    /\ UNCHANGED <<fresh, store, up, known, waiting, runner, published, history, faults>>

\* Another client of the cache node, which may use the same artifacts, adds,
\* removes or replaces an entry, or the node evicts one for lack of room.
Touch(n) ==
    /\ Fault
    /\ \E out \in SUBSET store[n], in \in SUBSET (Keys \ store[n]) :
          /\ Cardinality(out) <= 1 /\ Cardinality(in) <= 1 /\ out \cup in # {}
          /\ store' = [store EXCEPT ![n] = (@ \ out) \cup in]
    /\ foreign' = foreign \cup {n}
    /\ UNCHANGED <<fresh, rows, service, clients, starts>>

-----------------------------------------------------------------------------
(* The runner and FlowMesh.                                                *)

\* An operator starts the runner, which submits the workflow.
Submit(r, s) ==
    /\ r \notin published
    /\ runner[r] = None
    /\ flow[s] = NoFlow
    /\ s = CHOOSE x \in Slots : flow[x] = NoFlow
    /\ flow' = [flow EXCEPT ![s] = [state |-> "ready", run |-> r, task |-> 1]]
    /\ runner' = [runner EXCEPT ![r] = s]
    /\ UNCHANGED <<durable, service, published, history, faults>>

\* The next task of the chain sends its request; a coordinator that is not
\* there fails the task.
Dispatch(s) ==
    LET n == NodeOf[flow[s].task] IN
    /\ flow[s].state = "ready"
    /\ \/ /\ n \in up
          /\ flow' = [flow EXCEPT ![s].state = "sent"]
          /\ waiting' = [waiting EXCEPT ![n] = @ \cup
                {[trial |-> flow[s].task, run |-> flow[s].run, caller |-> s]}]
       \/ /\ n \notin up
          /\ flow' = [flow EXCEPT ![s].state = "failed"]
          /\ UNCHANGED waiting
    /\ UNCHANGED <<durable, up, known, job, runner, published, history, faults>>

\* Nobody waits for the answer any more.
Dropped(x, s) == [x EXCEPT !.caller = IF x.caller = s THEN None ELSE x.caller]

\* The task's time is over or its answer is lost; the request goes on at the
\* coordinator and nobody waits for its answer.
Timeout(s) ==
    LET n == NodeOf[flow[s].task] IN
    /\ Fault
    /\ flow[s].state = "sent"
    /\ flow' = [flow EXCEPT ![s].state = "failed"]
    /\ waiting' = [waiting EXCEPT ![n] = {Dropped(q, s) : q \in waiting[n]}]
    /\ job' = [job EXCEPT ![n] = IF job[n] = None THEN None ELSE Dropped(job[n], s)]
    /\ UNCHANGED <<durable, up, known, runner, published, history>>

\* wait has returned: the responses are published, or the run fails.
Finish(r) ==
    /\ runner[r] # None
    /\ flow[runner[r]].state \in {"done", "failed"}
    /\ published' = IF flow[runner[r]].state = "done" THEN published \cup {r} ELSE published
    /\ flow' = [flow EXCEPT ![runner[r]] = NoFlow]
    /\ runner' = [runner EXCEPT ![r] = None]
    /\ UNCHANGED <<durable, service, history, faults>>

\* The runner dies; its workflow goes on.
RunnerDies(r) ==
    /\ Fault
    /\ runner[r] # None
    /\ runner' = [runner EXCEPT ![r] = None]
    /\ UNCHANGED <<durable, service, flow, published, history>>

\* FlowMesh is done with a workflow that no runner waits for.
Forget(s) ==
    /\ flow[s].state \in {"done", "failed"}
    /\ \A r \in Runs : runner[r] # s
    /\ flow' = [flow EXCEPT ![s] = NoFlow]
    /\ UNCHANGED <<durable, service, runner, published, history, faults>>

-----------------------------------------------------------------------------
Serve(n, q) == Replay(n, q) \/ Refuse(n, q) \/ Begin(n, q)

Execute(n) ==
    \/ Rank(n)
    \/ \E k \in Keys : Hit(n, k) \/ Insert(n, k)
    \/ Reject(n)
    \/ Complete(n)

Mesh(s) == Dispatch(s) \/ Forget(s)

Run(r) == Finish(r) \/ \E s \in Slots : Submit(r, s)

Next ==
    \/ \E n \in Nodes : Start(n) \/ Execute(n)
    \/ \E n \in Nodes : \E q \in waiting[n] : Serve(n, q)
    \/ \E n \in Nodes : Crash(n) \/ OperationFails(n) \/ Touch(n)
    \/ \E s \in Slots : Mesh(s) \/ Timeout(s)
    \/ \E r \in Runs : Run(r) \/ RunnerDies(r)

Spec == Init /\ [][Next]_vars

\* The coordinator serves the request of this workflow, or one nobody waits for.
ServeCaller(s) == \E n \in Nodes : \E q \in waiting[n] : q.caller = s /\ Serve(n, q)

\* Threads of a coordinator and FlowMesh keep working, and a thread that waits
\* for the lock gets it when it is released again and again; operators start a
\* coordinator that is down and repeat a run that failed.
FairSpec ==
    /\ Spec
    /\ \A n \in Nodes : WF_vars(Start(n)) /\ WF_vars(Execute(n))
    /\ \A s \in Slots : WF_vars(Mesh(s)) /\ SF_vars(ServeCaller(s))
    /\ \A r \in Runs : WF_vars(Run(r))

-----------------------------------------------------------------------------
TypeOK ==
    /\ up \subseteq Nodes /\ fresh \subseteq Nodes /\ foreign \subseteq Nodes
    /\ rows \in [Trials -> [status : {"NONE", "RUNNING", "FAILED", "COMPLETE"},
                            run : Runs \cup {None},
                            inserts : SUBSET Keys, hits : SUBSET Keys]]
    /\ store \in [Nodes -> SUBSET Keys]
    /\ known \in [Nodes -> SUBSET Keys]
    /\ waiting \in [Nodes -> SUBSET RequestType]
    /\ job \in [Nodes -> JobType \cup {None}]
    /\ \A n \in Nodes :
          /\ \A q \in waiting[n] : q.trial \in Own(n)
          /\ job[n] # None => /\ n \in up /\ job[n].trial \in Own(n)
                              /\ rows[job[n].trial].status = "RUNNING"
    /\ flow \in [Slots -> [state : {"free", "ready", "sent", "done", "failed"},
                           run : Runs \cup {None}, task : Trials]]
    /\ runner \in [Runs -> Slots \cup {None}]
    /\ published \subseteq Runs
    /\ starts \in [Trials -> Nat]
    /\ faults \in 0 .. MaxFaults

\* The operations of a trial (model calls, transfers, insertions) are started
\* once, whatever is sent again, times out, dies or is started by another run
\* (execute: the RUNNING row is committed first and never removed).
ExecutedOnce == \A t \in Trials : starts[t] <= 1

\* Both coordinators work for one run: the chain of tasks and the frozen order
\* together keep a competing run from getting either of them, although the
\* coordinators know nothing of each other (idempotency_key, dependsOn).
OneRun ==
    \A t, u \in Trials :
        rows[t].status # "NONE" /\ rows[u].status # "NONE" => rows[t].run = rows[u].run

\* A published directory holds the durable responses of every trial, all of its
\* own run (run_flowmesh_w4_candidate_matrix).
PublishedIsDurable ==
    \A r \in published : \A t \in Trials : rows[t].status = "COMPLETE" /\ rows[t].run = r

\* A response says hit only for artifacts that an earlier completed trial of
\* the same node says it inserted, over restarts and foreign cache changes
\* ("independent_n7_n8_cache_miss_then_hit_verified").
MissThenHit ==
    \A t \in Trials :
        rows[t].hits \subseteq UNION {rows[u].inserts : u \in {v \in Own(NodeOf[t]) : v < t}}

\* A coordinator without an ambiguous execution has exactly the cache its
\* responses describe, so it can be started again and reports itself healthy,
\* unless another client touched the cache (_initialize_state, health).
CacheIsReplayed ==
    \A n \in Nodes \ foreign :
        Ambiguous(n) = {} =>
            /\ store[n] = Restored(n)
            /\ n \in up => known[n] = store[n]

\* Two coordinators that know nothing of each other execute each trial once,
\* for one run, and only its durable responses are published.
OneExecution == TypeOK /\ ExecutedOnce /\ OneRun /\ PublishedIsDurable

\* What the responses say of the caches is what the caches hold, and hits are
\* hits on what the same node inserted before.
CacheIsHonest == MissThenHit /\ CacheIsReplayed

\* A run that is repeated is published in the end, unless an execution was cut
\* short or failed, or another client touched a cache: no lost answer, death of
\* a runner, or restart between two trials blocks it
\* ("durable_completed_response_replay", "ambiguous_execution_recovery").
Settles ==
    <>(\/ published # {}
       \/ \E n \in Nodes : n \in foreign \/ (Ambiguous(n) # {} /\ job[n] = None))
=============================================================================
