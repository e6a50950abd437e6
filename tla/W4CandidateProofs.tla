-------------------------- MODULE W4CandidateProofs --------------------------
(***************************************************************************)
(* Proofs about W4Candidate, for every set of coordinators, runs and       *)
(* workflows, every frozen order and ranking, and any number of faults.    *)
(***************************************************************************)
EXTENDS W4Candidate, TLAPS

\* All trials before t are completed, for run r.
Before(rs, t, r) == \A u \in Trials : u < t => rs[u].status = "COMPLETE" /\ rs[u].run = r

\* An execution stands on completed ones of its own run: this is what the
\* chain of tasks brings to a coordinator that sees its own trials only.
RowChain ==
    \A t \in Trials : rows[t].status # "NONE" => rows[t].run \in Runs /\ Before(rows, t, rows[t].run)

RequestChain == \A n \in Nodes : \A q \in waiting[n] : Before(rows, q.trial, q.run)

FlowChain ==
    \A s \in Slots :
        /\ flow[s].state # "free" => flow[s].run \in Runs /\ Before(rows, flow[s].task, flow[s].run)
        /\ flow[s].state = "done" => Before(rows, LastTrial + 1, flow[s].run)

\* A caller waits for its request, which waits for the lock or has it, not both.
CallerInv ==
    /\ \A n \in Nodes : \A q \in waiting[n] : q.caller # None =>
          /\ flow[q.caller].state = "sent"
          /\ flow[q.caller].task = q.trial /\ flow[q.caller].run = q.run
    /\ \A n \in Nodes : job[n] # None /\ job[n].caller # None =>
          /\ flow[job[n].caller].state = "sent"
          /\ flow[job[n].caller].task = job[n].trial
          /\ flow[job[n].caller].run = rows[job[n].trial].run
          /\ \A q \in waiting[n] : q.caller # job[n].caller

RunnerInv ==
    \A r \in Runs : runner[r] # None =>
        flow[runner[r]].run = r /\ flow[runner[r]].state # "free"

StartsInv == \A t \in Trials : starts[t] <= 1 /\ (rows[t].status = "NONE" => starts[t] = 0)

ClientInv == RowChain /\ RequestChain /\ FlowChain /\ CallerInv /\ RunnerInv

\* What a coordinator follows in memory is what its responses describe and
\* what the request at work has inserted; so is the external cache, unless
\* another client touched it.
CacheInv ==
    /\ \A t \in Trials : rows[t].status # "COMPLETE" => rows[t].inserts = {} /\ rows[t].hits = {}
    /\ \A n \in Nodes : job[n] # None =>
          /\ known[n] = Restored(n) \cup job[n].inserts
          /\ job[n].hits \subseteq Restored(n)
          /\ Repetition[job[n].trial] = 1 => job[n].inserts = {}
          /\ n \notin foreign => store[n] = known[n]
    /\ \A n \in Nodes : Ambiguous(n) = {} =>
          /\ n \in up => known[n] = Restored(n)
          /\ n \notin foreign => store[n] = Restored(n)

IInv == TypeOK /\ ClientInv /\ StartsInv /\ PublishedIsDurable /\ CacheInv /\ MissThenHit

-----------------------------------------------------------------------------
\* Completed executions are never changed, and no execution changes its run.
RowsGrow ==
    \A t \in Trials :
        /\ rows[t].status = "COMPLETE" => rows'[t] = rows[t]
        /\ rows[t].status # "NONE" => rows'[t].status # "NONE" /\ rows'[t].run = rows[t].run

\* What is completed stays completed.
LEMMA BeforeStays ==
    ASSUME RowsGrow, NEW t, NEW r, Before(rows, t, r)
    PROVE  Before(rows', t, r)
BY DEF RowsGrow, Before

LEMMA PublishedStays ==
    ASSUME RowsGrow, PublishedIsDurable, published' = published
    PROVE  PublishedIsDurable'
BY DEF RowsGrow, PublishedIsDurable

Statuses == {"NONE", "RUNNING", "FAILED", "COMPLETE"}
RowType == [status : Statuses, run : Runs \cup {None}, inserts : SUBSET Keys, hits : SUBSET Keys]
FlowType == [state : {"free", "ready", "sent", "done", "failed"}, run : Runs \cup {None}, task : Trials]

\* The parts of the type invariant that the steps use.
LEMMA Types ==
    ASSUME IInv
    PROVE  /\ rows \in [Trials -> RowType] /\ flow \in [Slots -> FlowType]
           /\ waiting \in [Nodes -> SUBSET RequestType] /\ job \in [Nodes -> JobType \cup {None}]
           /\ runner \in [Runs -> Slots \cup {None}] /\ starts \in [Trials -> Nat]
           /\ store \in [Nodes -> SUBSET Keys] /\ known \in [Nodes -> SUBSET Keys]
BY DEF IInv, TypeOK, RowType, Statuses, FlowType

\* A request at a coordinator.
LEMMA RequestAt ==
    ASSUME IInv, NEW n \in Nodes, NEW q \in waiting[n]
    PROVE  /\ q \in RequestType /\ q.trial \in Trials /\ q.run \in Runs /\ NodeOf[q.trial] = n
           /\ q.caller \in Slots \cup {None} /\ Before(rows, q.trial, q.run)
           /\ q.caller # None => /\ flow[q.caller].state = "sent"
                                 /\ flow[q.caller].task = q.trial /\ flow[q.caller].run = q.run
<1>1. q \in RequestType /\ q.trial \in Own(n)
  BY DEF IInv, TypeOK
<1> QED
  BY <1>1 DEF IInv, ClientInv, RequestChain, CallerInv, RequestType, Own

\* The request that holds the lock of a coordinator.
LEMMA JobAt ==
    ASSUME IInv, NEW n \in Nodes, job[n] # None
    PROVE  /\ job[n] \in JobType /\ n \in up /\ job[n].trial \in Trials
           /\ NodeOf[job[n].trial] = n /\ rows[job[n].trial].status = "RUNNING"
           /\ rows[job[n].trial].run \in Runs
           /\ job[n].caller \in Slots \cup {None}
           /\ job[n].caller # None =>
                 /\ flow[job[n].caller].state = "sent"
                 /\ flow[job[n].caller].task = job[n].trial
                 /\ flow[job[n].caller].run = rows[job[n].trial].run
                 /\ \A q \in waiting[n] : q.caller # job[n].caller
<1>1. job[n] \in JobType /\ job[n].trial \in Own(n) /\ rows[job[n].trial].status = "RUNNING"
  BY DEF IInv, TypeOK
<1>2. job[n].trial \in Trials /\ NodeOf[job[n].trial] = n
  BY <1>1 DEF Own
<1>3. rows[job[n].trial].run \in Runs
  BY <1>1, <1>2 DEF IInv, ClientInv, RowChain
<1> QED
  BY <1>1, <1>2, <1>3 DEF IInv, TypeOK, ClientInv, CallerInv, JobType

\* An answer moves the workflow that waits for it and no other.
LEMMA AnswerMoves ==
    ASSUME IInv, NEW s \in Slots \cup {None}, NEW ok \in BOOLEAN, Answer(s, ok),
           RowsGrow, UNCHANGED runner,
           s # None => flow[s].state = "sent",
           s # None /\ ok => /\ rows'[flow[s].task].status = "COMPLETE"
                             /\ rows'[flow[s].task].run = flow[s].run
    PROVE  /\ flow' \in [Slots -> FlowType] /\ FlowChain' /\ RunnerInv'
           /\ \A x \in Slots : x # s => flow'[x] = flow[x]
<1>1. flow \in [Slots -> FlowType]
  BY Types
<1>2. CASE s = None
  <2>1. flow' = flow
    BY <1>2 DEF Answer
  <2> QED
    BY <1>1, <2>1, <1>2, BeforeStays, W4Assumption DEF IInv, ClientInv, FlowChain, RunnerInv
<1>3. CASE s # None
  <2> DEFINE f == flow[s]
             g == Answered(f, ok)
  <2>1. s \in Slots /\ f \in FlowType /\ flow' = [flow EXCEPT ![s] = g]
    BY <1>1, <1>3 DEF Answer
  <2>2. f.run \in Runs /\ Before(rows', f.task, f.run) /\ f.task \in Trials
    <3>1. f.run \in Runs /\ Before(rows, f.task, f.run)
      BY <1>3, <2>1 DEF IInv, ClientInv, FlowChain
    <3> QED
      BY <2>1, <3>1, BeforeStays DEF FlowType
  <2>3. g \in FlowType /\ g.state \in {"failed", "done", "ready"} /\ g.run = f.run
    BY <2>1, <2>2, W4Assumption DEF FlowType, Trials, Answered
  <2>4. ok => Before(rows', f.task + 1, f.run)
    BY <1>3, <2>1, <2>2 DEF Before, Trials
  <2>5. /\ Before(rows', g.task, g.run)
        /\ g.state = "done" => Before(rows', LastTrial + 1, g.run)
    <3>1. CASE ~ok
      BY <2>1, <2>2, <3>1 DEF FlowType, Answered
    <3>2. CASE ok /\ f.task = LastTrial
      BY <2>1, <2>2, <2>4, <3>2 DEF FlowType, Answered
    <3>3. CASE ok /\ f.task # LastTrial
      BY <2>1, <2>2, <2>4, <3>3 DEF FlowType, Answered
    <3> QED
      BY <3>1, <3>2, <3>3
  <2> HIDE DEF g
  <2>6. /\ flow' \in [Slots -> FlowType] /\ flow'[s] = g
        /\ \A x \in Slots : x # s => flow'[x] = flow[x]
    BY <1>1, <2>1, <2>3
  <2>7. FlowChain'
    <3> SUFFICES ASSUME NEW x \in Slots
                 PROVE  /\ flow'[x].state # "free" =>
                              flow'[x].run \in Runs /\ Before(rows', flow'[x].task, flow'[x].run)
                        /\ flow'[x].state = "done" => Before(rows', LastTrial + 1, flow'[x].run)
      BY DEF FlowChain, Before
    <3>1. CASE x = s
      BY <2>2, <2>3, <2>5, <2>6, <3>1
    <3>2. CASE x # s
      BY <2>6, <3>2, BeforeStays DEF IInv, ClientInv, FlowChain
    <3> QED
      BY <3>1, <3>2
  <2>8. RunnerInv'
    BY <2>1, <2>3, <2>6 DEF IInv, ClientInv, RunnerInv
  <2> QED
    BY <2>6, <2>7, <2>8
<1> QED
  BY <1>2, <1>3

\* Requests that are still there keep their callers, if no other workflow was
\* moved than one that waits for nothing any more.
LEMMA CallersKept ==
    ASSUME IInv, NEW moved \in SUBSET Slots,
           \A x \in Slots \ moved : flow'[x] = flow[x],
           \A n \in Nodes : \A q \in waiting'[n] : q \in waiting[n] /\ q.caller \notin moved,
           \A n \in Nodes : job'[n] # None =>
               /\ job[n] # None /\ job'[n].trial = job[n].trial /\ job'[n].caller = job[n].caller
               /\ job[n].caller \notin moved,
           RowsGrow
    PROVE  CallerInv'
<1>1. ASSUME NEW n \in Nodes, NEW q \in waiting'[n], q.caller # None
      PROVE  /\ flow'[q.caller].state = "sent"
             /\ flow'[q.caller].task = q.trial /\ flow'[q.caller].run = q.run
  BY <1>1, RequestAt
<1>2. ASSUME NEW n \in Nodes, job'[n] # None, job'[n].caller # None
      PROVE  /\ flow'[job'[n].caller].state = "sent"
             /\ flow'[job'[n].caller].task = job'[n].trial
             /\ flow'[job'[n].caller].run = rows'[job'[n].trial].run
             /\ \A q \in waiting'[n] : q.caller # job'[n].caller
  <2>1. /\ job[n] # None /\ job'[n].trial = job[n].trial /\ job'[n].caller = job[n].caller
        /\ job[n].caller \notin moved
    BY <1>2
  <2>2. /\ job[n].trial \in Trials /\ rows[job[n].trial].status = "RUNNING"
        /\ job[n].caller \in Slots
        /\ flow[job[n].caller].state = "sent"
        /\ flow[job[n].caller].task = job[n].trial
        /\ flow[job[n].caller].run = rows[job[n].trial].run
        /\ \A q \in waiting[n] : q.caller # job[n].caller
    BY <1>2, <2>1, JobAt
  <2>3. rows'[job[n].trial].run = rows[job[n].trial].run
    BY <2>2 DEF RowsGrow
  <2> QED
    BY <2>1, <2>2, <2>3
<1> QED
  BY <1>1, <1>2 DEF CallerInv

\* A request that waits is the only one of its caller.
LEMMA OneRequest ==
    ASSUME IInv, NEW n \in Nodes, NEW q \in waiting[n], q.caller # None
    PROVE  /\ \A m \in Nodes : \A p \in waiting[m] : p.caller = q.caller => p = q /\ m = n
           /\ \A m \in Nodes : job[m] # None => job[m].caller # q.caller
<1>1. ASSUME NEW m \in Nodes, NEW p \in waiting[m], p.caller = q.caller
      PROVE  p = q /\ m = n
  <2>1. p.trial = q.trial /\ p.run = q.run /\ m = n
    BY <1>1, RequestAt
  <2>2. p \in RequestType /\ q \in RequestType
    BY RequestAt
  <2> QED
    BY <1>1, <2>1, <2>2 DEF RequestType
<1>2. ASSUME NEW m \in Nodes, job[m] # None, job[m].caller = q.caller
      PROVE  FALSE
  <2>1. job[m].trial = q.trial /\ m = n
    BY <1>2, RequestAt, JobAt
  <2> QED
    BY <1>2, <2>1, JobAt
<1> QED
  BY <1>1, <1>2

\* The request that has the lock is the only one of its caller.
LEMMA OneJob ==
    ASSUME IInv, NEW n \in Nodes, job[n] # None, job[n].caller # None
    PROVE  /\ \A m \in Nodes : \A p \in waiting[m] : p.caller # job[n].caller
           /\ \A m \in Nodes : job[m] # None /\ job[m].caller = job[n].caller => m = n
<1>1. \A m \in Nodes : \A p \in waiting[m] : p.caller # job[n].caller
  BY OneRequest
<1>2. ASSUME NEW m \in Nodes, job[m] # None, job[m].caller = job[n].caller
      PROVE  m = n
  <2>1. job[m].trial = job[n].trial
    BY <1>2, JobAt
  <2> QED
    BY <1>2, <2>1, JobAt
<1> QED
  BY <1>1, <1>2

\* The clients' side of a step that leaves the executions, the requests and
\* the workflows alone.
LEMMA ClientsUntouched ==
    ASSUME IInv, UNCHANGED <<rows, waiting, flow, runner>>,
           \A n \in Nodes : job'[n] # None =>
               job[n] # None /\ job'[n].trial = job[n].trial /\ job'[n].caller = job[n].caller
    PROVE  ClientInv'
<1>2. CallerInv'
  BY DEF IInv, ClientInv, CallerInv
<1>3. RowChain' /\ RequestChain' /\ FlowChain' /\ RunnerInv'
  BY DEF IInv, ClientInv, RowChain, RequestChain, FlowChain, RunnerInv
<1> QED
  BY <1>2, <1>3 DEF ClientInv

\* The caches' side of a step that leaves the executions and the caches alone.
LEMMA CachesUntouched ==
    ASSUME IInv, UNCHANGED <<rows, store, known, foreign, up>>,
           \A n \in Nodes : job'[n] # None =>
               /\ job[n] # None /\ job'[n].trial = job[n].trial
               /\ job'[n].inserts = job[n].inserts /\ job'[n].hits = job[n].hits
    PROVE  CacheInv'
BY DEF IInv, CacheInv, Restored, Completed, Ambiguous, Own

\* The types after a step of the request that has the lock.
LEMMA JobTyped ==
    ASSUME IInv,
           UNCHANGED <<rows, up, fresh, foreign, waiting, flow, runner, published, starts, faults>>,
           store' \in [Nodes -> SUBSET Keys], known' \in [Nodes -> SUBSET Keys],
           job' \in [Nodes -> JobType \cup {None}],
           \A n \in Nodes : job'[n] # None => job[n] # None /\ job'[n].trial = job[n].trial
    PROVE  TypeOK'
BY DEF IInv, TypeOK, Own

\* What depends on the executions only.
LEMMA RowsUntouched ==
    ASSUME IInv, UNCHANGED <<rows, published, starts>>
    PROVE  RowsGrow /\ StartsInv' /\ PublishedIsDurable' /\ MissThenHit'
BY DEF IInv, RowsGrow, StartsInv, PublishedIsDurable, MissThenHit, Own

-----------------------------------------------------------------------------
(* The coordinator.                                                        *)

\* A coordinator starts with the cache its responses describe.
LEMMA StartKeeps ==
    ASSUME IInv, NEW n \in Nodes, Start(n)
    PROVE  IInv'
<1>1. /\ UNCHANGED <<rows, store, waiting, job, flow, runner, published, starts, foreign, faults>>
      /\ up' = up \cup {n} /\ fresh' \subseteq fresh /\ Ambiguous(n) = {}
      /\ known' = [known EXCEPT ![n] = Restored(n)] /\ n \notin up
  BY DEF Start, clients, history
<1>2. Restored(n) \in SUBSET Keys
  <2>1. rows \in [Trials -> RowType]
    BY Types
  <2> QED
    BY <2>1 DEF Restored, Completed, Own, RowType
<1>3. TypeOK'
  BY <1>1, <1>2 DEF IInv, TypeOK, Own
<1>4. ClientInv'
  BY <1>1, ClientsUntouched
<1>5. StartsInv' /\ PublishedIsDurable' /\ MissThenHit'
  BY <1>1, RowsUntouched
<1>6. job[n] = None
  BY <1>1, JobAt
<1>7. \A m \in Nodes : /\ Restored(m)' = Restored(m) /\ Ambiguous(m)' = Ambiguous(m)
                       /\ m # n => known'[m] = known[m]
                       /\ known'[n] = Restored(n)
  BY <1>1 DEF Restored, Completed, Ambiguous, Own, IInv, TypeOK
<1>8. CacheInv'
  BY <1>1, <1>6, <1>7 DEF IInv, CacheInv
<1> QED
  BY <1>3, <1>4, <1>5, <1>8 DEF IInv

\* Ranking, and a hit: what was in the cache is in the responses.
LEMMA RankKeeps ==
    ASSUME IInv, NEW n \in Nodes, Rank(n)
    PROVE  IInv'
<1>1. PICK prefix \in Rankings[job[n].trial] : job' = [job EXCEPT ![n].todo = prefix]
  BY DEF Rank
<1>2. /\ UNCHANGED <<rows, fresh, store, up, known, waiting, flow, runner, published, starts,
                     foreign, faults>>
      /\ job[n] # None
  BY DEF Rank, durable, clients, history
<1>3. job[n] \in JobType /\ job[n].trial \in Trials
  BY <1>2, JobAt
<1>4. prefix \in SUBSET Keys
  BY <1>3 DEF Keys
<1>5. /\ job' \in [Nodes -> JobType \cup {None}]
      /\ \A m \in Nodes : m # n => job'[m] = job[m]
      /\ job'[n].trial = job[n].trial /\ job'[n].caller = job[n].caller
      /\ job'[n].inserts = job[n].inserts /\ job'[n].hits = job[n].hits
  <2>1. job \in [Nodes -> JobType \cup {None}]
    BY Types
  <2> QED
    BY <1>1, <1>3, <1>4, <2>1 DEF JobType
<1>6. TypeOK'
  BY <1>2, <1>5 DEF IInv, TypeOK, Own
<1>7. ClientInv'
  BY <1>2, <1>5, ClientsUntouched
<1>8. CacheInv'
  BY <1>2, <1>5, CachesUntouched
<1>9. StartsInv' /\ PublishedIsDurable' /\ MissThenHit'
  BY <1>2, RowsUntouched
<1> QED
  BY <1>6, <1>7, <1>8, <1>9 DEF IInv

LEMMA HitKeeps ==
    ASSUME IInv, NEW n \in Nodes, NEW k \in Keys, Hit(n, k)
    PROVE  IInv'
<1>1. /\ UNCHANGED <<rows, fresh, store, up, known, waiting, flow, runner, published, starts,
                     foreign, faults>>
      /\ job[n] # None /\ job[n].todo # None /\ k \in known[n]
      /\ Repetition[job[n].trial] = 1
      /\ job' = [job EXCEPT ![n].todo = job[n].todo \ {k}, ![n].hits = job[n].hits \cup {k}]
  BY DEF Hit, Examining, AsFrozen, durable, clients, history
<1>2. job[n] \in JobType /\ job[n].trial \in Trials /\ job \in [Nodes -> JobType \cup {None}]
  BY <1>1, JobAt, Types
<1>3. /\ job' \in [Nodes -> JobType \cup {None}]
      /\ \A m \in Nodes : m # n => job'[m] = job[m]
      /\ job'[n].trial = job[n].trial /\ job'[n].caller = job[n].caller
      /\ job'[n].inserts = job[n].inserts /\ job'[n].hits = job[n].hits \cup {k}
  BY <1>1, <1>2 DEF JobType
<1>4. TypeOK'
  BY <1>1, <1>3, JobTyped, Types
<1>5. ClientInv'
  BY <1>1, <1>3, ClientsUntouched
<1>6. StartsInv' /\ PublishedIsDurable' /\ MissThenHit'
  BY <1>1, RowsUntouched
<1>7. \A m \in Nodes : Restored(m)' = Restored(m) /\ Ambiguous(m)' = Ambiguous(m)
  BY <1>1 DEF Restored, Completed, Ambiguous, Own
<1>8. job[n].hits \cup {k} \subseteq Restored(n)
  BY <1>1 DEF IInv, CacheInv
<1>9. CacheInv'
  BY <1>1, <1>3, <1>7, <1>8 DEF IInv, CacheInv
<1> QED
  BY <1>4, <1>5, <1>6, <1>9 DEF IInv

\* An insertion goes to the cache, to the coordinator's memory and to the
\* response.
LEMMA InsertKeeps ==
    ASSUME IInv, NEW n \in Nodes, NEW k \in Keys, Insert(n, k)
    PROVE  IInv'
<1>1. /\ UNCHANGED <<rows, fresh, up, waiting, flow, runner, published, starts, foreign, faults>>
      /\ job[n] # None /\ job[n].todo # None /\ k \notin known[n]
      /\ k \in known[n] <=> Repetition[job[n].trial] = 1
      /\ store' = [store EXCEPT ![n] = store[n] \cup {k}]
      /\ known' = [known EXCEPT ![n] = known[n] \cup {k}]
      /\ job' = [job EXCEPT ![n].todo = job[n].todo \ {k}, ![n].inserts = job[n].inserts \cup {k}]
  BY DEF Insert, Examining, AsFrozen, clients, history
<1>2. /\ job[n] \in JobType /\ job[n].trial \in Own(n) /\ job \in [Nodes -> JobType \cup {None}]
      /\ rows[job[n].trial].status = "RUNNING"
  BY <1>1, JobAt, Types DEF Own
<1>3. /\ job' \in [Nodes -> JobType \cup {None}]
      /\ \A m \in Nodes : m # n => job'[m] = job[m]
      /\ job'[n].trial = job[n].trial /\ job'[n].caller = job[n].caller
      /\ job'[n].inserts = job[n].inserts \cup {k} /\ job'[n].hits = job[n].hits
  BY <1>1, <1>2 DEF JobType
<1>4. /\ store' \in [Nodes -> SUBSET Keys] /\ known' \in [Nodes -> SUBSET Keys]
      /\ \A m \in Nodes : m # n => store'[m] = store[m] /\ known'[m] = known[m]
      /\ store'[n] = store[n] \cup {k} /\ known'[n] = known[n] \cup {k}
  BY <1>1, Types
<1>5. TypeOK'
  BY <1>1, <1>3, <1>4, JobTyped
<1>6. ClientInv'
  BY <1>1, <1>3, ClientsUntouched
<1>7. StartsInv' /\ PublishedIsDurable' /\ MissThenHit'
  BY <1>1, RowsUntouched
<1>8. \A m \in Nodes : Restored(m)' = Restored(m) /\ Ambiguous(m)' = Ambiguous(m)
  BY <1>1 DEF Restored, Completed, Ambiguous, Own
<1>9. job[n].trial \in Ambiguous(n)
  BY <1>2 DEF Ambiguous
<1>10. known'[n] = Restored(n) \cup job'[n].inserts /\ (n \notin foreign => store'[n] = known'[n])
  BY <1>1, <1>3, <1>4 DEF IInv, CacheInv
<1>11. job'[n].hits \subseteq Restored(n) /\ Repetition[job'[n].trial] # 1
  BY <1>1, <1>3 DEF IInv, CacheInv
<1>12. UNCHANGED <<rows, up, foreign>>
  BY <1>1
<1>13. CacheInv'
  <2>1. \A m \in Nodes \ {n} : /\ job'[m] = job[m] /\ known'[m] = known[m] /\ store'[m] = store[m]
                               /\ Restored(m)' = Restored(m) /\ Ambiguous(m)' = Ambiguous(m)
    BY <1>3, <1>4, <1>8
  <2>2. Restored(n)' = Restored(n) /\ Ambiguous(n)' # {}
    BY <1>8, <1>9
  <2>3. ASSUME NEW m \in Nodes, job'[m] # None
        PROVE  /\ known'[m] = Restored(m)' \cup job'[m].inserts
               /\ job'[m].hits \subseteq Restored(m)'
               /\ Repetition[job'[m].trial] = 1 => job'[m].inserts = {}
               /\ m \notin foreign' => store'[m] = known'[m]
    <3>1. CASE m = n
      BY <1>10, <1>11, <1>12, <2>2, <3>1
    <3>2. CASE m # n
      BY <1>12, <2>1, <2>3, <3>2 DEF IInv, CacheInv
    <3> QED
      BY <3>1, <3>2
  <2>4. ASSUME NEW m \in Nodes, Ambiguous(m)' = {}
        PROVE  /\ m \in up' => known'[m] = Restored(m)'
               /\ m \notin foreign' => store'[m] = Restored(m)'
    BY <1>12, <2>1, <2>2, <2>4 DEF IInv, CacheInv
  <2>5. \A t \in Trials : rows'[t].status # "COMPLETE" => rows'[t].inserts = {} /\ rows'[t].hits = {}
    BY <1>12 DEF IInv, CacheInv
  <2> QED
    BY <2>3, <2>4, <2>5 DEF CacheInv
<1> QED
  BY <1>5, <1>6, <1>7, <1>13 DEF IInv

\* Another client of the cache node is remembered.
LEMMA TouchKeeps ==
    ASSUME IInv, NEW n \in Nodes, Touch(n)
    PROVE  IInv'
<1>1. /\ UNCHANGED <<rows, fresh, up, known, waiting, job, flow, runner, published, starts>>
      /\ foreign' = foreign \cup {n} /\ faults' = faults + 1 /\ faults < MaxFaults
      /\ store' \in [Nodes -> SUBSET Keys]
      /\ \A m \in Nodes : m # n => store'[m] = store[m]
  BY Types DEF Touch, Fault, service, clients
<1>2. TypeOK'
  BY <1>1, W4Assumption DEF IInv, TypeOK, Own
<1>3. ClientInv'
  BY <1>1, ClientsUntouched
<1>4. StartsInv' /\ PublishedIsDurable' /\ MissThenHit'
  BY <1>1, RowsUntouched
<1>5. \A m \in Nodes : Restored(m)' = Restored(m) /\ Ambiguous(m)' = Ambiguous(m)
  BY <1>1 DEF Restored, Completed, Ambiguous, Own
<1>6. CacheInv'
  BY <1>1, <1>5 DEF IInv, CacheInv
<1> QED
  BY <1>2, <1>3, <1>4, <1>6 DEF IInv

\* A death of the coordinator: its callers fail, and an execution that was
\* being made stays ambiguous.
LEMMA CrashKeeps ==
    ASSUME IInv, NEW n \in Nodes, Crash(n)
    PROVE  IInv'
<1> DEFINE callers == {q.caller : q \in waiting[n]}
                         \cup (IF job[n] = None THEN {} ELSE {job[n].caller})
           moved == callers \cap Slots
<1>1. /\ UNCHANGED <<rows, fresh, store, runner, published, starts, foreign>>
      /\ faults' = faults + 1 /\ faults < MaxFaults
      /\ up' = up \ {n} /\ known' = [known EXCEPT ![n] = {}]
      /\ waiting' = [waiting EXCEPT ![n] = {}] /\ job' = [job EXCEPT ![n] = None]
      /\ Failing(callers)
  BY DEF Crash, Fault, durable, history
<1>2. /\ waiting' \in [Nodes -> SUBSET RequestType] /\ job' \in [Nodes -> JobType \cup {None}]
      /\ known' \in [Nodes -> SUBSET Keys]
      /\ waiting'[n] = {} /\ job'[n] = None /\ known'[n] = {}
      /\ \A m \in Nodes \ {n} : waiting'[m] = waiting[m] /\ job'[m] = job[m] /\ known'[m] = known[m]
  BY <1>1, Types
<1> HIDE DEF callers
<1>3. /\ flow' \in [Slots -> FlowType]
      /\ \A s \in Slots \ moved : flow'[s] = flow[s]
      /\ \A s \in moved : flow'[s].state = "failed" /\ flow'[s].run = flow[s].run
                          /\ flow'[s].task = flow[s].task
  BY <1>1, Types DEF Failing, FlowType
<1>4. TypeOK'
  <2>1. \A m \in Nodes :
            /\ \A q \in waiting'[m] : q.trial \in Own(m)
            /\ job'[m] # None => /\ m \in up' /\ job'[m].trial \in Own(m)
                                 /\ rows'[job'[m].trial].status = "RUNNING"
    BY <1>1, <1>2 DEF IInv, TypeOK
  <2>2. faults' \in 0 .. MaxFaults
    BY <1>1, W4Assumption DEF IInv, TypeOK
  <2> QED
    BY <1>1, <1>2, <1>3, <2>1, <2>2 DEF IInv, TypeOK, Own, FlowType
<1>5. RowsGrow /\ StartsInv' /\ PublishedIsDurable' /\ MissThenHit'
  BY <1>1, RowsUntouched
<1>6. \A s \in moved : flow[s].state = "sent"
  <2> SUFFICES ASSUME NEW s \in moved PROVE flow[s].state = "sent"
    OBVIOUS
  <2>1. s \in callers /\ s # None
    BY W4Assumption
  <2>2. CASE \E q \in waiting[n] : s = q.caller
    BY <2>1, <2>2, RequestAt
  <2>3. CASE job[n] # None /\ s = job[n].caller
    BY <2>1, <2>3, JobAt
  <2> QED
    BY <2>1, <2>2, <2>3 DEF callers
<1>7. RowChain' /\ RequestChain' /\ RunnerInv' /\ FlowChain'
  <2> HIDE DEF moved
  <2>1. RowChain' /\ RequestChain'
    BY <1>1, <1>2 DEF IInv, ClientInv, RowChain, RequestChain
  <2>2. \A s \in Slots : /\ flow'[s].run = flow[s].run /\ flow'[s].task = flow[s].task
                         /\ flow'[s].state = flow[s].state \/ flow'[s].state = "failed"
                         /\ flow'[s].state = "free" <=> flow[s].state = "free"
    BY <1>3, <1>6
  <2>3. RunnerInv'
    BY <1>1, <2>2, Types DEF IInv, ClientInv, RunnerInv
  <2>4. FlowChain'
    BY <1>1, <2>2 DEF IInv, ClientInv, FlowChain
  <2> QED
    BY <2>1, <2>3, <2>4
<1>8. ASSUME NEW m \in Nodes, m # n
      PROVE  /\ \A q \in waiting[m] : q.caller \notin moved
             /\ job[m] # None => job[m].caller \notin moved
  <2>1. None \notin moved
    BY W4Assumption
  <2>2. ASSUME NEW q \in waiting[m], q.caller \in moved PROVE FALSE
    BY <1>8, <2>1, <2>2, OneRequest DEF callers
  <2>3. ASSUME job[m] # None, job[m].caller \in moved PROVE FALSE
    BY <1>8, <2>1, <2>3, OneJob DEF callers
  <2> QED
    BY <2>2, <2>3
<1> HIDE DEF moved
<1>9. CallerInv'
  <2>1. moved \in SUBSET Slots
    BY DEF moved
  <2>2. \A m \in Nodes : \A q \in waiting'[m] : q \in waiting[m] /\ q.caller \notin moved
    BY <1>2, <1>8
  <2>3. \A m \in Nodes : job'[m] # None =>
               /\ job[m] # None /\ job'[m].trial = job[m].trial /\ job'[m].caller = job[m].caller
               /\ job[m].caller \notin moved
    BY <1>2, <1>8
  <2> QED
    BY <1>3, <1>5, <2>1, <2>2, <2>3, CallersKept
<1>10. \A m \in Nodes : Restored(m)' = Restored(m) /\ Ambiguous(m)' = Ambiguous(m)
  BY <1>1 DEF Restored, Completed, Ambiguous, Own
<1>11. CacheInv'
  BY <1>1, <1>2, <1>10 DEF IInv, CacheInv
<1> QED
  BY <1>4, <1>5, <1>7, <1>9, <1>11 DEF IInv, ClientInv

\* A request that is answered at once, by its stored response or a refusal.
LEMMA AnsweredAtOnce ==
    ASSUME IInv, NEW n \in Nodes, NEW q \in waiting[n], NEW ok \in BOOLEAN,
           Taken(n, q), Answer(q.caller, ok),
           ok => rows[q.trial].status = "COMPLETE" /\ rows[q.trial].run = q.run,
           UNCHANGED <<up, known, job, rows, fresh, store, runner, published, starts, foreign, faults>>
    PROVE  IInv'
<1>1. q.caller \in Slots \cup {None} /\ (q.caller # None => flow[q.caller].state = "sent")
  BY RequestAt
<1>2. RowsGrow /\ StartsInv' /\ PublishedIsDurable' /\ MissThenHit'
  BY RowsUntouched
<1>3. q.caller # None /\ ok => /\ rows'[flow[q.caller].task].status = "COMPLETE"
                               /\ rows'[flow[q.caller].task].run = flow[q.caller].run
  BY RequestAt
<1>4. /\ flow' \in [Slots -> FlowType] /\ FlowChain' /\ RunnerInv'
      /\ \A x \in Slots : x # q.caller => flow'[x] = flow[x]
  BY <1>1, <1>2, <1>3, AnswerMoves
<1>5. /\ waiting' \in [Nodes -> SUBSET RequestType]
      /\ waiting'[n] = waiting[n] \ {q} /\ \A m \in Nodes \ {n} : waiting'[m] = waiting[m]
  BY Types DEF Taken
<1>6. TypeOK'
  <2>1. \A m \in Nodes : \A p \in waiting'[m] : p.trial \in Own(m)
    BY <1>5 DEF IInv, TypeOK
  <2> QED
    BY <1>4, <1>5, <2>1 DEF IInv, TypeOK, Own, FlowType
<1>7. RowChain' /\ RequestChain'
  BY <1>5 DEF IInv, ClientInv, RowChain, RequestChain
<1>8. CallerInv'
  <2> DEFINE moved == {q.caller} \cap Slots
  <2>1. /\ moved \in SUBSET Slots /\ None \notin moved
        /\ \A x \in Slots \ moved : flow'[x] = flow[x]
    BY <1>4, W4Assumption
  <2>2. \A m \in Nodes : \A p \in waiting'[m] : p \in waiting[m] /\ p.caller \notin moved
    BY <1>5, <2>1, OneRequest
  <2>3. \A m \in Nodes : job[m] # None => job[m].caller \notin moved
    BY <2>1, OneRequest
  <2> HIDE DEF moved
  <2> QED
    BY <1>2, <2>1, <2>2, <2>3, CallersKept
<1>9. CacheInv'
  BY CachesUntouched
<1> QED
  BY <1>2, <1>4, <1>6, <1>7, <1>8, <1>9 DEF IInv, ClientInv

LEMMA ReplayKeeps ==
    ASSUME IInv, NEW n \in Nodes, NEW q \in waiting[n], Replay(n, q) \/ Refuse(n, q)
    PROVE  IInv'
<1>1. /\ Taken(n, q)
      /\ UNCHANGED <<up, known, job, rows, fresh, store, runner, published, starts, foreign, faults>>
  BY DEF Replay, Refuse, durable, history
<1>2. CASE Replay(n, q)
  <2>1. Answer(q.caller, rows[q.trial].status = "COMPLETE") /\ rows[q.trial].run = q.run
    BY <1>2 DEF Replay, Stored
  <2>2. (rows[q.trial].status = "COMPLETE") \in BOOLEAN
    OBVIOUS
  <2> QED
    BY <1>1, <2>1, <2>2, AnsweredAtOnce
<1>3. CASE Refuse(n, q)
  BY <1>1, <1>3, AnsweredAtOnce DEF Refuse
<1> QED
  BY <1>2, <1>3

\* A coordinator that takes up a new trial has no ambiguous execution: its
\* place in the order would be taken.
LEMMA AdmissibleIsClean ==
    ASSUME IInv, NEW n \in Nodes, NEW q \in waiting[n], Admissible(n, q)
    PROVE  Ambiguous(n) = {}
<1> SUFFICES ASSUME NEW a \in Ambiguous(n) PROVE FALSE
  OBVIOUS
<1>1. /\ a \in Trials /\ NodeOf[a] = n /\ rows[a].status \in {"RUNNING", "FAILED"}
      /\ q.trial \in Trials /\ NodeOf[q.trial] = n /\ rows[q.trial].status = "NONE"
  BY RequestAt DEF Ambiguous, Own, Admissible
<1>2. a \in Nat /\ q.trial \in Nat /\ a # q.trial
  BY <1>1 DEF Trials
<1>3. ~(a < q.trial)
  BY <1>1 DEF Admissible, IsNext, Own, Completed
<1>4. ~(q.trial < a)
  BY <1>1 DEF IInv, ClientInv, RowChain, Before
<1> QED
  BY <1>2, <1>3, <1>4

\* The RUNNING row is the first one of its trial, and of no other run than the
\* rows before it.
LEMMA BeginKeeps ==
    ASSUME IInv, NEW n \in Nodes, NEW q \in waiting[n], Begin(n, q)
    PROVE  IInv'
<1> DEFINE t == q.trial
           row == [status |-> "RUNNING", run |-> q.run, inserts |-> {}, hits |-> {}]
           work == [trial |-> t, caller |-> q.caller, todo |-> None, inserts |-> {}, hits |-> {}]
<1>1. /\ UNCHANGED <<fresh, store, up, known, flow, runner, published, foreign, faults>>
      /\ Taken(n, q) /\ n \in up /\ job[n] = None /\ Admissible(n, q) /\ rows[t].status = "NONE"
      /\ rows' = [rows EXCEPT ![t] = row] /\ job' = [job EXCEPT ![n] = work]
      /\ starts' = [starts EXCEPT ![t] = starts[t] + 1]
  BY DEF Begin, Taken, Admissible, clients
<1>2. /\ t \in Trials /\ q.run \in Runs /\ NodeOf[t] = n /\ q.caller \in Slots \cup {None}
      /\ Before(rows, t, q.run)
      /\ q.caller # None => /\ flow[q.caller].state = "sent"
                            /\ flow[q.caller].task = t /\ flow[q.caller].run = q.run
  BY RequestAt
<1>3. row \in RowType /\ work \in JobType /\ work # None
  BY <1>2, W4Assumption DEF RowType, Statuses, JobType
<1>4. /\ row.status = "RUNNING" /\ row.run = q.run /\ row.inserts = {} /\ row.hits = {}
      /\ work.trial = t /\ work.caller = q.caller /\ work.inserts = {} /\ work.hits = {}
  OBVIOUS
<1> HIDE DEF row, work
<1>5. /\ rows' \in [Trials -> RowType] /\ rows'[t] = row
      /\ \A u \in Trials \ {t} : rows'[u] = rows[u]
      /\ job' \in [Nodes -> JobType \cup {None}] /\ job'[n] = work
      /\ \A m \in Nodes \ {n} : job'[m] = job[m]
      /\ starts' \in [Trials -> Nat] /\ starts'[t] = starts[t] + 1
      /\ \A u \in Trials \ {t} : starts'[u] = starts[u]
  BY <1>1, <1>2, <1>3, Types
<1>6. /\ waiting' \in [Nodes -> SUBSET RequestType]
      /\ waiting'[n] = waiting[n] \ {q} /\ \A m \in Nodes \ {n} : waiting'[m] = waiting[m]
  BY <1>1, Types DEF Taken
<1>7. RowsGrow
  BY <1>1, <1>2, <1>5 DEF RowsGrow
<1>8. TypeOK'
  <2>1. \A m \in Nodes : \A p \in waiting'[m] : p.trial \in Own(m)
    BY <1>6 DEF IInv, TypeOK
  <2>2. ASSUME NEW m \in Nodes, job'[m] # None
        PROVE  m \in up' /\ job'[m].trial \in Own(m) /\ rows'[job'[m].trial].status = "RUNNING"
    <3>1. CASE m = n
      BY <1>1, <1>2, <1>4, <1>5, <3>1 DEF Own
    <3>2. CASE m # n
      <4>1. /\ m \in up /\ job'[m] = job[m] /\ job[m].trial \in Trials /\ NodeOf[job[m].trial] = m
            /\ rows[job[m].trial].status = "RUNNING"
        BY <1>5, <2>2, <3>2, JobAt
      <4> QED
        BY <1>1, <1>5, <4>1 DEF Own
    <3> QED
      BY <3>1, <3>2
  <2> QED
    BY <1>1, <1>5, <1>6, <2>1, <2>2 DEF IInv, TypeOK, Own, RowType, Statuses
<1>9. RowChain'
  <2>1. \A u \in Trials : rows'[u].status # "NONE" =>
            rows'[u].run \in Runs /\ Before(rows, u, rows'[u].run)
    BY <1>2, <1>4, <1>5 DEF IInv, ClientInv, RowChain
  <2> QED
    BY <1>7, <2>1, BeforeStays DEF RowChain
<1>10. RequestChain' /\ FlowChain' /\ RunnerInv'
  BY <1>1, <1>6, <1>7, BeforeStays DEF IInv, ClientInv, RequestChain, FlowChain, RunnerInv
<1>11. CallerInv'
  <2>1. ASSUME NEW m \in Nodes, NEW p \in waiting'[m], p.caller # None
        PROVE  /\ flow'[p.caller].state = "sent"
               /\ flow'[p.caller].task = p.trial /\ flow'[p.caller].run = p.run
    BY <1>1, <1>6, <2>1, RequestAt
  <2>2. ASSUME NEW m \in Nodes, job'[m] # None, job'[m].caller # None
        PROVE  /\ flow'[job'[m].caller].state = "sent"
               /\ flow'[job'[m].caller].task = job'[m].trial
               /\ flow'[job'[m].caller].run = rows'[job'[m].trial].run
               /\ \A p \in waiting'[m] : p.caller # job'[m].caller
    <3>1. CASE m = n
      <4>1. \A p \in waiting'[n] : p.caller # q.caller
        BY <1>4, <1>5, <1>6, <2>2, <3>1, OneRequest
      <4> QED
        BY <1>1, <1>2, <1>4, <1>5, <2>2, <3>1, <4>1
    <3>2. CASE m # n
      <4>1. job[m] # None /\ job'[m] = job[m] /\ waiting'[m] = waiting[m]
        BY <1>5, <1>6, <2>2, <3>2
      <4>2. /\ job[m].trial \in Trials /\ job[m].trial # t
            /\ flow[job[m].caller].state = "sent"
            /\ flow[job[m].caller].task = job[m].trial
            /\ flow[job[m].caller].run = rows[job[m].trial].run
            /\ \A p \in waiting[m] : p.caller # job[m].caller
        BY <1>2, <2>2, <3>2, <4>1, JobAt
      <4> QED
        BY <1>1, <1>5, <4>1, <4>2
    <3> QED
      BY <3>1, <3>2
  <2> QED
    BY <2>1, <2>2 DEF CallerInv
<1>12. StartsInv' /\ PublishedIsDurable'
  <2>1. starts[t] = 0
    BY <1>1, <1>2 DEF IInv, StartsInv
  <2>2. StartsInv'
    BY <1>4, <1>5, <2>1 DEF IInv, StartsInv
  <2> QED
    BY <1>1, <1>7, <2>2, PublishedStays DEF IInv
<1>13. rows[t].inserts = {} /\ rows[t].hits = {}
  BY <1>1, <1>2 DEF IInv, CacheInv
<1>14. MissThenHit'
  <2>1. \A u \in Trials : rows'[u].inserts = rows[u].inserts /\ rows'[u].hits = rows[u].hits
    BY <1>4, <1>5, <1>13
  <2> QED
    BY <2>1 DEF IInv, MissThenHit, Own
<1>15. \A m \in Nodes : /\ Restored(m)' = Restored(m)
                        /\ m # n => Ambiguous(m)' = Ambiguous(m)
                        /\ Ambiguous(n)' # {}
  <2>1. \A m \in Nodes : Completed(m)' = Completed(m) /\ t \notin Completed(m)
    BY <1>1, <1>4, <1>5 DEF Completed, Own
  <2>2. \A m \in Nodes : Restored(m)' = Restored(m)
    BY <1>5, <2>1 DEF Restored, Completed, Own
  <2>3. \A m \in Nodes \ {n} : Ambiguous(m)' = Ambiguous(m)
    BY <1>2, <1>5 DEF Ambiguous, Own
  <2>4. t \in Ambiguous(n)'
    BY <1>2, <1>4, <1>5 DEF Ambiguous, Own
  <2> QED
    BY <2>2, <2>3, <2>4
<1>16. known[n] = Restored(n) /\ (n \notin foreign => store[n] = Restored(n))
  BY <1>1, AdmissibleIsClean DEF IInv, CacheInv
<1>17. CacheInv'
  <2>1. ASSUME NEW m \in Nodes, job'[m] # None
        PROVE  /\ known'[m] = Restored(m)' \cup job'[m].inserts
               /\ job'[m].hits \subseteq Restored(m)'
               /\ Repetition[job'[m].trial] = 1 => job'[m].inserts = {}
               /\ m \notin foreign' => store'[m] = known'[m]
    <3>1. CASE m = n
      BY <1>1, <1>4, <1>5, <1>15, <1>16, <3>1
    <3>2. CASE m # n
      BY <1>1, <1>5, <1>15, <2>1, <3>2 DEF IInv, CacheInv
    <3> QED
      BY <3>1, <3>2
  <2>2. ASSUME NEW m \in Nodes, Ambiguous(m)' = {}
        PROVE  /\ m \in up' => known'[m] = Restored(m)'
               /\ m \notin foreign' => store'[m] = Restored(m)'
    BY <1>1, <1>15, <2>2 DEF IInv, CacheInv
  <2>3. \A u \in Trials : rows'[u].status # "COMPLETE" => rows'[u].inserts = {} /\ rows'[u].hits = {}
    BY <1>4, <1>5 DEF IInv, CacheInv
  <2> QED
    BY <2>1, <2>2, <2>3 DEF CacheInv
<1> QED
  BY <1>8, <1>9, <1>10, <1>11, <1>12, <1>14, <1>17 DEF IInv, ClientInv

\* A request ends: its row gets its last status and its caller the answer.
LEMMA JobEnds ==
    ASSUME IInv, NEW n \in Nodes, job[n] # None, NEW row \in RowType,
           row.run = rows[job[n].trial].run, row.status # "NONE",
           rows' = [rows EXCEPT ![job[n].trial] = row], job' = [job EXCEPT ![n] = None],
           NEW ok \in BOOLEAN, Answer(job[n].caller, ok), ok => row.status = "COMPLETE",
           store' \in [Nodes -> SUBSET Keys], faults' \in 0 .. MaxFaults,
           UNCHANGED <<fresh, up, known, waiting, runner, published, starts, foreign>>
    PROVE  TypeOK' /\ ClientInv' /\ StartsInv' /\ PublishedIsDurable'
<1> DEFINE t == job[n].trial
           s == job[n].caller
<1>1. /\ t \in Trials /\ NodeOf[t] = n /\ rows[t].status = "RUNNING" /\ s \in Slots \cup {None}
      /\ rows[t].run \in Runs
      /\ s # None => /\ flow[s].state = "sent" /\ flow[s].task = t /\ flow[s].run = rows[t].run
  BY JobAt
<1>2. /\ rows' \in [Trials -> RowType] /\ rows'[t] = row
      /\ \A u \in Trials \ {t} : rows'[u] = rows[u]
      /\ job' \in [Nodes -> JobType \cup {None}] /\ job'[n] = None
      /\ \A m \in Nodes \ {n} : job'[m] = job[m]
  BY <1>1, Types
<1>3. RowsGrow
  BY <1>1, <1>2 DEF RowsGrow
<1>4. /\ flow' \in [Slots -> FlowType] /\ FlowChain' /\ RunnerInv'
      /\ \A x \in Slots : x # s => flow'[x] = flow[x]
  BY <1>1, <1>2, <1>3, AnswerMoves
<1>5. \A m \in Nodes \ {n} : job[m] # None => job[m].trial \in Trials \ {t}
  BY <1>1, JobAt
<1>6. TypeOK'
  <2>1. \A m \in Nodes : \A p \in waiting'[m] : p.trial \in Own(m)
    BY DEF IInv, TypeOK
  <2>2. \A m \in Nodes : job'[m] # None =>
            m \in up' /\ job'[m].trial \in Own(m) /\ rows'[job'[m].trial].status = "RUNNING"
    BY <1>2, <1>5 DEF IInv, TypeOK
  <2> QED
    BY <1>2, <1>4, <2>1, <2>2 DEF IInv, TypeOK, Own, RowType, Statuses, FlowType
<1>7. RowChain'
  <2>1. \A u \in Trials : rows'[u].status # "NONE" =>
            rows'[u].run \in Runs /\ Before(rows, u, rows'[u].run)
    BY <1>1, <1>2 DEF IInv, ClientInv, RowChain
  <2> QED
    BY <1>3, <2>1, BeforeStays DEF RowChain
<1>8. RequestChain'
  BY <1>3, BeforeStays DEF IInv, ClientInv, RequestChain
<1>9. CallerInv'
  <2> DEFINE moved == {s} \cap Slots
  <2>1. /\ moved \in SUBSET Slots /\ None \notin moved
        /\ \A x \in Slots \ moved : flow'[x] = flow[x]
    BY <1>4, W4Assumption
  <2>2. \A m \in Nodes : \A p \in waiting'[m] : p \in waiting[m] /\ p.caller \notin moved
    BY <2>1, OneJob
  <2>3. \A m \in Nodes : job'[m] # None =>
               /\ job[m] # None /\ job'[m].trial = job[m].trial /\ job'[m].caller = job[m].caller
               /\ job[m].caller \notin moved
    BY <1>2, <2>1, OneJob
  <2> HIDE DEF moved
  <2> QED
    BY <1>3, <2>1, <2>2, <2>3, CallersKept
<1>10. StartsInv'
  BY <1>1, <1>2 DEF IInv, StartsInv
<1>11. PublishedIsDurable'
  BY <1>3, PublishedStays DEF IInv
<1> QED
  BY <1>4, <1>6, <1>7, <1>8, <1>9, <1>10, <1>11 DEF ClientInv

\* A failed execution stays in the way of every later one.
LEMMA GiveUpKeeps ==
    ASSUME IInv, NEW n \in Nodes, job[n] # None, NEW status \in {"FAILED", "RUNNING"},
           GiveUp(n, status), store' \in [Nodes -> SUBSET Keys],
           \A m \in Nodes \ {n} : store'[m] = store[m], faults' \in 0 .. MaxFaults,
           UNCHANGED <<fresh, up, known, waiting, runner, published, starts, foreign>>
    PROVE  IInv'
<1> DEFINE t == job[n].trial
           row == [rows[t] EXCEPT !.status = status]
<1>1. /\ t \in Trials /\ NodeOf[t] = n /\ rows[t].status = "RUNNING"
      /\ rows \in [Trials -> RowType]
  BY JobAt, Types
<1>2. /\ row \in RowType /\ row.run = rows[t].run /\ row.status = status /\ row.status # "NONE"
      /\ row.inserts = rows[t].inserts /\ row.hits = rows[t].hits
  BY <1>1 DEF RowType, Statuses
<1>3. /\ rows' = [rows EXCEPT ![t] = row] /\ job' = [job EXCEPT ![n] = None]
      /\ Answer(job[n].caller, FALSE)
  BY DEF GiveUp
<1> HIDE DEF row
<1>4. TypeOK' /\ ClientInv' /\ StartsInv' /\ PublishedIsDurable'
  BY <1>2, <1>3, JobEnds
<1>5. /\ rows'[t] = row /\ \A u \in Trials \ {t} : rows'[u] = rows[u]
      /\ job'[n] = None /\ \A m \in Nodes \ {n} : job'[m] = job[m]
  BY <1>1, <1>3, Types
<1>6. MissThenHit'
  <2>1. \A u \in Trials : rows'[u].inserts = rows[u].inserts /\ rows'[u].hits = rows[u].hits
    BY <1>2, <1>5
  <2> QED
    BY <2>1 DEF IInv, MissThenHit, Own
<1>7. /\ \A m \in Nodes : Restored(m)' = Restored(m)
      /\ \A m \in Nodes \ {n} : Ambiguous(m)' = Ambiguous(m)
      /\ Ambiguous(n)' # {}
  <2>1. \A m \in Nodes : Completed(m)' = Completed(m) /\ t \notin Completed(m)
    BY <1>1, <1>2, <1>5 DEF Completed, Own
  <2>2. \A m \in Nodes : Restored(m)' = Restored(m)
    BY <1>5, <2>1 DEF Restored, Completed, Own
  <2>3. \A m \in Nodes \ {n} : Ambiguous(m)' = Ambiguous(m)
    BY <1>1, <1>5 DEF Ambiguous, Own
  <2>4. t \in Ambiguous(n)'
    BY <1>1, <1>2, <1>5 DEF Ambiguous, Own
  <2> QED
    BY <2>2, <2>3, <2>4
<1>8. CacheInv'
  <2>1. ASSUME NEW m \in Nodes, job'[m] # None
        PROVE  /\ known'[m] = Restored(m)' \cup job'[m].inserts
               /\ job'[m].hits \subseteq Restored(m)'
               /\ Repetition[job'[m].trial] = 1 => job'[m].inserts = {}
               /\ m \notin foreign' => store'[m] = known'[m]
    BY <1>5, <1>7, <2>1 DEF IInv, CacheInv
  <2>2. ASSUME NEW m \in Nodes, Ambiguous(m)' = {}
        PROVE  /\ m \in up' => known'[m] = Restored(m)'
               /\ m \notin foreign' => store'[m] = Restored(m)'
    BY <1>7, <2>2 DEF IInv, CacheInv
  <2>3. \A u \in Trials : rows'[u].status # "COMPLETE" => rows'[u].inserts = {} /\ rows'[u].hits = {}
    BY <1>1, <1>2, <1>5 DEF IInv, CacheInv
  <2> QED
    BY <2>1, <2>2, <2>3 DEF CacheInv
<1> QED
  BY <1>4, <1>6, <1>8 DEF IInv

LEMMA RejectKeeps ==
    ASSUME IInv, NEW n \in Nodes, Reject(n)
    PROVE  IInv'
<1>1. /\ job[n] # None /\ GiveUp(n, "FAILED")
      /\ UNCHANGED <<fresh, store, up, known, waiting, runner, published, starts, foreign, faults>>
  BY DEF Reject, history
<1>2. store' \in [Nodes -> SUBSET Keys] /\ faults' \in 0 .. MaxFaults
  BY <1>1 DEF IInv, TypeOK
<1> QED
  BY <1>1, <1>2, GiveUpKeeps

LEMMA OperationFailsKeeps ==
    ASSUME IInv, NEW n \in Nodes, OperationFails(n)
    PROVE  IInv'
<1>1. /\ job[n] # None /\ faults' = faults + 1 /\ faults < MaxFaults
      /\ UNCHANGED <<fresh, up, known, waiting, runner, published, starts, foreign>>
  BY DEF OperationFails, Fault, history
<1>2. PICK status \in {"FAILED", "RUNNING"} : GiveUp(n, status)
  BY DEF OperationFails
<1>3. job[n] \in JobType
  BY <1>1, JobAt
<1>4. store' \in [Nodes -> SUBSET Keys] /\ \A m \in Nodes \ {n} : store'[m] = store[m]
  <2>1. CASE UNCHANGED store
    BY <2>1, Types
  <2>2. CASE \E k \in IF job[n].todo = None THEN {} ELSE job[n].todo :
                 store' = [store EXCEPT ![n] = store[n] \cup {k}]
    <3>1. PICK k \in Keys : store' = [store EXCEPT ![n] = store[n] \cup {k}]
      BY <1>3, <2>2 DEF JobType
    <3> QED
      BY <3>1, Types
  <2> QED
    BY <2>1, <2>2 DEF OperationFails
<1>5. faults' \in 0 .. MaxFaults
  BY <1>1, W4Assumption DEF IInv, TypeOK
<1> QED
  BY <1>1, <1>2, <1>4, <1>5, GiveUpKeeps

\* The completed response: its hits stand on what completed trials inserted,
\* and its insertions join what a restart rebuilds.
LEMMA CompleteKeeps ==
    ASSUME IInv, NEW n \in Nodes, Complete(n)
    PROVE  IInv'
<1> DEFINE t == job[n].trial
           row == [status |-> "COMPLETE", run |-> rows[t].run,
                   inserts |-> job[n].inserts, hits |-> job[n].hits]
<1>1. /\ job[n] # None /\ rows' = [rows EXCEPT ![t] = row] /\ job' = [job EXCEPT ![n] = None]
      /\ Answer(job[n].caller, TRUE)
      /\ UNCHANGED <<fresh, store, up, known, waiting, runner, published, starts, foreign, faults>>
  BY DEF Complete, history
<1>2. /\ t \in Trials /\ NodeOf[t] = n /\ rows[t].status = "RUNNING" /\ rows[t].run \in Runs
      /\ job[n] \in JobType /\ n \in up
  BY <1>1, JobAt
<1>3. /\ row \in RowType /\ row.run = rows[t].run /\ row.status = "COMPLETE"
      /\ row.inserts = job[n].inserts /\ row.hits = job[n].hits
  BY <1>2 DEF RowType, Statuses, JobType
<1> HIDE DEF row
<1>4. store' \in [Nodes -> SUBSET Keys] /\ faults' \in 0 .. MaxFaults
  BY <1>1 DEF IInv, TypeOK
<1>5. TypeOK' /\ ClientInv' /\ StartsInv' /\ PublishedIsDurable'
  BY <1>1, <1>3, <1>4, JobEnds
<1>6. /\ rows'[t] = row /\ \A u \in Trials \ {t} : rows'[u] = rows[u]
      /\ job'[n] = None /\ \A m \in Nodes \ {n} : job'[m] = job[m]
  BY <1>1, <1>2, Types
<1>7. /\ known[n] = Restored(n) \cup job[n].inserts /\ job[n].hits \subseteq Restored(n)
      /\ n \notin foreign => store[n] = known[n]
      /\ rows[t].inserts = {}
  BY <1>1, <1>2 DEF IInv, CacheInv
<1>8. \A u \in Completed(n) : u \in Own(n) /\ u < t
  <2> SUFFICES ASSUME NEW u \in Completed(n) PROVE u < t
    BY DEF Completed
  <2>1. u \in Trials /\ rows[u].status = "COMPLETE" /\ u # t
    BY <1>2 DEF Completed, Own
  <2>2. ~(t < u)
    BY <1>2, <2>1 DEF IInv, ClientInv, RowChain, Before
  <2> QED
    BY <1>2, <2>1, <2>2 DEF Trials
<1>9. MissThenHit'
  <2> SUFFICES ASSUME NEW u \in Trials, NEW k \in rows'[u].hits
               PROVE  \E v \in Own(NodeOf[u]) : v < u /\ k \in rows'[v].inserts
    BY DEF MissThenHit, Own
  <2>1. CASE u = t
    <3>1. PICK v \in Completed(n) : k \in rows[v].inserts
      BY <1>3, <1>6, <1>7, <2>1 DEF Restored
    <3>2. v \in Own(n) /\ v < t /\ v \in Trials \ {t}
      BY <1>2, <1>8, <3>1 DEF Own, Trials
    <3> QED
      BY <1>2, <1>6, <2>1, <3>1, <3>2
  <2>2. CASE u # t
    <3>1. PICK v \in Own(NodeOf[u]) : v < u /\ k \in rows[v].inserts
      BY <1>6, <2>2 DEF IInv, MissThenHit, Own
    <3>2. v \in Trials \ {t}
      BY <1>7, <3>1 DEF Own
    <3> QED
      BY <1>6, <3>1, <3>2
  <2> QED
    BY <2>1, <2>2
<1>10. /\ \A m \in Nodes \ {n} : Restored(m)' = Restored(m) /\ Ambiguous(m)' = Ambiguous(m)
       /\ Restored(n)' = Restored(n) \cup job[n].inserts
  <2>1. \A m \in Nodes \ {n} : /\ Completed(m)' = Completed(m) /\ Ambiguous(m)' = Ambiguous(m)
                               /\ \A u \in Completed(m) : rows'[u] = rows[u]
    BY <1>2, <1>6 DEF Completed, Ambiguous, Own
  <2>2. \A m \in Nodes \ {n} : Restored(m)' = Restored(m)
    BY <2>1 DEF Restored
  <2>3. /\ Completed(n)' = Completed(n) \cup {t} /\ t \notin Completed(n)
        /\ \A u \in Completed(n) : rows'[u] = rows[u]
    BY <1>2, <1>3, <1>6 DEF Completed, Own
  <2>4. Restored(n)' = Restored(n) \cup job[n].inserts
    BY <1>3, <1>6, <2>3 DEF Restored
  <2> QED
    BY <2>1, <2>2, <2>4
<1>11. CacheInv'
  <2>1. ASSUME NEW m \in Nodes, job'[m] # None
        PROVE  /\ known'[m] = Restored(m)' \cup job'[m].inserts
               /\ job'[m].hits \subseteq Restored(m)'
               /\ Repetition[job'[m].trial] = 1 => job'[m].inserts = {}
               /\ m \notin foreign' => store'[m] = known'[m]
    BY <1>1, <1>6, <1>10, <2>1 DEF IInv, CacheInv
  <2>2. ASSUME NEW m \in Nodes, Ambiguous(m)' = {}
        PROVE  /\ m \in up' => known'[m] = Restored(m)'
               /\ m \notin foreign' => store'[m] = Restored(m)'
    <3>1. CASE m = n
      BY <1>1, <1>7, <1>10, <3>1
    <3>2. CASE m # n
      BY <1>1, <1>10, <2>2, <3>2 DEF IInv, CacheInv
    <3> QED
      BY <3>1, <3>2
  <2>3. \A u \in Trials : rows'[u].status # "COMPLETE" => rows'[u].inserts = {} /\ rows'[u].hits = {}
    BY <1>3, <1>6 DEF IInv, CacheInv
  <2> QED
    BY <2>1, <2>2, <2>3 DEF CacheInv
<1> QED
  BY <1>5, <1>9, <1>11 DEF IInv

-----------------------------------------------------------------------------
(* The runner and FlowMesh.                                                *)

\* A step of the clients that sends and drops no request.
LEMMA ClientKeeps ==
    ASSUME IInv, UNCHANGED <<rows, fresh, store, up, known, waiting, job, starts, foreign>>,
           faults' \in 0 .. MaxFaults,
           flow' \in [Slots -> FlowType], runner' \in [Runs -> Slots \cup {None}],
           published' \subseteq Runs,
           \A s \in Slots : flow[s].state = "sent" => flow'[s] = flow[s],
           FlowChain', RunnerInv', PublishedIsDurable'
    PROVE  IInv'
<1>1. TypeOK'
  BY DEF IInv, TypeOK, Own, FlowType
<1>2. CallerInv'
  <2>1. ASSUME NEW n \in Nodes, NEW q \in waiting[n], q.caller # None
        PROVE  flow'[q.caller] = flow[q.caller]
    BY <2>1, RequestAt
  <2>2. ASSUME NEW n \in Nodes, job[n] # None, job[n].caller # None
        PROVE  flow'[job[n].caller] = flow[job[n].caller]
    BY <2>2, JobAt
  <2> QED
    BY <2>1, <2>2 DEF IInv, ClientInv, CallerInv
<1>3. RowChain' /\ RequestChain' /\ StartsInv' /\ MissThenHit'
  BY DEF IInv, ClientInv, RowChain, RequestChain, StartsInv, MissThenHit, Own
<1>4. CacheInv'
  BY CachesUntouched
<1> QED
  BY <1>1, <1>2, <1>3, <1>4 DEF IInv, ClientInv

\* A runner submits a new workflow.
LEMMA SubmitKeeps ==
    ASSUME IInv, NEW r \in Runs, NEW s \in Slots, Submit(r, s)
    PROVE  IInv'
<1> DEFINE g == [state |-> "ready", run |-> r, task |-> 1]
<1>1. /\ UNCHANGED <<rows, fresh, store, up, known, waiting, job, starts, foreign, published, faults>>
      /\ flow' = [flow EXCEPT ![s] = g] /\ runner' = [runner EXCEPT ![r] = s] /\ flow[s] = NoFlow
  BY DEF Submit, durable, service, history
<1>2. g \in FlowType /\ g.state = "ready" /\ g.run = r /\ g.task = 1
  BY W4Assumption DEF FlowType, Trials
<1> HIDE DEF g
<1>3. /\ flow' \in [Slots -> FlowType] /\ flow'[s] = g /\ \A x \in Slots \ {s} : flow'[x] = flow[x]
      /\ runner' \in [Runs -> Slots \cup {None}] /\ runner'[r] = s
      /\ \A x \in Runs \ {r} : runner'[x] = runner[x]
  BY <1>1, <1>2, Types
<1>4. flow[s].state = "free"
  BY <1>1 DEF NoFlow
<1>5. Before(rows, 1, r)
  BY DEF Before, Trials
<1>6. FlowChain'
  BY <1>1, <1>2, <1>3, <1>5 DEF IInv, ClientInv, FlowChain
<1>7. RunnerInv'
  BY <1>2, <1>3, <1>4 DEF IInv, ClientInv, RunnerInv
<1>8. PublishedIsDurable' /\ published' \subseteq Runs /\ faults' \in 0 .. MaxFaults
  BY <1>1 DEF IInv, PublishedIsDurable, TypeOK
<1> QED
  BY <1>1, <1>3, <1>4, <1>6, <1>7, <1>8, ClientKeeps

\* Only a workflow whose tasks all got their responses is published.
LEMMA FinishKeeps ==
    ASSUME IInv, NEW r \in Runs, Finish(r)
    PROVE  IInv'
<1> DEFINE s == runner[r]
<1>1. /\ UNCHANGED <<rows, fresh, store, up, known, waiting, job, starts, foreign, faults>>
      /\ s # None /\ flow[s].state \in {"done", "failed"}
      /\ flow' = [flow EXCEPT ![s] = NoFlow] /\ runner' = [runner EXCEPT ![r] = None]
      /\ published' = IF flow[s].state = "done" THEN published \cup {r} ELSE published
  BY DEF Finish, durable, service, history
<1>2. s \in Slots /\ flow[s].run = r
  BY <1>1, Types DEF IInv, ClientInv, RunnerInv
<1>3. NoFlow \in FlowType /\ NoFlow.state = "free"
  BY W4Assumption DEF NoFlow, FlowType, Trials
<1>4. /\ flow' \in [Slots -> FlowType] /\ flow'[s] = NoFlow
      /\ \A x \in Slots \ {s} : flow'[x] = flow[x]
      /\ runner' \in [Runs -> Slots \cup {None}] /\ runner'[r] = None
      /\ \A x \in Runs \ {r} : runner'[x] = runner[x]
  BY <1>1, <1>2, <1>3, Types
<1>5. FlowChain'
  BY <1>1, <1>3, <1>4 DEF IInv, ClientInv, FlowChain
<1>6. RunnerInv'
  BY <1>2, <1>4 DEF IInv, ClientInv, RunnerInv
<1>7. PublishedIsDurable'
  <2>1. flow[s].state = "done" => \A t \in Trials : rows[t].status = "COMPLETE" /\ rows[t].run = r
    BY <1>2, W4Assumption DEF IInv, ClientInv, FlowChain, Before, Trials
  <2> QED
    BY <1>1, <2>1 DEF IInv, PublishedIsDurable
<1>8. published' \subseteq Runs /\ faults' \in 0 .. MaxFaults
  BY <1>1 DEF IInv, TypeOK
<1>9. \A x \in Slots : flow[x].state = "sent" => flow'[x] = flow[x]
  BY <1>1, <1>4
<1> QED
  BY <1>1, <1>4, <1>5, <1>6, <1>7, <1>8, <1>9, ClientKeeps

LEMMA RunnerDiesKeeps ==
    ASSUME IInv, NEW r \in Runs, RunnerDies(r)
    PROVE  IInv'
<1>1. /\ UNCHANGED <<rows, fresh, store, up, known, waiting, job, starts, foreign, flow, published>>
      /\ runner' = [runner EXCEPT ![r] = None] /\ faults' = faults + 1 /\ faults < MaxFaults
  BY DEF RunnerDies, Fault, durable, service, history
<1>2. /\ runner' \in [Runs -> Slots \cup {None}] /\ flow' \in [Slots -> FlowType]
      /\ \A x \in Runs : runner'[x] # None => runner'[x] = runner[x]
  BY <1>1, Types
<1>3. FlowChain' /\ RunnerInv' /\ PublishedIsDurable'
  BY <1>1, <1>2 DEF IInv, ClientInv, FlowChain, RunnerInv, PublishedIsDurable
<1>4. published' \subseteq Runs /\ faults' \in 0 .. MaxFaults
  BY <1>1, W4Assumption DEF IInv, TypeOK
<1> QED
  BY <1>1, <1>2, <1>3, <1>4, ClientKeeps

LEMMA ForgetKeeps ==
    ASSUME IInv, NEW s \in Slots, Forget(s)
    PROVE  IInv'
<1>1. /\ UNCHANGED <<rows, fresh, store, up, known, waiting, job, starts, foreign, runner,
                     published, faults>>
      /\ flow[s].state \in {"done", "failed"} /\ flow' = [flow EXCEPT ![s] = NoFlow]
      /\ \A r \in Runs : runner[r] # s
  BY DEF Forget, durable, service, history
<1>2. NoFlow \in FlowType /\ NoFlow.state = "free"
  BY W4Assumption DEF NoFlow, FlowType, Trials
<1>3. /\ flow' \in [Slots -> FlowType] /\ flow'[s] = NoFlow
      /\ \A x \in Slots \ {s} : flow'[x] = flow[x]
      /\ runner' \in [Runs -> Slots \cup {None}]
  BY <1>1, <1>2, Types
<1>4. FlowChain' /\ RunnerInv' /\ PublishedIsDurable'
  BY <1>1, <1>2, <1>3, Types DEF IInv, ClientInv, FlowChain, RunnerInv, PublishedIsDurable
<1>5. published' \subseteq Runs /\ faults' \in 0 .. MaxFaults
  BY <1>1 DEF IInv, TypeOK
<1>6. \A x \in Slots : flow[x].state = "sent" => flow'[x] = flow[x]
  BY <1>1, <1>3
<1> QED
  BY <1>1, <1>3, <1>4, <1>5, <1>6, ClientKeeps

\* A task sends its request: no other request has the same caller.
LEMMA DispatchKeeps ==
    ASSUME IInv, NEW s \in Slots, Dispatch(s)
    PROVE  IInv'
<1> DEFINE n == NodeOf[flow[s].task]
<1>1. /\ UNCHANGED <<rows, fresh, store, up, known, job, starts, foreign, runner, published, faults>>
      /\ flow[s].state = "ready"
  BY DEF Dispatch, durable, history
<1>2. /\ flow[s] \in FlowType /\ flow[s].run \in Runs /\ flow[s].task \in Trials /\ n \in Nodes
      /\ Before(rows, flow[s].task, flow[s].run)
  <2>1. flow[s] \in FlowType
    BY Types
  <2> QED
    BY <1>1, <2>1, W4Assumption DEF IInv, ClientInv, FlowChain, FlowType
<1>3. published' \subseteq Runs /\ faults' \in 0 .. MaxFaults /\ runner' \in [Runs -> Slots \cup {None}]
  BY <1>1, Types DEF IInv, TypeOK
<1>4. PICK state \in {"sent", "failed"} :
         /\ flow' = [flow EXCEPT ![s].state = state]
         /\ state = "failed" => waiting' = waiting
         /\ state = "sent" =>
              waiting' = [waiting EXCEPT ![n] = waiting[n] \cup
                {[trial |-> flow[s].task, run |-> flow[s].run, caller |-> s]}]
  BY DEF Dispatch
<1> DEFINE g == [flow[s] EXCEPT !.state = state]
<1>5. /\ g \in FlowType /\ g.state = state /\ g.run = flow[s].run /\ g.task = flow[s].task
      /\ flow' = [flow EXCEPT ![s] = g]
  BY <1>2, <1>4 DEF FlowType
<1> HIDE DEF g
<1>6. /\ flow' \in [Slots -> FlowType] /\ flow'[s] = g
      /\ \A x \in Slots \ {s} : flow'[x] = flow[x]
  BY <1>5, Types
<1>7. FlowChain'
  BY <1>1, <1>2, <1>4, <1>5, <1>6 DEF IInv, ClientInv, FlowChain
<1>8. RunnerInv'
  BY <1>1, <1>4, <1>5, <1>6, Types DEF IInv, ClientInv, RunnerInv
<1>9. PublishedIsDurable' /\ StartsInv' /\ MissThenHit' /\ RowsGrow
  BY <1>1, RowsUntouched
<1>10. CASE state = "failed"
  <2>1. waiting' = waiting /\ \A x \in Slots : flow[x].state = "sent" => flow'[x] = flow[x]
    BY <1>1, <1>4, <1>6, <1>10
  <2> QED
    BY <1>1, <1>3, <1>6, <1>7, <1>8, <1>9, <2>1, ClientKeeps
<1>11. CASE state = "sent"
  <2> DEFINE q == [trial |-> flow[s].task, run |-> flow[s].run, caller |-> s]
  <2>1. /\ q \in RequestType /\ q.trial = flow[s].task /\ q.run = flow[s].run /\ q.caller = s
        /\ waiting' = [waiting EXCEPT ![n] = waiting[n] \cup {q}]
    BY <1>2, <1>4, <1>11 DEF RequestType
  <2> HIDE DEF q
  <2>2. /\ waiting' \in [Nodes -> SUBSET RequestType]
        /\ waiting'[n] = waiting[n] \cup {q}
        /\ \A m \in Nodes \ {n} : waiting'[m] = waiting[m]
    BY <1>2, <2>1, Types
  <2>3. s # None /\ \A m \in Nodes : /\ \A p \in waiting[m] : p.caller # s
                                     /\ job[m] # None => job[m].caller # s
    BY <1>1, RequestAt, JobAt, W4Assumption
  <2>4. \A m \in Nodes : \A p \in waiting'[m] :
            p \in waiting[m] \/ (p = q /\ m = n)
    BY <2>2
  <2>5. TypeOK'
    <3>1. \A m \in Nodes : \A p \in waiting'[m] : p.trial \in Own(m)
      BY <1>2, <2>1, <2>4 DEF IInv, TypeOK, Own
    <3>2. /\ up \subseteq Nodes /\ fresh \subseteq Nodes /\ foreign \subseteq Nodes
          /\ rows \in [Trials -> RowType]
          /\ \A m \in Nodes : job[m] # None =>
                m \in up /\ job[m].trial \in Own(m) /\ rows[job[m].trial].status = "RUNNING"
      BY Types DEF IInv, TypeOK
    <3> QED
      BY <1>1, <1>3, <1>6, <2>2, <3>1, <3>2, Types DEF TypeOK, Own, FlowType, RowType, Statuses
  <2>6. RequestChain'
    BY <1>1, <1>2, <2>1, <2>4 DEF IInv, ClientInv, RequestChain
  <2>7. CallerInv'
    <3>1. ASSUME NEW m \in Nodes, NEW p \in waiting'[m], p.caller # None
          PROVE  /\ flow'[p.caller].state = "sent"
                 /\ flow'[p.caller].task = p.trial /\ flow'[p.caller].run = p.run
      <4>1. CASE p \in waiting[m]
        BY <1>6, <2>3, <3>1, <4>1, RequestAt
      <4>2. CASE p = q
        BY <1>5, <1>6, <1>11, <2>1, <4>2
      <4> QED
        BY <2>4, <4>1, <4>2
    <3>2. ASSUME NEW m \in Nodes, job'[m] # None, job'[m].caller # None
          PROVE  /\ flow'[job'[m].caller].state = "sent"
                 /\ flow'[job'[m].caller].task = job'[m].trial
                 /\ flow'[job'[m].caller].run = rows'[job'[m].trial].run
                 /\ \A p \in waiting'[m] : p.caller # job'[m].caller
      BY <1>1, <1>6, <2>1, <2>3, <2>4, <3>2, JobAt
    <3> QED
      BY <3>1, <3>2 DEF CallerInv
  <2>8. RowChain' /\ CacheInv'
    BY <1>1, CachesUntouched DEF IInv, ClientInv, RowChain
  <2> QED
    BY <1>7, <1>8, <1>9, <2>5, <2>6, <2>7, <2>8 DEF IInv, ClientInv
<1> QED
  BY <1>10, <1>11

\* A task that has timed out: its request goes on without a caller.
LEMMA TimeoutKeeps ==
    ASSUME IInv, NEW s \in Slots, Timeout(s)
    PROVE  IInv'
<1> DEFINE n == NodeOf[flow[s].task]
           g == [flow[s] EXCEPT !.state = "failed"]
           j == IF job[n] = None THEN None ELSE Dropped(job[n], s)
<1>1. /\ UNCHANGED <<rows, fresh, store, up, known, starts, foreign, runner, published>>
      /\ flow[s].state = "sent" /\ faults' = faults + 1 /\ faults < MaxFaults
      /\ flow' = [flow EXCEPT ![s] = g]
      /\ waiting' = [waiting EXCEPT ![n] = {Dropped(q, s) : q \in waiting[n]}]
      /\ job' = [job EXCEPT ![n] = j]
  BY DEF Timeout, Fault, durable, history
<1>2. /\ flow[s] \in FlowType /\ flow[s].run \in Runs /\ n \in Nodes
      /\ Before(rows, flow[s].task, flow[s].run)
  <2>1. flow[s] \in FlowType
    BY Types
  <2> QED
    BY <1>1, <2>1, W4Assumption DEF IInv, ClientInv, FlowChain, FlowType
<1>3. g \in FlowType /\ g.state = "failed" /\ g.run = flow[s].run /\ g.task = flow[s].task
  BY <1>2 DEF FlowType
<1> HIDE DEF g
<1>4. /\ flow' \in [Slots -> FlowType] /\ flow'[s] = g
      /\ \A x \in Slots \ {s} : flow'[x] = flow[x]
  BY <1>1, <1>3, Types
<1>5. \A q \in RequestType :
         /\ Dropped(q, s) \in RequestType /\ Dropped(q, s).trial = q.trial
         /\ Dropped(q, s).run = q.run
         /\ Dropped(q, s).caller = IF q.caller = s THEN None ELSE q.caller
  BY DEF RequestType, Dropped
<1>6. job[n] # None =>
         /\ Dropped(job[n], s) \in JobType /\ Dropped(job[n], s).trial = job[n].trial
         /\ Dropped(job[n], s).inserts = job[n].inserts /\ Dropped(job[n], s).hits = job[n].hits
         /\ Dropped(job[n], s).caller = IF job[n].caller = s THEN None ELSE job[n].caller
  <2> SUFFICES ASSUME NEW x \in JobType
               PROVE  /\ Dropped(x, s) \in JobType /\ Dropped(x, s).trial = x.trial
                      /\ Dropped(x, s).inserts = x.inserts /\ Dropped(x, s).hits = x.hits
                      /\ Dropped(x, s).caller = IF x.caller = s THEN None ELSE x.caller
    BY <1>2, JobAt
  <2> QED
    BY DEF JobType, Dropped
<1>7. /\ j \in JobType \cup {None}
      /\ j # None => /\ job[n] # None /\ j.trial = job[n].trial /\ j.inserts = job[n].inserts
                     /\ j.hits = job[n].hits
                     /\ j.caller = IF job[n].caller = s THEN None ELSE job[n].caller
  BY <1>6
<1> HIDE DEF j
<1>8. /\ job' \in [Nodes -> JobType \cup {None}] /\ job'[n] = j
      /\ \A m \in Nodes \ {n} : job'[m] = job[m]
  BY <1>1, <1>2, <1>7, Types
<1>9. \A m \in Nodes : job'[m] # None =>
         /\ job[m] # None /\ job'[m].trial = job[m].trial
         /\ job'[m].inserts = job[m].inserts /\ job'[m].hits = job[m].hits
         /\ job'[m].caller # None => job'[m].caller = job[m].caller /\ job'[m].caller # s
  <2> SUFFICES ASSUME NEW m \in Nodes, job'[m] # None
               PROVE  /\ job[m] # None /\ job'[m].trial = job[m].trial
                      /\ job'[m].inserts = job[m].inserts /\ job'[m].hits = job[m].hits
                      /\ job'[m].caller # None => job'[m].caller = job[m].caller /\ job'[m].caller # s
    OBVIOUS
  <2>1. CASE m = n
    BY <1>7, <1>8, <2>1
  <2>2. CASE m # n
    <3>1. job'[m] = job[m]
      BY <1>8, <2>2
    <3>2. job[m].caller # None => job[m].caller # s
      BY <2>2, <3>1, JobAt
    <3> QED
      BY <3>1, <3>2
  <2> QED
    BY <2>1, <2>2
<1>10. /\ waiting'[n] = {Dropped(q, s) : q \in waiting[n]}
       /\ \A m \in Nodes \ {n} : waiting'[m] = waiting[m]
       /\ waiting' \in [Nodes -> SUBSET RequestType]
  BY <1>1, <1>2, <1>5, Types
<1>11. ASSUME NEW m \in Nodes, NEW p \in waiting'[m]
       PROVE  \E q \in waiting[m] : /\ p.trial = q.trial /\ p.run = q.run
                                    /\ p.caller # None => p.caller = q.caller /\ p.caller # s
  <2>1. CASE m = n
    <3>1. PICK q \in waiting[n] : p = Dropped(q, s)
      BY <1>10, <1>11, <2>1
    <3>2. q \in RequestType
      BY <1>2, RequestAt
    <3> QED
      BY <1>5, <2>1, <3>1, <3>2
  <2>2. CASE m # n
    <3>1. p \in waiting[m]
      BY <1>10, <1>11, <2>2
    <3>2. p.caller # None => p.caller # s
      BY <2>2, <3>1, RequestAt
    <3> QED
      BY <3>1, <3>2
  <2> QED
    BY <2>1, <2>2
<1>12. TypeOK'
  <2>1. \A m \in Nodes : \A p \in waiting'[m] : p.trial \in Own(m)
    BY <1>11 DEF IInv, TypeOK, Own
  <2>2. \A m \in Nodes : job'[m] # None =>
            m \in up /\ job'[m].trial \in Own(m) /\ rows[job'[m].trial].status = "RUNNING"
    BY <1>9 DEF IInv, TypeOK, Own
  <2>3. /\ up \subseteq Nodes /\ fresh \subseteq Nodes /\ foreign \subseteq Nodes
        /\ published \subseteq Runs /\ faults' \in 0 .. MaxFaults
    BY <1>1, W4Assumption DEF IInv, TypeOK
  <2> QED
    BY <1>1, <1>4, <1>8, <1>10, <2>1, <2>2, <2>3, Types DEF TypeOK, Own, FlowType, RowType, Statuses
<1>13. RequestChain'
  <2> SUFFICES ASSUME NEW m \in Nodes, NEW p \in waiting'[m]
               PROVE  Before(rows', p.trial, p.run)
    BY DEF RequestChain, Before
  <2>1. PICK q \in waiting[m] : p.trial = q.trial /\ p.run = q.run
    BY <1>11
  <2> QED
    BY <1>1, <2>1, RequestAt
<1>14. CallerInv'
  <2>1. ASSUME NEW m \in Nodes, NEW p \in waiting'[m], p.caller # None
        PROVE  /\ flow'[p.caller].state = "sent"
               /\ flow'[p.caller].task = p.trial /\ flow'[p.caller].run = p.run
    <3>1. PICK q \in waiting[m] : /\ p.trial = q.trial /\ p.run = q.run
                                  /\ p.caller = q.caller /\ p.caller # s
      BY <1>11, <2>1
    <3> QED
      BY <1>4, <2>1, <3>1, RequestAt
  <2>2. ASSUME NEW m \in Nodes, job'[m] # None, job'[m].caller # None
        PROVE  /\ flow'[job'[m].caller].state = "sent"
               /\ flow'[job'[m].caller].task = job'[m].trial
               /\ flow'[job'[m].caller].run = rows'[job'[m].trial].run
               /\ \A p \in waiting'[m] : p.caller # job'[m].caller
    <3>1. /\ job[m] # None /\ job'[m].trial = job[m].trial
          /\ job'[m].caller = job[m].caller /\ job[m].caller # s /\ job[m].caller # None
      BY <1>9, <2>2
    <3>2. job[m].caller \in Slots
      BY <3>1, JobAt
    <3>3. flow'[job[m].caller] = flow[job[m].caller]
      BY <1>4, <3>1, <3>2
    <3>4. \A p \in waiting'[m] : p.caller # job[m].caller
      BY <1>11, <3>1, JobAt
    <3> QED
      BY <1>1, <3>1, <3>3, <3>4, JobAt
  <2> QED
    BY <2>1, <2>2 DEF CallerInv
<1>15. FlowChain' /\ RunnerInv'
  BY <1>1, <1>2, <1>3, <1>4, Types DEF IInv, ClientInv, FlowChain, RunnerInv
<1>16. RowChain' /\ CacheInv'
  BY <1>1, <1>9, CachesUntouched DEF IInv, ClientInv, RowChain
<1>17. PublishedIsDurable' /\ StartsInv' /\ MissThenHit'
  BY <1>1, RowsUntouched
<1> QED
  BY <1>12, <1>13, <1>14, <1>15, <1>16, <1>17 DEF IInv, ClientInv

-----------------------------------------------------------------------------
(* The theorems.                                                           *)

LEMMA InitIInv == Init => IInv
<1> SUFFICES ASSUME Init PROVE IInv
  OBVIOUS
<1> USE W4Assumption
<1>1. \A t \in Trials : /\ rows[t] = NoRow /\ NoRow \in RowType /\ NoRow.status = "NONE"
                        /\ NoRow.inserts = {} /\ NoRow.hits = {} /\ starts[t] = 0
  BY DEF Init, NoRow, RowType, Statuses
<1>2. NoFlow \in FlowType /\ NoFlow.state = "free"
  BY DEF NoFlow, FlowType, Trials
<1>3. TypeOK
  <2>1. rows \in [Trials -> RowType] /\ flow \in [Slots -> FlowType]
    BY <1>1, <1>2 DEF Init
  <2> QED
    BY <2>1 DEF Init, TypeOK, RowType, Statuses, FlowType
<1>4. ClientInv
  BY <1>1, <1>2 DEF Init, ClientInv, RowChain, RequestChain, FlowChain, CallerInv, RunnerInv
<1>5. StartsInv /\ PublishedIsDurable /\ MissThenHit
  BY <1>1 DEF Init, StartsInv, PublishedIsDurable, MissThenHit
<1>6. CacheInv
  <2>1. \A n \in Nodes : Restored(n) = {} /\ job[n] = None /\ store[n] = {} /\ up = {}
    BY <1>1 DEF Init, Restored, Completed, Own
  <2> QED
    BY <1>1, <2>1 DEF CacheInv
<1> QED
  BY <1>3, <1>4, <1>5, <1>6 DEF IInv

LEMMA StutterKeeps ==
    ASSUME IInv, UNCHANGED vars
    PROVE  IInv'
<1>1. UNCHANGED <<rows, fresh, store, up, known, waiting, job, flow, runner, published, starts,
                  foreign, faults>>
  BY DEF vars, durable, service, clients, history
<1>2. TypeOK'
  BY <1>1 DEF IInv, TypeOK, Own
<1>3. ClientInv' /\ CacheInv'
  BY <1>1, ClientsUntouched, CachesUntouched
<1> QED
  BY <1>1, <1>2, <1>3, RowsUntouched DEF IInv

LEMMA IInvStep == IInv /\ [Next]_vars => IInv'
<1> SUFFICES ASSUME IInv, [Next]_vars PROVE IInv'
  OBVIOUS
<1>1. ASSUME NEW n \in Nodes, Start(n) \/ Execute(n) PROVE IInv'
  BY <1>1, StartKeeps, RankKeeps, HitKeeps, InsertKeeps, RejectKeeps, CompleteKeeps DEF Execute
<1>2. ASSUME NEW n \in Nodes, NEW q \in waiting[n], Serve(n, q) PROVE IInv'
  BY <1>2, ReplayKeeps, BeginKeeps DEF Serve
<1>3. ASSUME NEW n \in Nodes, Crash(n) \/ OperationFails(n) \/ Touch(n) PROVE IInv'
  BY <1>3, CrashKeeps, OperationFailsKeeps, TouchKeeps
<1>4. ASSUME NEW s \in Slots, Mesh(s) \/ Timeout(s) PROVE IInv'
  BY <1>4, DispatchKeeps, ForgetKeeps, TimeoutKeeps DEF Mesh
<1>5. ASSUME NEW r \in Runs, Run(r) \/ RunnerDies(r) PROVE IInv'
  BY <1>5, FinishKeeps, SubmitKeeps, RunnerDiesKeeps DEF Run
<1> QED
  BY <1>1, <1>2, <1>3, <1>4, <1>5, StutterKeeps DEF Next

\* The chains of rows, requests and workflows, and what the caches hold, are
\* kept by every step of coordinators, FlowMesh and runners.
THEOREM Invariance == Spec => []IInv
BY InitIInv, IInvStep, PTL DEF Spec

\* Every trial is executed at most once, all for one run, and only complete
\* runs are published: the RUNNING row comes before the first operation and is
\* never removed, and a task is sent only after its predecessor's response.
THEOREM ExecutesOnce == Spec => []OneExecution
<1>1. IInv => OneExecution
  <2> SUFFICES ASSUME IInv PROVE OneExecution
    OBVIOUS
  <2>1. OneRun
    <3> SUFFICES ASSUME NEW t \in Trials, NEW u \in Trials,
                        rows[t].status # "NONE", rows[u].status # "NONE"
                 PROVE  rows[t].run = rows[u].run
      BY DEF OneRun
    <3>1. Before(rows, t, rows[t].run) /\ Before(rows, u, rows[u].run)
      BY DEF IInv, ClientInv, RowChain
    <3>2. t < u \/ u < t \/ t = u
      BY DEF Trials
    <3> QED
      BY <3>1, <3>2 DEF Before
  <2>2. ExecutedOnce
    BY DEF IInv, StartsInv, ExecutedOnce
  <2> QED
    BY <2>1, <2>2 DEF IInv, OneExecution
<1> QED
  BY <1>1, Invariance, PTL

\* A coordinator without an ambiguous execution has the cache its responses
\* describe, and a response says hit only for what was inserted before, over
\* restarts, failed insertions and foreign changes of the cache.
THEOREM HonestCache == Spec => []CacheIsHonest
<1>1. IInv => CacheIsHonest
  BY DEF IInv, CacheInv, CacheIsHonest, CacheIsReplayed
<1> QED
  BY <1>1, Invariance, PTL
=============================================================================
