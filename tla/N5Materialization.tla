-------------------------- MODULE N5Materialization --------------------------
(***************************************************************************)
(* The two N5 services: frame bundles (N5MaterializationHttpService of     *)
(* simulator/n5_materialization.py, over SQLite) and vision digests        *)
(* (N5DigestHTTPService of simulator/n5_digest_http.py, over files).       *)
(*                                                                         *)
(* Bundles are deterministic: concurrent requests with one id wait for one *)
(* execution, and an execution that was cut short is repeated.  Digests    *)
(* come from a model that never answers twice the same: one lock           *)
(* serializes them, and the first one installed must stay.                 *)
(***************************************************************************)
EXTENDS Naturals, FiniteSets

CONSTANTS
    FramePlans,     \* frozen plans: id, source and the expected output
    DigestRequests, \* id, plan and the source the plan names
    Digests,        \* what the vision model may answer
    Registries,     \* the sets of digest plans a service may be started with
    Threads,        \* handler threads, one call each
    None,
    MaxFaults       \* bound on the failures and deaths explored

LedgerRows == [plan : FramePlans, status : {"RUNNING", "COMPLETE"}, epoch : 0 .. MaxFaults]
MemoryRows == [plan : FramePlans, made : BOOLEAN]
OutputRows == [plan : UNION Registries, digest : Digests]

ASSUME N5Assumption ==
    /\ None \notin FramePlans \cup DigestRequests \cup Digests \cup Threads
    /\ None \notin LedgerRows \cup MemoryRows \cup OutputRows
    /\ FramePlans \cap DigestRequests = {}
    /\ {} \notin Registries /\ UNION Registries = {r.plan : r \in DigestRequests}
    /\ MaxFaults \in Nat

VARIABLES
    staged,         \* staged_sources
    bundles,        \* materialized_results
    ledger,         \* materialization_requests, by request_id
    inflight,       \* the service's _inflight
    memory,         \* the runtime's _states, by idempotency_key
    epoch,          \* runtime_epoch of the frame service
    stuck,          \* ids whose roll-back failed in this epoch
    sources,        \* sources/ of the digest service
    outputs,        \* outputs/<request_id>
    records,        \* requests/<request_id>.json
    registry,       \* the plans the digest service was started with
    digestLock,     \* the digest service's _lock
    thread,         \* each thread: its next step, its request, its digest
    told,           \* the answers that were sent
    calls,          \* calls of the vision model for an id
    faults

frameVars == <<staged, bundles, ledger, inflight, memory, epoch, stuck>>
digestVars == <<sources, outputs, records, registry, digestLock, calls>>
n5Vars == <<frameVars, digestVars, thread, told, faults>>

FrameIds == {p.id : p \in FramePlans}
DigestIds == {r.id : r \in DigestRequests}
SourcesOf(plans) == {r.source : r \in {q \in DigestRequests : q.plan \in plans}}

Waits == [pc |-> "idle", call |-> None, digest |-> None]
InThread(h, step) == thread[h].pc = step
Executing(i) ==
    {h \in Threads : thread[h].pc \in {"run", "complete", "raise"} /\ thread[h].call.id = i}
DigestSteps == {"enter", "model", "install", "record"}

InitN5 ==
    /\ staged = {} /\ bundles = {} /\ inflight = {} /\ epoch = 0 /\ stuck = {}
    /\ ledger = [i \in FrameIds |-> None]
    /\ memory = [i \in FrameIds |-> None]
    /\ sources = {} /\ digestLock = None
    /\ outputs = [i \in DigestIds |-> None]
    /\ records = [i \in DigestIds |-> None]
    /\ registry \in Registries
    /\ thread = [h \in Threads |-> Waits]
    /\ told = {}
    /\ calls = [i \in DigestIds |-> 0]
    /\ faults = 0

Fail == faults < MaxFaults /\ faults' = faults + 1

Begin(h, step, call) ==
    thread' = [thread EXCEPT ![h] = [pc |-> step, call |-> call, digest |-> None]]

Goto(h, step) == thread' = [thread EXCEPT ![h].pc = step]

\* The call ends; what it answers, if anything, has reached the client or not.
Finish(h) == thread' = [thread EXCEPT ![h] = Waits]
Tell(call, output) == told' = told \cup {[call |-> call, output |-> output]}

-----------------------------------------------------------------------------
(* Frame bundles.                                                          *)

StageSource(s) ==
    /\ s \notin staged
    /\ staged' = staged \cup {s}
    /\ UNCHANGED <<bundles, ledger, inflight, memory, epoch, stuck,
                   digestVars, thread, told, faults>>

SubmitFrames(h, p) ==
    /\ InThread(h, "idle")
    /\ Begin(h, "claim", p)
    /\ UNCHANGED <<frameVars, digestVars, told, faults>>

Running(p) == [plan |-> p, status |-> "RUNNING", epoch |-> epoch]

\* A new id, or one whose execution this process does not have.
Claimable(p) ==
    ledger[p.id] # None => ledger[p.id].status = "RUNNING" /\ p.id \notin inflight

\* One turn of the loop of execute, under the condition and in a transaction.
Claim(h) ==
    LET p == thread[h].call
        row == ledger[p.id]
        refused == p.source \notin staged \/ (row # None /\ row.plan # p)
    IN  /\ InThread(h, "claim")
        /\ \/ refused /\ Finish(h) /\ UNCHANGED <<ledger, inflight, told>>
           \/ /\ ~refused /\ row # None /\ row.status = "COMPLETE"
              /\ Tell(p, p.output) /\ Finish(h)
              /\ UNCHANGED <<ledger, inflight>>
           \/ /\ ~refused /\ Claimable(p)
              /\ ledger' = [ledger EXCEPT ![p.id] = Running(p)]
              /\ inflight' = inflight \cup {p.id}
              /\ Goto(h, "run")
              /\ UNCHANGED told
           \/ /\ ~refused /\ row # None /\ row.status = "RUNNING" /\ ~Claimable(p)
              /\ Goto(h, "waiting")
              /\ UNCHANGED <<ledger, inflight, told>>
        /\ UNCHANGED <<staged, bundles, memory, epoch, stuck, digestVars, faults>>

\* The runtime binds the id to the plan in memory, and keeps the binding when
\* the execution fails; a bundle it has made already is given again.
RunPlan(h) ==
    LET p == thread[h].call IN
    /\ InThread(h, "run")
    /\ IF memory[p.id] # None /\ memory[p.id].plan # p
       THEN Goto(h, "raise") /\ UNCHANGED memory
       ELSE /\ memory' = [memory EXCEPT ![p.id] = [plan |-> p, made |-> TRUE]]
            /\ Goto(h, "complete")
    /\ UNCHANGED <<staged, bundles, ledger, inflight, epoch, stuck, digestVars, told, faults>>

\* The source cannot be decoded, or the bundle is not the frozen one.
RunFails(h) ==
    LET p == thread[h].call IN
    /\ InThread(h, "run") /\ Fail
    /\ memory[p.id] = None \/ memory[p.id] = [plan |-> p, made |-> FALSE]
    /\ memory' = [memory EXCEPT ![p.id] = [plan |-> p, made |-> FALSE]]
    /\ Goto(h, "raise")
    /\ UNCHANGED <<staged, bundles, ledger, inflight, epoch, stuck, digestVars, told>>

\* notify_all: the thread ends, and every waiting one looks again.
EndAndNotify(h) ==
    thread' = [g \in Threads |->
        CASE g = h -> Waits
          [] g # h /\ InThread(g, "waiting") -> [thread[g] EXCEPT !.pc = "claim"]
          [] OTHER -> thread[g]]

\* The result and the row in one transaction, if the row is still this one's.
CompleteFrames(h) ==
    LET p == thread[h].call IN
    /\ InThread(h, "complete")
    /\ IF ledger[p.id] = Running(p)
       THEN /\ bundles' = bundles \cup {p.output}
            /\ ledger' = [ledger EXCEPT ![p.id].status = "COMPLETE"]
            /\ inflight' = inflight \ {p.id}
            /\ Tell(p, p.output)
            /\ EndAndNotify(h)
       ELSE /\ Goto(h, "raise")
            /\ UNCHANGED <<bundles, ledger, inflight, told>>
    /\ UNCHANGED <<staged, memory, epoch, stuck, digestVars, faults>>

CompleteFails(h) ==
    /\ InThread(h, "complete") /\ Fail
    /\ Goto(h, "raise")
    /\ UNCHANGED <<frameVars, digestVars, told>>

\* Mutant: the except block forgets the id in _inflight.
RollBackRowOnly(h) ==
    LET p == thread[h].call IN
    /\ InThread(h, "raise")
    /\ ledger' = IF ledger[p.id] = Running(p) THEN [ledger EXCEPT ![p.id] = None] ELSE ledger
    /\ EndAndNotify(h)
    /\ UNCHANGED <<staged, bundles, inflight, memory, epoch, stuck, digestVars, told, faults>>

\* The except block removes the row and wakes the others ...
RollBack(h) ==
    LET p == thread[h].call IN
    /\ InThread(h, "raise")
    /\ ledger' = IF ledger[p.id] = Running(p) THEN [ledger EXCEPT ![p.id] = None] ELSE ledger
    /\ inflight' = inflight \ {p.id}
    /\ EndAndNotify(h)
    /\ UNCHANGED <<staged, bundles, memory, epoch, stuck, digestVars, told, faults>>

\* ... unless its transaction fails too: then the id stays in _inflight.
RollBackFails(h) ==
    /\ InThread(h, "raise") /\ Fail
    /\ stuck' = stuck \cup {thread[h].call.id}
    /\ Finish(h)
    /\ UNCHANGED <<staged, bundles, ledger, inflight, memory, epoch, digestVars, told>>

\* The frame service dies and is started again over its database.
FramesDie ==
    /\ Fail
    /\ epoch' = epoch + 1
    /\ inflight' = {} /\ stuck' = {}
    /\ memory' = [i \in FrameIds |-> None]
    /\ thread' = [h \in Threads |->
          IF thread[h].pc \in DigestSteps THEN thread[h] ELSE Waits]
    /\ UNCHANGED <<staged, bundles, ledger, digestVars, told>>

FrameStep(h) ==
    \/ Claim(h) \/ RunPlan(h) \/ CompleteFrames(h) \/ RollBack(h)

FrameFault(h) == RunFails(h) \/ CompleteFails(h) \/ RollBackFails(h)

-----------------------------------------------------------------------------
(* Vision digests.                                                         *)

\* stage_source_stream: a registered source, verified and renamed under the lock.
UploadSource(s) ==
    /\ s \in SourcesOf(registry) \ sources
    /\ digestLock = None
    /\ sources' = sources \cup {s}
    /\ UNCHANGED <<frameVars, outputs, records, registry, digestLock, calls,
                   thread, told, faults>>

SubmitDigest(h, r) ==
    /\ InThread(h, "idle")
    /\ r.plan \in registry /\ r.source \in sources
    /\ Begin(h, "enter", r)
    /\ UNCHANGED <<frameVars, digestVars, told, faults>>

\* verify_n5_multimodal_digest_materialization
Verifiable(r) == outputs[r.id] # None /\ outputs[r.id].plan = r.plan /\ r.source \in sources

\* What execute does once it has the lock: a recorded request is answered
\* again, an output without a record is recorded, and only then is the model
\* called.
AfterLookup(r) ==
    CASE records[r.id] # None /\ records[r.id] # r -> "refuse"
      [] records[r.id] = r -> IF Verifiable(r) THEN "answer" ELSE "refuse"
      [] records[r.id] = None /\ outputs[r.id] # None ->
            IF Verifiable(r) THEN "record" ELSE "refuse"
      [] OTHER -> "model"

EnterDigest(h) ==
    LET r == thread[h].call
        next == AfterLookup(r)
    IN  /\ InThread(h, "enter") /\ digestLock = None
        /\ CASE next = "answer" -> Tell(r, outputs[r.id].digest) /\ Finish(h)
             [] next = "refuse" -> Finish(h) /\ UNCHANGED told
             [] OTHER -> Goto(h, next) /\ UNCHANGED told
        /\ digestLock' = IF next \in {"model", "record"} THEN h ELSE None
        /\ UNCHANGED <<frameVars, sources, outputs, records, registry, calls, faults>>

CallModel(h) ==
    /\ InThread(h, "model")
    /\ calls' = [calls EXCEPT ![thread[h].call.id] = @ + 1]
    /\ \E d \in Digests :
          thread' = [thread EXCEPT ![h].pc = "install", ![h].digest = d]
    /\ UNCHANGED <<frameVars, sources, outputs, records, registry, digestLock, told, faults>>

\* The rename of the complete directory, to a name that must be free.
InstallDigest(h) ==
    LET r == thread[h].call IN
    /\ InThread(h, "install") /\ outputs[r.id] = None
    /\ outputs' = [outputs EXCEPT ![r.id] = [plan |-> r.plan, digest |-> thread[h].digest]]
    /\ Goto(h, "record")
    /\ UNCHANGED <<frameVars, sources, records, registry, digestLock, calls, told, faults>>

WriteRecord(h) ==
    LET r == thread[h].call IN
    /\ InThread(h, "record")
    /\ records' = [records EXCEPT ![r.id] = r]
    /\ Tell(r, outputs[r.id].digest)
    /\ Finish(h) /\ digestLock' = None
    /\ UNCHANGED <<frameVars, sources, outputs, registry, calls, faults>>

\* The model, the disk or the check of the digest fails: the lock is released.
DigestFails(h) ==
    /\ thread[h].pc \in DigestSteps \ {"enter"} /\ Fail
    /\ Finish(h) /\ digestLock' = None
    /\ UNCHANGED <<frameVars, sources, outputs, records, registry, calls, told>>

\* Mutant: the outputs of plans that are not registered are removed too.
DigestDiesPurging(plans) ==
    /\ Fail
    /\ registry' = plans
    /\ sources' = sources \cap SourcesOf(plans)
    /\ outputs' = [i \in DigestIds |->
          IF outputs[i] # None /\ outputs[i].plan \in plans THEN outputs[i] ELSE None]
    /\ digestLock' = None
    /\ thread' = [h \in Threads |->
          IF thread[h].pc \in DigestSteps THEN Waits ELSE thread[h]]
    /\ UNCHANGED <<frameVars, records, calls, told>>

\* The digest service dies and is started with a registry; _reconcile_sources
\* removes the sources that no plan of it names.
DigestDies(plans) ==
    /\ Fail
    /\ registry' = plans
    /\ sources' = sources \cap SourcesOf(plans)
    /\ digestLock' = None
    /\ thread' = [h \in Threads |->
          IF thread[h].pc \in DigestSteps THEN Waits ELSE thread[h]]
    /\ UNCHANGED <<frameVars, outputs, records, calls, told>>

DigestStep(h) == EnterDigest(h) \/ CallModel(h) \/ InstallDigest(h) \/ WriteRecord(h)

-----------------------------------------------------------------------------
\* What a client can download: a stored bundle, or the digest of a recorded
\* request whose plan is registered and whose source is staged (result).
Downloadable ==
    bundles \cup {outputs[r.id].digest : r \in {q \in DigestRequests :
                     records[q.id] = q /\ q.plan \in registry /\ Verifiable(q)}}

N5Internal ==
    \/ \E s \in {p.source : p \in FramePlans} : StageSource(s)
    \/ \E s \in {r.source : r \in DigestRequests} : UploadSource(s)
    \/ \E h \in Threads : \/ FrameStep(h) \/ FrameFault(h)
                          \/ DigestStep(h) \/ DigestFails(h)
    \/ FramesDie
    \/ \E plans \in Registries : DigestDies(plans)

-----------------------------------------------------------------------------
N5TypeOK ==
    /\ staged \subseteq {p.source : p \in FramePlans}
    /\ bundles \subseteq {p.output : p \in FramePlans}
    /\ ledger \in [FrameIds -> LedgerRows \cup {None}]
    /\ memory \in [FrameIds -> MemoryRows \cup {None}]
    /\ stuck \subseteq inflight /\ inflight \subseteq FrameIds
    /\ outputs \in [DigestIds -> OutputRows \cup {None}]
    /\ records \in [DigestIds -> DigestRequests \cup {None}]
    /\ registry \in Registries /\ sources \subseteq SourcesOf(registry)
    /\ digestLock \in Threads \cup {None}
    /\ faults \in 0 .. MaxFaults

\* All answers given for an id agree, over concurrent requests, reused ids,
\* failures and deaths of both services: they are about one request, and about
\* the output that is durable.  The vision model, which would answer otherwise
\* the next time, is asked again only after a failure or a death, and for no id
\* that has an output ("A completed request therefore survives a service
\* restart").
N5AnswersAgree ==
    /\ N5TypeOK
    /\ \A a \in told :
          IF a.call \in FramePlans
          THEN /\ ledger[a.call.id].plan = a.call
               /\ ledger[a.call.id].status = "COMPLETE"
               /\ a.output \in bundles
          ELSE /\ records[a.call.id] = a.call
               /\ outputs[a.call.id] = [plan |-> a.call.plan, digest |-> a.output]
    /\ \A i \in DigestIds : calls[i] <= 1 + faults
    /\ \A h \in Threads :
          thread[h].pc \in {"model", "install"} => outputs[thread[h].call.id] = None

\* No request waits for nothing: an id in flight has exactly one thread that
\* will complete it or roll it back, and wake the others.  The exception is a
\* roll-back that fails itself: its id waits until the service is restarted
\* ("the in-process condition serializes duplicate live requests").
ClaimsAreOwned ==
    /\ \A i \in inflight \ stuck : Cardinality(Executing(i)) = 1
    /\ \A i \in FrameIds \ inflight : Executing(i) = {}
    /\ \A h \in Threads : InThread(h, "waiting") => thread[h].call.id \in inflight
    /\ \A i \in FrameIds :
          ledger[i] # None /\ ledger[i].status = "RUNNING" /\ ledger[i].epoch = epoch =>
              i \in inflight

\* The N5 services keep both promises.
MaterializedOnce == N5AnswersAgree /\ ClaimsAreOwned
=============================================================================
