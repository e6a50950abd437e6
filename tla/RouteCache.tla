----------------------------- MODULE RouteCache ------------------------------
(***************************************************************************)
(* Trials of a cached route: GenericSemanticRouteCoordinator._execute_once *)
(* of full_flow_semantic_route_runtime.py with the cache adapter and the   *)
(* SQLiteCacheLineageStore of full_flow_route_adapters.py.                 *)
(*                                                                         *)
(* Three parties keep state: the node's artifact cache, which is durable   *)
(* (LruCache, what ArtifactCache implements); the node, whose runtime epoch*)
(* changes when it restarts; and the coordinator, whose database holds the *)
(* execution rows and, for each key and epoch, the trial that inserted it. *)
(* Repetition 0 of a workload must miss and insert, the next must hit.     *)
(***************************************************************************)
EXTENDS CacheData, Sequences, FiniteSets

CONSTANTS
    Workloads,
    Artifacts,      \* the cached artifacts a trial of each workload reads, in order
    Trials,         \* [workload, repetition]: the trials of the matrix
    Payload,        \* what the cache holds of an artifact
    NoTrial,
    MaxConcurrent,  \* bound: executions at a time
    MaxRestarts,    \* bound: restarts of the node
    MaxDeaths,      \* bound: deaths of the coordinator
    MaxFailures     \* bound: failed calls

Predecessor(t) == [workload |-> t.workload, repetition |-> t.repetition - 1]

\* Workloads have objects of their own, and an object one artifact for each
\* representation (_normalise_public_tasks, _normalise_artifact_bindings).
ASSUME RouteCacheAssumption ==
    /\ \A w \in Workloads : Artifacts[w] \in Seq(Keys) /\ Artifacts[w] # <<>>
    /\ \A v, w \in Workloads : \A i \in DOMAIN Artifacts[v], j \in DOMAIN Artifacts[w] :
          Artifacts[v][i] = Artifacts[w][j] => v = w /\ i = j
    /\ Trials \subseteq [workload : Workloads, repetition : Nat]
    /\ \A t \in Trials : t.repetition > 0 => Predecessor(t) \in Trials
    /\ Payload \in Contents /\ NoTrial \notin Trials
    /\ MaxConcurrent \in Nat \ {0}
    /\ MaxRestarts \in Nat /\ MaxDeaths \in Nat /\ MaxFailures \in Nat

Epochs == 0 .. MaxRestarts

VARIABLES
    entries, order, \* the artifact cache
    epoch,          \* runtime_epoch of the node
    lineage,        \* cache_lineage: the inserting trial of each key and epoch
    rows,           \* route_executions
    pc, at,         \* the stage of each execution and the artifact it is at
    lookup,         \* its last CacheLookupResult
    identities,     \* its cache_epochs
    puts,           \* history: what was put, by which trial, in which epoch
    served,         \* history: the hits and fetches each trial used
    evicted,        \* history: keys evicted, with the epoch
    disordered,     \* history: a repetition began before its predecessor completed
    deaths, failures

cacheVars == <<entries, order>>
history == <<puts, served, evicted, disordered>>
vars == <<cacheVars, epoch, lineage, rows, pc, at, lookup, identities, history, deaths, failures>>

Cache == INSTANCE LruCache

NoLookup == [epoch |-> 0, branch |-> "none"]

Init ==
    /\ Cache!Init
    /\ epoch = 0
    /\ lineage = [row \in Keys \X Epochs |-> NoTrial]
    /\ rows = [t \in Trials |-> "none"]
    /\ pc = [t \in Trials |-> "idle"]
    /\ at = [t \in Trials |-> 1]
    /\ lookup = [t \in Trials |-> NoLookup]
    /\ identities = [t \in Trials |-> {}]
    /\ puts = {} /\ served = [t \in Trials |-> {}] /\ evicted = {} /\ disordered = FALSE
    /\ deaths = 0 /\ failures = 0

Key(t) == Artifacts[t.workload][at[t]]
Executing == {t \in Trials : pc[t] # "idle"}

Goto(t, stage) == pc' = [pc EXCEPT ![t] = stage]

\* The execution ends, with what it knew.
End(t, state) ==
    /\ rows' = [rows EXCEPT ![t] = state]
    /\ Goto(t, "idle")
    /\ at' = [at EXCEPT ![t] = 1]
    /\ lookup' = [lookup EXCEPT ![t] = NoLookup]
    /\ identities' = [identities EXCEPT ![t] = {}]

\* store.fail: the row is marked and the request answered with an error.
Fail(t) == End(t, "FAILED")

\* The artifact is at hand: on to the next one, or to the model.
Obtained(t, how) ==
    /\ served' = [served EXCEPT ![t] = @ \cup {[key |-> Key(t), how |-> how, epoch |-> lookup[t].epoch]}]
    /\ IF at[t] < Len(Artifacts[t.workload])
       THEN at' = [at EXCEPT ![t] = @ + 1] /\ Goto(t, "lookup")
       ELSE Goto(t, "infer") /\ UNCHANGED at

-----------------------------------------------------------------------------
\* execute: store.begin admits a trial without a row; all others are answered
\* from their row and change nothing.
Begin(t) ==
    /\ rows[t] = "none" /\ Cardinality(Executing) < MaxConcurrent
    /\ rows' = [rows EXCEPT ![t] = "RUNNING"]
    /\ Goto(t, "lookup")
    /\ disordered' = (disordered \/ (t.repetition > 0 /\ rows[Predecessor(t)] # "COMPLETE"))
    /\ UNCHANGED <<cacheVars, epoch, lineage, at, lookup, identities, puts, served, evicted, deaths, failures>>

\* lookup, first half: the identity of the cache, then its answer.  A hit
\* keeps the payload for the read.
Lookup(t) ==
    LET hit == entries[Key(t)] # NoContent IN
    /\ pc[t] = "lookup"
    /\ lookup' = [lookup EXCEPT ![t] = [epoch |-> epoch, branch |-> IF hit THEN "hit" ELSE "miss"]]
    /\ IF hit THEN Cache!Touch(Key(t)) ELSE UNCHANGED cacheVars
    /\ Goto(t, "resolve")
    /\ UNCHANGED <<epoch, lineage, rows, at, identities, history, deaths, failures>>

\* Mutant: the first repetition after the insertion may miss again.
ExpectedLate(t) == IF t.repetition <= 1 THEN "miss" ELSE "hit"

\* The branch the frozen repetition lifecycle prescribes.
Expected(t) == IF t.repetition = 0 THEN "miss" ELSE "hit"

\* Bytes and lineage agree, and a hit was inserted by the preceding repetition.
Accepted(t, source) ==
    /\ lookup[t].branch = "hit" <=> source # NoTrial
    /\ lookup[t].branch = Expected(t)
    /\ lookup[t].branch = "hit" => source = Predecessor(t)

\* lookup, second half: the identity must be the same as before; the result
\* is checked against the lineage of that epoch.
Resolve(t) ==
    /\ pc[t] = "resolve"
    /\ IF epoch = lookup[t].epoch /\ Accepted(t, lineage[<<Key(t), lookup[t].epoch>>])
       THEN /\ identities' = [identities EXCEPT ![t] = @ \cup {lookup[t].epoch}]
            /\ Goto(t, IF lookup[t].branch = "hit" THEN "read" ELSE "fetch")
            /\ UNCHANGED <<rows, at, lookup>>
       ELSE Fail(t)
    /\ UNCHANGED <<cacheVars, epoch, lineage, history, deaths, failures>>

\* read: the payload the lookup kept.
Read(t) ==
    /\ pc[t] = "read"
    /\ Obtained(t, "hit")
    /\ UNCHANGED <<cacheVars, epoch, lineage, rows, lookup, identities, puts, evicted, disordered, deaths, failures>>

\* access-derived-artifact and its transfer.
Fetch(t) ==
    /\ pc[t] = "fetch"
    /\ Goto(t, "insert")
    /\ UNCHANGED <<cacheVars, epoch, lineage, rows, at, lookup, identities, history, deaths, failures>>

\* The cache stores the artifact; others may have to go.
Put(t) ==
    /\ Cache!Store(Key(t), Payload)
    /\ puts' = puts \cup {[key |-> Key(t), epoch |-> epoch, trial |-> t]}
    /\ evicted' = evicted \cup
          {<<k, epoch>> : k \in {x \in Keys : entries[x] # NoContent /\ entries'[x] = NoContent}}

\* insert, up to the put: the identity must be that of the miss.
Insert(t) ==
    /\ pc[t] = "insert"
    /\ IF epoch = lookup[t].epoch
       THEN Put(t) /\ Goto(t, "record") /\ UNCHANGED <<rows, at, lookup, identities>>
       ELSE Fail(t) /\ UNCHANGED <<cacheVars, puts, evicted>>
    /\ UNCHANGED <<epoch, lineage, served, disordered, deaths, failures>>

\* Mutant: the lineage is recorded under the identity after the put.
RecordNow(t) ==
    /\ pc[t] = "record"
    /\ lineage' = [lineage EXCEPT ![<<Key(t), epoch>>] = t]
    /\ Obtained(t, "miss")
    /\ UNCHANGED <<cacheVars, epoch, rows, lookup, identities, puts, evicted, disordered, deaths, failures>>

\* insert, after the put: the identity again, then lineage.record, which
\* refuses a key another trial has recorded.
Record(t) ==
    LET row == lineage[<<Key(t), lookup[t].epoch>>] IN
    /\ pc[t] = "record"
    /\ IF epoch = lookup[t].epoch /\ row \in {NoTrial, t}
       THEN /\ lineage' = [lineage EXCEPT ![<<Key(t), lookup[t].epoch>>] = t]
            /\ Obtained(t, "miss")
            /\ UNCHANGED <<rows, lookup, identities>>
       ELSE Fail(t) /\ UNCHANGED <<lineage, served>>
    /\ UNCHANGED <<cacheVars, epoch, puts, evicted, disordered, deaths, failures>>

\* Mutant: the cache identities of a trial are not compared.
CompleteAny(t) ==
    /\ pc[t] = "infer"
    /\ End(t, "COMPLETE")
    /\ UNCHANGED <<cacheVars, epoch, lineage, history, deaths, failures>>

\* Inference and score, the closing checks, store.complete: one trial may
\* have seen one cache identity only.
Complete(t) ==
    /\ pc[t] = "infer"
    /\ End(t, IF Cardinality(identities[t]) = 1 THEN "COMPLETE" ELSE "FAILED")
    /\ UNCHANGED <<cacheVars, epoch, lineage, history, deaths, failures>>

\* A call to the cache, to N4, N6 or N1 fails; a put may have been carried out.
CallFails(t) ==
    /\ pc[t] \in {"lookup", "fetch", "insert", "infer"} /\ failures < MaxFailures
    /\ failures' = failures + 1
    /\ \/ UNCHANGED <<cacheVars, puts, evicted>>
       \/ pc[t] = "insert" /\ epoch = lookup[t].epoch /\ Put(t)
    /\ Fail(t)
    /\ UNCHANGED <<epoch, lineage, served, disordered, deaths>>

\* The node restarts with another runtime epoch; its cache is durable.
NodeRestart ==
    /\ epoch < MaxRestarts
    /\ epoch' = epoch + 1
    /\ UNCHANGED <<cacheVars, lineage, rows, pc, at, lookup, identities, history, deaths, failures>>

\* The coordinator's process dies: rows and lineage stay.
Die ==
    /\ deaths < MaxDeaths /\ Executing # {}
    /\ deaths' = deaths + 1
    /\ pc' = [t \in Trials |-> "idle"]
    /\ at' = [t \in Trials |-> 1]
    /\ lookup' = [t \in Trials |-> NoLookup]
    /\ identities' = [t \in Trials |-> {}]
    /\ UNCHANGED <<cacheVars, epoch, lineage, rows, history, failures>>

Next ==
    \/ \E t \in Trials :
          \/ Begin(t) \/ Lookup(t) \/ Resolve(t) \/ Read(t) \/ Fetch(t)
          \/ Insert(t) \/ Record(t) \/ Complete(t) \/ CallFails(t)
    \/ NodeRestart
    \/ Die

Spec == Init /\ [][Next]_vars

-----------------------------------------------------------------------------
Stages == {"idle", "lookup", "resolve", "read", "fetch", "insert", "record", "infer"}

TypeOK ==
    /\ entries \in Entries
    /\ order \in Seq(Keys) /\ {order[i] : i \in DOMAIN order} = Cached(entries)
    /\ \A i, j \in DOMAIN order : order[i] = order[j] => i = j
    /\ epoch \in Epochs
    /\ lineage \in [Keys \X Epochs -> Trials \cup {NoTrial}]
    /\ rows \in [Trials -> {"none", "RUNNING", "COMPLETE", "FAILED"}]
    /\ pc \in [Trials -> Stages]
    /\ at \in [Trials -> Nat] /\ \A t \in Trials : at[t] \in DOMAIN Artifacts[t.workload]
    /\ \A t \in Executing : rows[t] = "RUNNING"
    /\ lookup \in [Trials -> [epoch : Epochs, branch : {"none", "hit", "miss"}]]
    /\ identities \in [Trials -> SUBSET Epochs]
    /\ puts \subseteq [key : Keys, epoch : Epochs, trial : Trials]
    /\ served \in [Trials -> SUBSET [key : Keys, how : {"hit", "miss"}, epoch : Epochs]]
    /\ evicted \subseteq Keys \X Epochs /\ disordered \in BOOLEAN
    /\ deaths \in 0 .. MaxDeaths /\ failures \in 0 .. MaxFailures

\* A lineage row is true: its trial put the artifact into the cache, in the
\* epoch the row names and in no other (the identity is probed before and
\* after the put, which a restart may come between).
LineageIsTrue ==
    \A k \in Keys, e \in Epochs : lineage[<<k, e>>] # NoTrial =>
        /\ [key |-> k, epoch |-> e, trial |-> lineage[<<k, e>>]] \in puts
        /\ lineage[<<k, e>>].repetition = 0

\* A completed trial was served in one epoch: all its artifacts by the first
\* repetition's misses, or all of them by hits on what the repetition before
\* it put there in that same epoch.
CompletedIsPaired ==
    \A t \in Trials : rows[t] = "COMPLETE" => \E e \in Epochs :
        /\ {s.epoch : s \in served[t]} = {e}
        /\ \A i \in DOMAIN Artifacts[t.workload] :
              LET k == Artifacts[t.workload][i] IN
              IF t.repetition = 0
              THEN [key |-> k, how |-> "miss", epoch |-> e] \in served[t] /\ lineage[<<k, e>>] = t
              ELSE /\ [key |-> k, how |-> "hit", epoch |-> e] \in served[t]
                   /\ [key |-> k, epoch |-> e, trial |-> Predecessor(t)] \in puts

\* Lineage without bytes, which fails every later lookup of the artifact,
\* is left by an eviction only.
LineageHasBytes ==
    \A k \in Keys, e \in Epochs :
        lineage[<<k, e>>] # NoTrial /\ entries[k] = NoContent =>
            \E f \in e .. MaxRestarts : <<k, f>> \in evicted

\* Failing closed is not failing at random: when repetitions come in order
\* and no call failed, no node restarted and nothing was evicted, the first
\* two repetitions of a workload do not fail.
NoSpuriousFailure ==
    \A t \in Trials : rows[t] = "FAILED" /\ t.repetition <= 1 =>
        failures > 0 \/ epoch > 0 \/ evicted # {} \/ disordered

\* A hit names the trial that inserted the artifact, and only a first
\* repetition inserts: a matrix of three repetitions, which the planner
\* admits, cannot complete its third.
OnlyPairsComplete == \A t \in Trials : rows[t] = "COMPLETE" => t.repetition <= 1

\* The lineage never claims what did not happen, and never names lost bytes
\* for another reason than an eviction.
LineageIsSound == TypeOK /\ LineageIsTrue /\ LineageHasBytes

\* What a completed trial reports is a miss of a first repetition or a hit on
\* exactly that miss, in one epoch.
PairsComplete == CompletedIsPaired /\ OnlyPairsComplete
=============================================================================
