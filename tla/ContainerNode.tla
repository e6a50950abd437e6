---------------------------- MODULE ContainerNode ----------------------------
(***************************************************************************)
(* One container node, simulator/container_node.py: the requests of its    *)
(* threaded HTTP server that keep state.                                   *)
(*                                                                         *)
(*   operations   ContainerNodeRuntime.execute, of which the cache         *)
(*                operations change the node's in-memory LRU caches;       *)
(*   semantic     ContainerNodeRuntime.semantic_complete;                  *)
(*   trials       FullFlowTrialRuntime.execute of full_flow_runtime.py:    *)
(*                one download from a Data Agent, one inference, one score.*)
(*                                                                         *)
(* Each kind has a ledger in memory: a repeated request waits for a running*)
(* one, gets the stored result or runs.  Clients repeat requests whose     *)
(* answer they lost.  The ledgers and caches end with the process; the     *)
(* next one has another runtime epoch.                                     *)
(***************************************************************************)
EXTENDS Naturals, Sequences, FiniteSets

CONSTANTS
    Handlers,       \* threads of the server
    Requests,       \* [id, kind, object, size]; one id may come in two forms
    Ids,
    Objects,        \* objects and representations the cache knows
    Sizes,
    Capacity,       \* capacity_bytes of the cache scope
    None,
    MaxFailures,    \* bound: failed executions
    MaxDeaths       \* bound: deaths of the node's process

Kinds == {"cache_lookup", "cache_read", "cache_insert", "semantic", "trial"}

ASSUME NodeAssumption ==
    /\ Requests \subseteq [id : Ids, kind : Kinds, object : Objects, size : Sizes]
    /\ Sizes \subseteq Nat \ {0} /\ Capacity \in Nat \ {0}
    /\ None \notin Requests \cup Ids
    /\ MaxFailures \in Nat /\ MaxDeaths \in Nat

VARIABLES
    claimed,        \* the request first seen under each id (its digest)
    results,        \* the stored result of each id
    running,        \* ids in flight
    consumed,       \* trials whose Data Agent access was used up
    cache,          \* the OrderedDict of the cache, least recently used first
    semantic,       \* the thread that holds _semantic_lock
    adapter,        \* the trial of the semantic adapter's last call
    pc, req, work,  \* each thread's step, its request and its result so far
    epoch,
    answered,       \* history: successful answers of this epoch
    fresh,          \* history: how many of them were not replays
    downloads,      \* history: downloads for each trial in this epoch
    failures

ledgerVars == <<claimed, results, running, consumed>>
semVars == <<semantic, adapter>>
history == <<answered, fresh, downloads>>
vars == <<ledgerVars, cache, semVars, pc, req, work, epoch, history, failures>>

Init ==
    /\ claimed = [i \in Ids |-> None]
    /\ results = [i \in Ids |-> "none"]
    /\ running = {} /\ consumed = {} /\ cache = <<>>
    /\ semantic = None /\ adapter = None
    /\ pc = [h \in Handlers |-> "idle"]
    /\ req = [h \in Handlers |-> None]
    /\ work = [h \in Handlers |-> "none"]
    /\ answered = {}
    /\ fresh = [i \in Ids |-> 0]
    /\ downloads = [i \in Ids |-> 0]
    /\ epoch = 0 /\ failures = 0

Id(h) == req[h].id
Goto(h, step) == pc' = [pc EXCEPT ![h] = step]

-----------------------------------------------------------------------------
(* The LRU cache: _CacheState.                                             *)

Entry(r) == [object |-> r.object, size |-> r.size]
Holds(object) == \E i \in DOMAIN cache : cache[i].object = object
Without(object) == SelectSeq(cache, LAMBDA e : e.object # object)

\* used_bytes of a sequence of entries; sizes of the entries from i on.
UsedFrom(s) ==
    LET used[i \in 1 .. Len(s) + 1] == IF i > Len(s) THEN 0 ELSE s[i].size + used[i + 1]
    IN used

\* lookup: move_to_end of an entry that is there.
Touched(object) ==
    IF Holds(object)
    THEN Append(Without(object), CHOOSE e \in {cache[i] : i \in DOMAIN cache} : e.object = object)
    ELSE cache

\* Mutant: the eviction loop stops one entry early.
InsertedOver(r) ==
    IF r.size > Capacity THEN cache
    ELSE LET old == Without(r.object)
             first == CHOOSE i \in 1 .. Len(old) + 1 :
                         /\ UsedFrom(old)[i] + r.size <= Capacity + 1
                         /\ \A j \in 1 .. i - 1 : UsedFrom(old)[j] + r.size > Capacity + 1
         IN Append(SubSeq(old, first, Len(old)), Entry(r))

\* insert: the oldest entries go until the new one fits; one that never fits
\* is not stored.
Inserted(r) ==
    IF r.size > Capacity THEN cache
    ELSE LET old == Without(r.object)
             first == CHOOSE i \in 1 .. Len(old) + 1 :
                         /\ UsedFrom(old)[i] + r.size <= Capacity
                         /\ \A j \in 1 .. i - 1 : UsedFrom(old)[j] + r.size > Capacity
         IN Append(SubSeq(old, first, Len(old)), Entry(r))

-----------------------------------------------------------------------------
(* The ledger.                                                             *)

Receive(h, r) ==
    /\ pc[h] = "idle"
    /\ req' = [req EXCEPT ![h] = r]
    /\ Goto(h, "check")
    /\ UNCHANGED <<ledgerVars, cache, semVars, work, epoch, history, failures>>

\* The thread answers and is free for the next request.
Done(h) ==
    /\ Goto(h, "idle")
    /\ req' = [req EXCEPT ![h] = None]
    /\ work' = [work EXCEPT ![h] = "none"]

\* An answer with a result reaches the client.
Answer(h, result, new) ==
    /\ answered' = answered \cup {[request |-> req[h], result |-> result]}
    /\ fresh' = [fresh EXCEPT ![Id(h)] = IF new THEN @ + 1 ELSE @]
    /\ UNCHANGED downloads

\* Mutant: the digest of the request is not compared.
SameAny(h) == TRUE

\* The request is the one this id stands for.
SameRequest(h) == claimed[Id(h)] \in {None, req[h]}

\* "reused with different input"; a trial that used up its access.
Refuse(h) ==
    /\ pc[h] = "check"
    /\ \/ ~SameRequest(h)
       \/ Id(h) \in consumed \ running /\ results[Id(h)] = "none"
    /\ Done(h)
    /\ UNCHANGED <<ledgerVars, cache, semVars, epoch, history, failures>>

\* A completed request is replayed.
Replay(h) ==
    /\ pc[h] = "check" /\ SameRequest(h) /\ results[Id(h)] # "none"
    /\ Answer(h, results[Id(h)], FALSE)
    /\ Done(h)
    /\ UNCHANGED <<ledgerVars, cache, semVars, epoch, failures>>

\* Condition.wait: the lock is released, the thread sleeps.
Sleep(h) ==
    /\ pc[h] = "check" /\ SameRequest(h) /\ Id(h) \in running
    /\ Goto(h, "waiting")
    /\ UNCHANGED <<ledgerVars, cache, semVars, req, work, epoch, history, failures>>

\* Nobody runs it: this thread does.
Claim(h) ==
    /\ pc[h] = "check" /\ SameRequest(h)
    /\ results[Id(h)] = "none" /\ Id(h) \notin running \cup consumed
    /\ claimed' = [claimed EXCEPT ![Id(h)] = req[h]]
    /\ running' = running \cup {Id(h)}
    /\ Goto(h, IF req[h].kind = "trial" THEN "download" ELSE "run")
    /\ UNCHANGED <<results, consumed, cache, semVars, req, work, epoch, history, failures>>

\* notify_all of the condition: operations and semantic requests share one,
\* trials have another.
Condition(r) == IF r.kind = "trial" THEN "trials" ELSE "operations"

Notified(h) ==
    [g \in Handlers |->
        IF g = h THEN "idle"
        ELSE IF pc[g] = "waiting" /\ Condition(req[g]) = Condition(req[h]) THEN "check"
        ELSE pc[g]]

Finish(h) ==
    /\ running' = running \ {Id(h)}
    /\ pc' = Notified(h)
    /\ req' = [req EXCEPT ![h] = None]
    /\ work' = [work EXCEPT ![h] = "none"]

\* The result is stored and answered.
Store(h) ==
    /\ pc[h] = "store"
    /\ results' = [results EXCEPT ![Id(h)] = work[h]]
    /\ Answer(h, work[h], TRUE)
    /\ Finish(h)
    /\ UNCHANGED <<claimed, consumed, cache, semVars, epoch, failures>>

\* Mutant: a failed execution wakes nobody.
RaiseSilently(h) ==
    /\ pc[h] = "raise"
    /\ running' = running \ {Id(h)}
    /\ Done(h)
    /\ UNCHANGED <<claimed, results, consumed, cache, semVars, epoch, history, failures>>

\* The execution failed: the id is free again, its digest stays.
Raise(h) ==
    /\ pc[h] = "raise"
    /\ Finish(h)
    /\ UNCHANGED <<claimed, results, consumed, cache, semVars, epoch, history, failures>>

-----------------------------------------------------------------------------
(* Executing a request.                                                    *)

\* _execute_once of the cache operations, and a semantic request.
Run(h) ==
    LET r == req[h]
        hit == Holds(r.object)
    IN
    /\ pc[h] = "run"
    /\ cache' = CASE r.kind = "cache_insert" -> Inserted(r)
                  [] r.kind \in {"cache_lookup", "cache_read"} -> Touched(r.object)
                  [] r.kind = "semantic" -> cache
    /\ work' = [work EXCEPT ![h] = IF r.kind \in {"cache_lookup", "cache_read"}
                                   THEN IF hit THEN "hit" ELSE "miss" ELSE "done"]
    /\ Goto(h, IF r.kind = "cache_read" /\ ~hit THEN "raise" ELSE "store")
    /\ UNCHANGED <<ledgerVars, semVars, req, epoch, history, failures>>

\* fetch_validated_frame_bundle: once the download has started the access
\* counts as used, whether or not it succeeds.
Download(h) ==
    /\ pc[h] = "download"
    /\ downloads' = [downloads EXCEPT ![Id(h)] = @ + 1]
    /\ consumed' = consumed \cup {Id(h)}
    /\ Goto(h, "infer")
    /\ UNCHANGED <<claimed, results, running, cache, semVars, req, work, epoch, answered, fresh, failures>>

DownloadFails(h) ==
    /\ pc[h] = "download" /\ failures < MaxFailures
    /\ failures' = failures + 1
    /\ \E started \in BOOLEAN :
          /\ downloads' = [downloads EXCEPT ![Id(h)] = IF started THEN @ + 1 ELSE @]
          /\ consumed' = IF started THEN consumed \cup {Id(h)} ELSE consumed
    /\ Goto(h, "raise")
    /\ UNCHANGED <<claimed, results, running, cache, semVars, req, work, epoch, answered, fresh>>

\* The adapter is called under _semantic_lock ...
Infer(h) ==
    /\ pc[h] = "infer" /\ semantic = None
    /\ semantic' = h /\ adapter' = Id(h)
    /\ Goto(h, "metadata")
    /\ UNCHANGED <<ledgerVars, cache, req, work, epoch, history, failures>>

\* ... and the health it kept of its last call is read under it.
Metadata(h) ==
    /\ pc[h] = "metadata"
    /\ semantic' = None
    /\ work' = [work EXCEPT ![h] = adapter]
    /\ Goto(h, "store")
    /\ UNCHANGED <<ledgerVars, cache, adapter, req, epoch, history, failures>>

\* The request is invalid, the fixture, the model, the oracle or a check of
\* the evidence fails.
ExecutionFails(h) ==
    /\ \/ pc[h] \in {"run", "infer", "metadata"}
       \/ pc[h] = "store" /\ req[h].kind \in {"cache_read", "trial"}
    /\ failures < MaxFailures
    /\ failures' = failures + 1
    /\ semantic' = IF semantic = h THEN None ELSE semantic
    /\ Goto(h, "raise")
    /\ UNCHANGED <<ledgerVars, cache, adapter, req, work, epoch, history>>

\* The process dies and is started again: a new runtime epoch.
Die ==
    /\ epoch < MaxDeaths
    /\ epoch' = epoch + 1
    /\ claimed' = [i \in Ids |-> None]
    /\ results' = [i \in Ids |-> "none"]
    /\ running' = {} /\ consumed' = {} /\ cache' = <<>>
    /\ semantic' = None /\ adapter' = None
    /\ pc' = [h \in Handlers |-> "idle"]
    /\ req' = [h \in Handlers |-> None]
    /\ work' = [h \in Handlers |-> "none"]
    /\ answered' = {}
    /\ fresh' = [i \in Ids |-> 0]
    /\ downloads' = [i \in Ids |-> 0]
    /\ UNCHANGED failures

Step(h) ==
    \/ Refuse(h) \/ Replay(h) \/ Sleep(h) \/ Claim(h)
    \/ Run(h) \/ Download(h) \/ Infer(h) \/ Metadata(h) \/ Store(h) \/ Raise(h)

Next ==
    \/ \E h \in Handlers :
          \/ Step(h) \/ DownloadFails(h) \/ ExecutionFails(h)
          \/ \E r \in Requests : Receive(h, r)
    \/ Die

Spec == Init /\ [][Next]_vars

-----------------------------------------------------------------------------
Results == {"none", "hit", "miss", "done"} \cup Ids

TypeOK ==
    /\ claimed \in [Ids -> Requests \cup {None}]
    /\ results \in [Ids -> Results]
    /\ running \subseteq Ids /\ consumed \subseteq Ids
    /\ cache \in Seq([object : Objects, size : Sizes])
    /\ semantic \in Handlers \cup {None} /\ adapter \in Ids \cup {None}
    /\ pc \in [Handlers -> {"idle", "check", "waiting", "run", "download", "infer",
                            "metadata", "store", "raise"}]
    /\ req \in [Handlers -> Requests \cup {None}]
    /\ work \in [Handlers -> Results]
    /\ epoch \in 0 .. MaxDeaths
    /\ answered \subseteq [request : Requests, result : Results \ {"none"}]
    /\ fresh \in [Ids -> Nat] /\ downloads \in [Ids -> Nat]
    /\ failures \in 0 .. MaxFailures

\* Within an epoch every answer for an id is the stored result of the one
\* request it stands for, and only one of them was not a replay, whatever the
\* cache did since (execute: "Repeating that exact request returns the
\* original result, while reusing the key for different input fails closed").
AnswersAgree ==
    /\ \A a \in answered :
          claimed[a.request.id] = a.request /\ results[a.request.id] = a.result
    /\ \A i \in Ids : fresh[i] <= 1

\* A trial downloads its artifact at most once in an epoch, over failures and
\* retries ("to prevent an unaccounted second download").
DownloadedOnce == \A i \in Ids : downloads[i] <= 1

\* The health a trial's evidence reports is that of its own inference
\* ("those shared properties cannot be overwritten by a concurrent N6 call").
OwnMetadata ==
    \A i \in Ids : results[i] # "none" /\ claimed[i].kind = "trial" => results[i] = i

\* One execution stands behind all answers for an id: they agree, it
\* downloaded once, and its evidence is its own.
AnsweredOnce == TypeOK /\ AnswersAgree /\ DownloadedOnce /\ OwnMetadata

\* No wakeup is lost: a thread sleeps only while another one executes the same
\* request and will end it with notify_all, in success or failure.
SleepersAreOwed ==
    \A h \in Handlers : pc[h] = "waiting" =>
        \E g \in Handlers : /\ pc[g] \in {"run", "download", "infer", "metadata", "store", "raise"}
                            /\ req[g] = req[h]
=============================================================================
