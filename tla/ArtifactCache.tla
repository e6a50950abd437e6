---------------------------- MODULE ArtifactCache ----------------------------
(***************************************************************************)
(* The artifact cache of an execution node N7 or N8: FullFlowArtifactCache *)
(* of simulator/full_flow_cache.py behind its threaded HTTP service.       *)
(*                                                                         *)
(* The index is a SQLite database, the payloads are content-addressed      *)
(* files.  put holds the process-wide lock from its replay lookup to the   *)
(* removal of orphaned files; lookup holds it for its transaction only and *)
(* reads the payload after it has released it.                             *)
(***************************************************************************)
EXTENDS CacheData, Sequences

CONSTANTS
    Puts,           \* store requests [id, key, content]
    PutIds,         \* values of request_id
    Handlers,       \* threads of the HTTP server
    None,           \* no put, no lock holder
    MaxCrashes,     \* bound on the process deaths explored
    MaxSequence     \* bound on access_sequence

ASSUME PutAssumption ==
    /\ \A p \in Puts : p.id \in PutIds /\ p.key \in Keys /\ p.content \in Contents
    /\ None \notin Puts \cup Handlers
    /\ MaxCrashes \in Nat /\ MaxSequence \in Nat

VARIABLES
    entries,        \* cache_entries: the content of each key
    access,         \* cache_entries: last_access_sequence
    sequence,       \* cache_state: access_sequence
    requests,       \* cache_requests, by request_id
    files,          \* payload files in objects/
    temporaries,    \* .tmp files in objects/
    up,             \* the service is running
    lock,           \* the thread that holds self._lock
    pc, put, found, \* each handler: its step, its put, the row of its hit
    reply,          \* each handler's answer
    crashes

index == <<entries, access, sequence, requests>>
disk == <<index, files, temporaries>>
vars == <<disk, up, lock, pc, put, found, reply, crashes>>

Init ==
    /\ entries = [k \in Keys |-> NoContent]
    /\ access = [k \in Keys |-> 0] /\ sequence = 0
    /\ requests = [i \in PutIds |-> None]
    /\ files = {} /\ temporaries = {}
    /\ up = FALSE /\ lock = None
    /\ pc = [h \in Handlers |-> "idle"]
    /\ put = [h \in Handlers |-> None]
    /\ found = [h \in Handlers |-> NoContent]
    /\ reply = [h \in Handlers |-> "none"]
    /\ crashes = 0

Answer(h, answer) ==
    /\ pc' = [pc EXCEPT ![h] = "reply"]
    /\ reply' = [reply EXCEPT ![h] = answer]

Goto(h, step) == pc' = [pc EXCEPT ![h] = step] /\ UNCHANGED reply

-----------------------------------------------------------------------------
Referenced == {entries[k] : k \in Cached(entries)}

\* verify: each row has its payload and the rows fit the capacity.
Verified ==
    /\ Referenced \subseteq files
    /\ Used(entries, Cached(entries)) <= Capacity

\* Mutant: only the row used last is taken to refer to its payload.
ReconcileRecent ==
    /\ files' = files \cap {entries[k] : k \in {x \in Cached(entries) : access[x] = sequence}}
    /\ temporaries' = {}

\* _reconcile_object_directory.
Reconcile ==
    /\ files' = files \cap Referenced
    /\ temporaries' = {}

\* _initialize of a new or restarted process.
Start ==
    /\ ~up
    /\ Verified
    /\ Reconcile
    /\ up' = TRUE
    /\ UNCHANGED <<index, lock, pc, put, found, reply, crashes>>

\* The process dies.
Crash ==
    /\ up /\ crashes < MaxCrashes
    /\ crashes' = crashes + 1
    /\ up' = FALSE /\ lock' = None
    /\ pc' = [h \in Handlers |-> "idle"]
    /\ put' = [h \in Handlers |-> None]
    /\ found' = [h \in Handlers |-> NoContent]
    /\ reply' = [h \in Handlers |-> "none"]
    /\ UNCHANGED disk

-----------------------------------------------------------------------------
(* lookup.                                                                 *)

\* The transaction: a missing or different row is a miss, a hit becomes the
\* most recent use.
Lookup(h, k, expected) ==
    /\ up /\ pc[h] = "idle" /\ lock = None
    /\ \/ /\ entries[k] # expected
          /\ Answer(h, "miss")
          /\ UNCHANGED <<index, found>>
       \/ /\ entries[k] = expected
          /\ sequence < MaxSequence
          /\ sequence' = sequence + 1
          /\ access' = [access EXCEPT ![k] = sequence + 1]
          /\ found' = [found EXCEPT ![h] = entries[k]]
          /\ Goto(h, "read")
          /\ UNCHANGED <<entries, requests>>
    /\ UNCHANGED <<files, temporaries, up, lock, put, crashes>>

\* The payload is read without the lock.
ReadPayload(h) ==
    /\ pc[h] = "read"
    /\ Answer(h, IF found[h] \in files THEN "hit" ELSE "unreadable")
    /\ UNCHANGED <<disk, up, lock, put, found, crashes>>

-----------------------------------------------------------------------------
(* put.                                                                    *)

\* The lock is taken; a known request id is answered from its stored row.  A
\* payload larger than the capacity was refused before.
PutBegin(h, p) ==
    /\ up /\ pc[h] = "idle" /\ lock = None
    /\ Size[p.content] <= Capacity
    /\ \/ /\ requests[p.id] # None
          /\ Answer(h, IF requests[p.id] = p THEN "replay" ELSE "conflict")
          /\ UNCHANGED <<lock, put>>
       \/ /\ requests[p.id] = None
          /\ lock' = h
          /\ put' = [put EXCEPT ![h] = p]
          /\ Goto(h, "write")
    /\ UNCHANGED <<disk, up, found, crashes>>

WriteTemporary(h) ==
    /\ pc[h] = "write"
    /\ temporaries' = temporaries \cup {put[h].content}
    /\ Goto(h, "install")
    /\ UNCHANGED <<index, files, up, lock, put, found, crashes>>

\* os.replace to the content-addressed name, or removal of the temporary when
\* that file exists and verifies.
InstallPayload(h) ==
    /\ pc[h] = "install"
    /\ temporaries' = temporaries \ {put[h].content}
    /\ files' = files \cup {put[h].content}
    /\ Goto(h, "commit")
    /\ UNCHANGED <<index, up, lock, put, found, crashes>>

\* Mutant: the most recently used key is the victim.
Newest(S) == CHOOSE x \in S : \A y \in S : access[x] >= access[y]

\* The oldest of a set of keys: ORDER BY last_access_sequence LIMIT 1.
Oldest(S) == CHOOSE x \in S : \A y \in S : access[x] <= access[y]

\* Mutant: the size of the new payload is not counted.
KeptUncounted(k, c) ==
    LET kept[S \in SUBSET Cached(entries)] ==
          IF Used(entries, S) <= Capacity THEN S ELSE kept[S \ {Oldest(S)}]
    IN  kept[Cached(entries) \ {k}]

\* The eviction loop: the keys left beside k when c fits.
Kept(k, c) ==
    LET kept[S \in SUBSET Cached(entries)] ==
          IF Used(entries, S) + Size[c] <= Capacity
            THEN S
            ELSE kept[S \ {Oldest(S)}]
    IN  kept[Cached(entries) \ {k}]

\* The transaction of put.
CommitPut(h) ==
    LET p == put[h]
        kept == Kept(p.key, p.content) IN
    /\ pc[h] = "commit"
    /\ sequence < MaxSequence
    /\ sequence' = sequence + 1
    /\ entries' = [k \in Keys |->
          IF k = p.key THEN p.content
          ELSE IF k \in kept THEN entries[k]
          ELSE NoContent]
    /\ access' = [k \in Keys |->
          IF k = p.key THEN sequence + 1
          ELSE IF k \in kept THEN access[k]
          ELSE 0]
    /\ requests' = [requests EXCEPT ![p.id] = p]
    /\ Goto(h, "sweep")
    /\ UNCHANGED <<files, temporaries, up, lock, put, found, crashes>>

\* _remove_orphaned_objects under the same reentrant lock, then the answer.
Sweep(h) ==
    /\ pc[h] = "sweep"
    /\ Reconcile
    /\ lock' = None
    /\ put' = [put EXCEPT ![h] = None]
    /\ Answer(h, "stored")
    /\ UNCHANGED <<index, up, found, crashes>>

\* A write or the transaction raises: nothing is committed.  An I/O error
\* removes the temporary, a failed verification of it leaves it behind, and a
\* payload that already has its final name stays.
PutFails(h) ==
    /\ pc[h] \in {"write", "install", "commit"}
    /\ temporaries' \in {temporaries, temporaries \ {put[h].content}}
    /\ lock' = None
    /\ put' = [put EXCEPT ![h] = None]
    /\ Answer(h, "failed")
    /\ UNCHANGED <<index, files, up, found, crashes>>

SendReply(h) ==
    /\ pc[h] = "reply"
    /\ pc' = [pc EXCEPT ![h] = "idle"]
    /\ reply' = [reply EXCEPT ![h] = "none"]
    /\ found' = [found EXCEPT ![h] = NoContent]
    /\ UNCHANGED <<disk, up, lock, put, crashes>>

Step(h) ==
    \/ ReadPayload(h)
    \/ WriteTemporary(h) \/ InstallPayload(h)
    \/ CommitPut(h) \/ Sweep(h) \/ PutFails(h)
    \/ SendReply(h)

Next ==
    \/ Start \/ Crash
    \/ \E h \in Handlers : \E k \in Keys : \E c \in Contents : Lookup(h, k, c)
    \/ \E h \in Handlers : \E p \in Puts : PutBegin(h, p)
    \/ \E h \in Handlers : Step(h)

Spec == Init /\ [][Next]_vars

-----------------------------------------------------------------------------
TypeOK ==
    /\ entries \in Entries
    /\ access \in [Keys -> Nat] /\ sequence \in Nat
    /\ requests \in [PutIds -> Puts \cup {None}]
    /\ files \subseteq Contents /\ temporaries \subseteq Contents
    /\ up \in BOOLEAN /\ lock \in Handlers \cup {None}
    /\ pc \in [Handlers -> {"idle", "read", "write", "install", "commit", "sweep", "reply"}]
    /\ put \in [Handlers -> Puts \cup {None}]
    /\ \A h \in Handlers :
          pc[h] \in {"write", "install", "commit", "sweep"} => put[h] # None
    /\ found \in [Handlers -> Contents \cup {NoContent}]
    /\ reply \in [Handlers -> {"none", "miss", "hit", "unreadable", "replay",
                               "conflict", "stored", "failed"}]
    /\ crashes \in Nat

\* Whenever the process dies, the next one starts: at every moment each row
\* of the index has its payload and the rows fit the capacity, or _initialize
\* would refuse the state directory for ever.
Restartable == Verified

\* No other thread takes the files of a put away between its steps, although
\* every sweep deletes all temporaries and all payloads without a row.
WriterUndisturbed ==
    \A h \in Handlers :
        /\ pc[h] = "install" => put[h].content \in temporaries
        /\ pc[h] \in {"commit", "sweep"} => put[h].content \in files

\* The files the index and the writers rely on are there at every moment, so
\* that no sweep, eviction or death makes the cache refuse its own directory.
FilesAreKept == TypeOK /\ Restartable /\ WriterUndisturbed

\* A hit that cannot be read was evicted since its transaction: no payload
\* disappears under a row that still refers to it.
UnreadableOnlyIfEvicted ==
    [][\A h \in Handlers :
          reply'[h] = "unreadable" /\ reply[h] # "unreadable" =>
              found[h] \notin Referenced]_vars

\* The cached keys in order of their last use.
Recency ==
    CHOOSE s \in [1 .. Cardinality(Cached(entries)) -> Cached(entries)] :
        /\ Cached(entries) = {s[i] : i \in DOMAIN s}
        /\ \A i, j \in DOMAIN s : i < j => access[s[i]] < access[s[j]]

Lru == INSTANCE LruCache WITH order <- Recency

\* The index implements the LRU cache: the eviction loop drops the least
\* recently used keys and no more than needed, and a hit is a use.
LruSpec == Lru!Spec
=============================================================================
