------------------------------- MODULE N4Store -------------------------------
(***************************************************************************)
(* The N4 derived-representation store: N4DerivedRepresentationStore of    *)
(* simulator/n4_derived_data_plane.py behind the threaded HTTP service of  *)
(* simulator/n4_publication_http.py.                                       *)
(*                                                                         *)
(* A publication reads the current catalog, builds a candidate directory   *)
(* from it, moves the candidate to its content-addressed generation        *)
(* directory and only then commits the receipt and the current pointer in  *)
(* one SQLite transaction.  Handler threads interleave between these       *)
(* steps, and the process may die between any two of them.                 *)
(***************************************************************************)
EXTENDS N4Data, Naturals

CONSTANTS
    Handlers,       \* threads of the HTTP server, one request each
    NoRequest,      \* a handler that serves no request
    MaxCrashes      \* bound on the process deaths explored

ASSUME HandlerAssumption == NoRequest \notin Requests /\ MaxCrashes \in Nat

VARIABLES
    current,        \* n4_current_generation: the singleton row
    publications,   \* n4_publications, by publication_id
    generations,    \* complete generation-<sha256> directories
    pc, req,        \* each handler: its next step and its request
    base,           \* the snapshot the handler read
    candidate,      \* the handler's .candidate-<uuid> directory
    reply,          \* the handler's answer: status and stored row
    crashes         \* process deaths so far

disk == <<current, publications, generations>>
vars == <<disk, pc, req, base, candidate, reply, crashes>>

Statuses == {"none", "created", "replay", "conflict", "failed"}
NoReply == [status |-> "none", row |-> NoRow]

Init ==
    /\ current = NoGeneration
    /\ publications = [i \in PublicationIds |-> NoRow]
    /\ generations = {}
    /\ pc = [h \in Handlers |-> "idle"]
    /\ req = [h \in Handlers |-> NoRequest]
    /\ base = [h \in Handlers |-> NoGeneration]
    /\ candidate = [h \in Handlers |-> NoGeneration]
    /\ reply = [h \in Handlers |-> NoReply]
    /\ crashes = 0

-----------------------------------------------------------------------------
(* The steps of one call of publish.                                       *)

Answer(h, status, row) ==
    /\ pc' = [pc EXCEPT ![h] = "reply"]
    /\ reply' = [reply EXCEPT ![h] = [status |-> status, row |-> row]]

\* Mutant: the stored request is not compared.
ReplayAnyRequest(h, r) ==
    /\ publications[r.id] # NoRow
    /\ Answer(h, "replay", publications[r.id])

\* _stored_publication: the row of the same request is replayed, the row of
\* another request under the same id is a conflict.
StoredPublication(h, r) ==
    LET row == publications[r.id] IN
    /\ row # NoRow
    /\ IF row.request = r
         THEN Answer(h, "replay", row)
         ELSE Answer(h, "conflict", NoRow)

\* The first look for a stored row, outside any transaction.
Receive(h, r) ==
    /\ pc[h] = "idle"
    /\ req' = [req EXCEPT ![h] = r]
    /\ \/ StoredPublication(h, r)
       \/ /\ publications[r.id] = NoRow
          /\ pc' = [pc EXCEPT ![h] = "read"]
          /\ UNCHANGED reply
    /\ UNCHANGED <<disk, base, candidate, crashes>>

\* current_snapshot and the first comparison with the expected version.
ReadCurrent(h) ==
    /\ pc[h] = "read"
    /\ IF VersionOf(current) = req[h].expect
         THEN /\ base' = [base EXCEPT ![h] = current]
              /\ pc' = [pc EXCEPT ![h] = "build"]
              /\ UNCHANGED reply
         ELSE /\ Answer(h, "conflict", NoRow)
              /\ UNCHANGED base
    /\ UNCHANGED <<disk, req, candidate, crashes>>

\* build_n4_derived_data_package stages, verifies, syncs and renames the
\* candidate directory.
BuildCandidate(h) ==
    /\ pc[h] = "build"
    /\ candidate' = [candidate EXCEPT ![h] = Combined(base[h], req[h])]
    /\ pc' = [pc EXCEPT ![h] = "install"]
    /\ UNCHANGED <<disk, req, base, reply, crashes>>

\* An I/O error or a rejected package: the candidate is removed.
BuildFails(h) ==
    /\ pc[h] = "build"
    /\ Answer(h, "failed", NoRow)
    /\ UNCHANGED <<disk, req, base, candidate, crashes>>

\* Mutant: the candidate is dropped instead of renamed.
InstallForgotten(h) ==
    /\ pc[h] = "install"
    /\ candidate' = [candidate EXCEPT ![h] = NoGeneration]
    /\ pc' = [pc EXCEPT ![h] = "commit"]
    /\ UNCHANGED <<disk, req, base, reply, crashes>>

\* os.replace to the content-addressed directory; when the generation is
\* already there it is verified and the candidate removed, whether that is
\* seen before the rename or reported by it.
InstallGeneration(h) ==
    /\ pc[h] = "install"
    /\ generations' = generations \cup {candidate[h]}
    /\ candidate' = [candidate EXCEPT ![h] = NoGeneration]
    /\ pc' = [pc EXCEPT ![h] = "commit"]
    /\ UNCHANGED <<current, publications, req, base, reply, crashes>>

\* The two INSERTs of the transaction.
WriteTables(h) ==
    LET r == req[h]
        g == Combined(base[h], r)
        row == Row(r, g, VersionOf(current)) IN
    /\ publications' = [publications EXCEPT ![r.id] = row]
    /\ current' = g
    /\ Answer(h, "created", row)

\* Mutant: the transaction trusts the comparison made before the build.
CommitWithoutCas(h) ==
    /\ pc[h] = "commit"
    /\ \/ StoredPublication(h, req[h]) /\ UNCHANGED <<current, publications>>
       \/ publications[req[h].id] = NoRow /\ WriteTables(h)
    /\ UNCHANGED <<generations, req, base, candidate, crashes>>

\* The BEGIN IMMEDIATE transaction: the stored row and the expected version
\* are looked at again before both tables are written.
Commit(h) ==
    /\ pc[h] = "commit"
    /\ \/ /\ StoredPublication(h, req[h])
          /\ UNCHANGED <<current, publications>>
       \/ /\ publications[req[h].id] = NoRow
          /\ VersionOf(current) # req[h].expect
          /\ Answer(h, "conflict", NoRow)
          /\ UNCHANGED <<current, publications>>
       \/ /\ publications[req[h].id] = NoRow
          /\ VersionOf(current) = req[h].expect
          /\ WriteTables(h)
    /\ UNCHANGED <<generations, req, base, candidate, crashes>>

\* The rename or the transaction raises (disk full, database locked for 30
\* seconds): finally removes the candidate, nothing is committed.
PublishFails(h) ==
    /\ pc[h] \in {"install", "commit"}
    /\ candidate' = [candidate EXCEPT ![h] = NoGeneration]
    /\ Answer(h, "failed", NoRow)
    /\ UNCHANGED <<disk, req, base, crashes>>

\* The handler sends its answer; the client may never see it and retry.
SendReply(h) ==
    /\ pc[h] = "reply"
    /\ pc' = [pc EXCEPT ![h] = "idle"]
    /\ req' = [req EXCEPT ![h] = NoRequest]
    /\ base' = [base EXCEPT ![h] = NoGeneration]
    /\ reply' = [reply EXCEPT ![h] = NoReply]
    /\ UNCHANGED <<disk, candidate, crashes>>

\* The process dies and is started again.  __init__ creates the tables if
\* they are missing; it removes no directory, and the .candidate-<uuid>
\* directories of the dead process stay behind under names no one reads.
Crash ==
    /\ crashes < MaxCrashes
    /\ crashes' = crashes + 1
    /\ pc' = [h \in Handlers |-> "idle"]
    /\ req' = [h \in Handlers |-> NoRequest]
    /\ base' = [h \in Handlers |-> NoGeneration]
    /\ candidate' = [h \in Handlers |-> NoGeneration]
    /\ reply' = [h \in Handlers |-> NoReply]
    /\ UNCHANGED disk

Step(h) ==
    \/ ReadCurrent(h)
    \/ BuildCandidate(h) \/ BuildFails(h)
    \/ InstallGeneration(h)
    \/ Commit(h) \/ PublishFails(h)
    \/ SendReply(h)

Next ==
    \/ \E h \in Handlers : \E r \in Requests : Receive(h, r)
    \/ \E h \in Handlers : Step(h)
    \/ Crash

Spec == Init /\ [][Next]_vars

-----------------------------------------------------------------------------
TypeOK ==
    /\ current \in GenerationType \cup {NoGeneration}
    /\ publications \in [PublicationIds -> RowType \cup {NoRow}]
    /\ generations \subseteq GenerationType
    /\ pc \in [Handlers -> {"idle", "read", "build", "install", "commit", "reply"}]
    /\ req \in [Handlers -> Requests \cup {NoRequest}]
    /\ \A h \in Handlers : pc[h] # "idle" => req[h] \in Requests
    /\ base \in [Handlers -> GenerationType \cup {NoGeneration}]
    /\ candidate \in [Handlers -> GenerationType \cup {NoGeneration}]
    /\ \A h \in Handlers : pc[h] = "install" => candidate[h] # NoGeneration
    /\ reply \in [Handlers -> [status : Statuses, row : RowType \cup {NoRow}]]
    /\ crashes \in Nat

\* Whatever was committed before a crash can be served after it: the current
\* pointer and every stored row name a generation directory that is complete,
\* and the current generation is the one of some stored row
\* (n4_derived_data_plane.py: publish renames before it commits; _snapshot
\* would otherwise refuse every later start).
CommittedIsServable ==
    /\ current # NoGeneration =>
          /\ current \in generations
          /\ \E i \in PublicationIds :
                publications[i] # NoRow /\ publications[i].generation = current
    /\ \A i \in PublicationIds :
          publications[i] # NoRow => publications[i].generation \in generations

\* A client told "created" or "replay" for its request holds the receipt of
\* that very request, whose generation serves each artifact it sent; the
\* answer agrees with the durable row whoever committed it
\* (_stored_publication, publish).
ReplyIsDurable ==
    \A h \in Handlers :
        reply[h].status \in {"created", "replay"} =>
            /\ publications[req[h].id] = reply[h].row
            /\ reply[h].row.request = req[h]
            /\ \A k \in Keys :
                  req[h].artifacts[k] # Absent =>
                      reply[h].row.generation.artifacts[k] = req[h].artifacts[k]

\* The committed rows form one chain of versions: two publications never
\* replaced the same version when labels are unique (the compare-and-swap on
\* catalog_version).
OneSuccessor ==
    \A i, j \in PublicationIds :
        /\ publications[i] # NoRow
        /\ publications[j] # NoRow
        /\ publications[i].previous = publications[j].previous
        => i = j

\* A stored receipt is never rewritten or removed, over restarts too.
ReceiptsAreFinal ==
    [][\A i \in PublicationIds :
          publications[i] # NoRow => publications'[i] = publications[i]]_vars

\* The store implements the atomic catalog.
Catalog == INSTANCE N4Catalog WITH catalog <- current, receipts <- publications

CatalogSpec == Catalog!Spec
=============================================================================
