-------------------------- MODULE DataAgentServer --------------------------
(***************************************************************************)
(* The Data Agent's HTTP server (data_agent_server.py): idempotent        *)
(* accesses serialised per access id by a pool of counted locks, artifact  *)
(* transfers that are reserved in memory before a byte is sent and         *)
(* recorded in SQLite afterwards, and telemetry reads that must not call a *)
(* summary complete while a transfer is missing from it.                   *)
(*                                                                         *)
(* An access id is derived from the request, so it stands for the request  *)
(* and its digest.  A response is identified by the number of the          *)
(* execution that produced it.                                             *)
(***************************************************************************)
EXTENDS Naturals, FiniteSets

CONSTANTS
    Handlers,   \* the server's threads
    Accesses    \* access ids

VARIABLES
    operations,   \* data_agent_operations: the stored response, 0 for no row
    rows,         \* data_agent_artifact_downloads: how many, how many in full
    inFlight,     \* _in_flight_downloads
    generation,   \* _download_generations
    entries,      \* _AccessLockPool._entries: the entry of an access id, 0 for none
    references,   \* _LockEntry.references
    locked,       \* the entries whose lock is held
    thread,       \* what each handler is doing
    executions,   \* history: executions that computed a response
    transferred,  \* history: transfers that were ever reserved
    forgotten     \* history: transfers whose reservation a restart dropped

serverVars == <<operations, rows, inFlight, generation, entries, references,
                locked, thread, executions, transferred, forgotten>>

storeVars == <<operations, executions>>
poolVars == <<entries, references, locked>>
transferVars == <<rows, inFlight, generation, transferred, forgotten>>

EntryIds == 1 .. Cardinality(Handlers)
NoSummary == [requests |-> 0, full |-> 0]

\* The locals of a handler; `pc` is its next step, "idle" for a free thread.
Idle == [pc |-> "idle", open |-> FALSE, access |-> CHOOSE a \in Accesses : TRUE, entry |-> 0,
         response |-> 0, full |-> FALSE, mark |-> <<0, 0>>,
         summary |-> NoSummary, complete |-> FALSE]

ServerTypeOK ==
    /\ operations \in [Accesses -> Nat]
    /\ rows \in [Accesses -> [requests : Nat, full : Nat]]
    /\ inFlight \in [Accesses -> Nat]
    /\ generation \in [Accesses -> Nat]
    /\ entries \in [Accesses -> {0} \cup EntryIds]
    /\ references \in [EntryIds -> Nat]
    /\ locked \in SUBSET EntryIds
    /\ thread \in [Handlers ->
          [pc : {"idle", "reference", "lock", "execute", "put", "unlock",
                 "dereference", "begin", "send", "commit", "release", "before",
                 "summary", "after", "answer"},
           open : BOOLEAN, access : Accesses, entry : {0} \cup EntryIds, response : Nat,
           full : BOOLEAN, mark : Nat \X Nat,
           summary : [requests : Nat, full : Nat], complete : BOOLEAN]]
    /\ executions \in [Accesses -> Nat]
    /\ transferred \in [Accesses -> Nat]
    /\ forgotten \in [Accesses -> Nat]

ServerInit ==
    /\ operations = [a \in Accesses |-> 0]
    /\ rows = [a \in Accesses |-> NoSummary]
    /\ inFlight = [a \in Accesses |-> 0]
    /\ generation = [a \in Accesses |-> 0]
    /\ entries = [a \in Accesses |-> 0]
    /\ references = [e \in EntryIds |-> 0]
    /\ locked = {}
    /\ thread = [h \in Handlers |-> Idle]
    /\ executions = [a \in Accesses |-> 0]
    /\ transferred = [a \in Accesses |-> 0]
    /\ forgotten = [a \in Accesses |-> 0]

----------------------------------------------------------------------------
At(h, label) == thread[h].pc = label
Goto(h, label) == thread' = [thread EXCEPT ![h].pc = label]
GotoWith(h, label, response) ==
    thread' = [thread EXCEPT ![h].pc = label, ![h].response = response]

\* A request for access id a reaches a free thread.
Receive(h, label, a) ==
    /\ At(h, "idle")
    /\ thread' = [thread EXCEPT ![h] =
          [Idle EXCEPT !.pc = label, !.open = TRUE, !.access = a]]

\* The answer waits for the client; a thread whose client has gone is free.
End(h, final) ==
    thread' = [thread EXCEPT ![h] =
        IF thread[h].open THEN [final EXCEPT !.pc = "answer"] ELSE Idle]

----------------------------------------------------------------------------
\* POST /v1/access: execute, inside _AccessLockPool.acquire.

\* An entry no handler refers to and the pool does not hold: a new object.
FreshEntry == CHOOSE e \in EntryIds :
    references[e] = 0 /\ \A a \in Accesses : entries[a] # e

Reference(h) ==
    LET a == thread[h].access
        e == IF entries[a] # 0 THEN entries[a] ELSE FreshEntry
    IN  /\ At(h, "reference")
        /\ entries' = [entries EXCEPT ![a] = e]
        /\ references' = [references EXCEPT ![e] = @ + 1]
        /\ thread' = [thread EXCEPT ![h].pc = "lock", ![h].entry = e]
        /\ UNCHANGED <<locked, storeVars, transferVars>>

Lock(h) ==
    /\ At(h, "lock")
    /\ thread[h].entry \notin locked
    /\ locked' = locked \cup {thread[h].entry}
    /\ Goto(h, "execute")
    /\ UNCHANGED <<entries, references, storeVars, transferVars>>

\* store.get: a stored operation is answered as it is, any other request executed.
Execute(h) ==
    LET a == thread[h].access
    IN  /\ At(h, "execute")
        /\ IF operations[a] # 0
           THEN /\ GotoWith(h, "unlock", operations[a])
                /\ UNCHANGED executions
           ELSE /\ executions' = [executions EXCEPT ![a] = @ + 1]
                /\ GotoWith(h, "put", executions[a] + 1)
        /\ UNCHANGED <<operations, poolVars, transferVars>>

\* INSERT; an IntegrityError answers with the row that is there.
PutIfAbsent(h) ==
    LET a == thread[h].access
        stored == IF operations[a] = 0 THEN thread[h].response ELSE operations[a]
    IN  /\ At(h, "put")
        /\ operations' = [operations EXCEPT ![a] = stored]
        /\ GotoWith(h, "unlock", stored)
        /\ UNCHANGED <<executions, poolVars, transferVars>>

\* The file or the database cannot be used: the handler answers 500.
AccessFails(h) ==
    /\ At(h, "execute") \/ At(h, "put")
    /\ GotoWith(h, "unlock", 0)
    /\ UNCHANGED <<poolVars, storeVars, transferVars>>

Unlock(h) ==
    /\ At(h, "unlock")
    /\ locked' = locked \ {thread[h].entry}
    /\ Goto(h, "dereference")
    /\ UNCHANGED <<entries, references, storeVars, transferVars>>

\* The entry leaves the pool with its last reference.
Dereference(h) ==
    LET a == thread[h].access
        e == thread[h].entry
    IN  /\ At(h, "dereference")
        /\ references' = [references EXCEPT ![e] = @ - 1]
        /\ entries' = IF references[e] = 1 THEN [entries EXCEPT ![a] = 0] ELSE entries
        /\ End(h, thread[h])
        /\ UNCHANGED <<locked, storeVars, transferVars>>

----------------------------------------------------------------------------
\* GET /v1/artifacts/<access id>: resolve_artifact and _write_artifact.

\* resolve_artifact, then begin_artifact_download.
BeginDownload(h) ==
    LET a == thread[h].access
    IN  /\ At(h, "begin")
        /\ IF operations[a] = 0
           THEN /\ End(h, thread[h])
                /\ UNCHANGED transferVars
           ELSE /\ inFlight' = [inFlight EXCEPT ![a] = @ + 1]
                /\ generation' = [generation EXCEPT ![a] = @ + 1]
                /\ transferred' = [transferred EXCEPT ![a] = @ + 1]
                /\ Goto(h, "send")
                /\ UNCHANGED <<rows, forgotten>>
        /\ UNCHANGED <<storeVars, poolVars>>

\* The body is written; the client has it before the transfer is recorded.
SendBody(h) ==
    /\ At(h, "send")
    /\ thread' = [thread EXCEPT ![h].pc = "commit", ![h].full = TRUE]
    /\ UNCHANGED <<storeVars, poolVars, transferVars>>

\* The connection or the file breaks off.
BodyBreaks(h) ==
    /\ At(h, "send")
    /\ Goto(h, "commit")
    /\ UNCHANGED <<storeVars, poolVars, transferVars>>

\* record_artifact_download: the row first ...
CommitDownload(h) ==
    LET a == thread[h].access
    IN  /\ At(h, "commit")
        /\ rows' = [rows EXCEPT ![a] =
              [requests |-> rows[a].requests + 1,
               full |-> rows[a].full + (IF thread[h].full THEN 1 ELSE 0)]]
        /\ Goto(h, "release")
        /\ UNCHANGED <<storeVars, poolVars, inFlight, generation, transferred, forgotten>>

\* Mutant: a failed commit gives its reservation back.
CommitFailsReleases(h) ==
    /\ At(h, "commit")
    /\ inFlight' = [inFlight EXCEPT ![thread[h].access] = @ - 1]
    /\ End(h, thread[h])
    /\ UNCHANGED <<storeVars, poolVars, rows, generation, transferred, forgotten>>

\* ... and a failed commit keeps the reservation for ever.
CommitFails(h) ==
    /\ At(h, "commit")
    /\ End(h, thread[h])
    /\ UNCHANGED <<storeVars, poolVars, transferVars>>

\* ... the reservation after it.
ReleaseReservation(h) ==
    /\ At(h, "release")
    /\ inFlight' = [inFlight EXCEPT ![thread[h].access] = @ - 1]
    /\ End(h, thread[h])
    /\ UNCHANGED <<storeVars, poolVars, rows, generation, transferred, forgotten>>

----------------------------------------------------------------------------
\* GET /v1/accesses/<access id>/telemetry: access_telemetry.

Watermark(a) == <<inFlight[a], generation[a]>>

MarkBefore(h) ==
    LET a == thread[h].access
    IN  /\ At(h, "before")
        /\ IF operations[a] = 0
           THEN End(h, thread[h])
           ELSE thread' = [thread EXCEPT ![h].pc = "summary", ![h].response = operations[a],
                                         ![h].mark = Watermark(a)]
        /\ UNCHANGED <<storeVars, poolVars, transferVars>>

ReadSummary(h) ==
    /\ At(h, "summary")
    /\ thread' = [thread EXCEPT ![h].pc = "after", ![h].summary = rows[thread[h].access]]
    /\ UNCHANGED <<storeVars, poolVars, transferVars>>

\* Mutant: the generations are not compared.
StableCounts(before, after) == before[1] = 0 /\ after[1] = 0

Stable(before, after) == before[1] = 0 /\ after[1] = 0 /\ before[2] = after[2]

MarkAfter(h) ==
    /\ At(h, "after")
    /\ End(h, [thread[h] EXCEPT
                   !.complete = Stable(thread[h].mark, Watermark(thread[h].access))])
    /\ UNCHANGED <<storeVars, poolVars, transferVars>>

----------------------------------------------------------------------------
\* The process dies and is started again over the same database.
ServerDies ==
    /\ inFlight' = [a \in Accesses |-> 0]
    /\ generation' = [a \in Accesses |-> 0]
    /\ entries' = [a \in Accesses |-> 0]
    /\ references' = [e \in EntryIds |-> 0]
    /\ locked' = {}
    /\ thread' = [h \in Handlers |-> Idle]
    /\ forgotten' = [a \in Accesses |-> transferred[a] - rows[a].requests]
    /\ UNCHANGED <<operations, rows, executions, transferred>>

ServerStep(h) ==
    \/ Reference(h) \/ Lock(h) \/ Execute(h) \/ PutIfAbsent(h)
    \/ Unlock(h) \/ Dereference(h)
    \/ BeginDownload(h) \/ SendBody(h) \/ CommitDownload(h) \/ ReleaseReservation(h)
    \/ MarkBefore(h) \/ ReadSummary(h) \/ MarkAfter(h)

ServerFault(h) == AccessFails(h) \/ BodyBreaks(h) \/ CommitFails(h)

----------------------------------------------------------------------------
\* One access id is never executed by two handlers at a time, whichever of them
\* waited for the lock, failed, or came after the entry left the pool
\* (_AccessLockPool.acquire, execute).
ExecutesAlone ==
    \A g, h \in Handlers :
        /\ thread[g].pc \in {"execute", "put"}
        /\ thread[h].pc \in {"execute", "put"}
        /\ thread[g].access = thread[h].access
        => g = h

\* Handlers that have recorded their transfer and still hold its reservation.
Releasing(a) == {h \in Handlers : At(h, "release") /\ thread[h].access = a}

\* Every transfer that was ever reserved is in a row, or still reserved, or was
\* forgotten by a restart: neither a broken connection nor a failed commit makes
\* one disappear (begin_artifact_download, record_artifact_download).
TransfersAccounted ==
    \A a \in Accesses :
        rows[a].requests + inFlight[a] + forgotten[a]
            = transferred[a] + Cardinality(Releasing(a))

\* A summary that is called complete counts every transfer reserved until that
\* moment, except those a restart has forgotten: none is missing because it
\* started, or started and ended, while the summary was read (access_telemetry).
CompleteIsExact ==
    [][\A h \in Handlers :
          (~thread[h].complete /\ thread'[h].complete) =>
              thread[h].summary.requests + forgotten[thread[h].access]
                  = transferred[thread[h].access]]_serverVars
=============================================================================
