-------------------------- MODULE PilotSessionProofs --------------------------
(***************************************************************************)
(* Proofs about a pilot session, for any finite number of handlers and     *)
(* tool calls, any representations, prices and limits, and any number of   *)
(* time-outs, failures and deaths of the three processes: accesses are     *)
(* executed alone and within the limits, no transfer is lost, a complete   *)
(* summary is exact, and the recorded outcome is that of the one workflow  *)
(* submitted and counts its transfers.                                     *)
(***************************************************************************)
EXTENDS PilotSession, WellFoundedInduction, FiniteSetTheorems, TLAPS

-----------------------------------------------------------------------------
(* The inductive invariant.                                                *)

PooledSteps == {"lock", "execute", "put", "unlock", "dereference"}
HoldingSteps == {"execute", "put", "unlock"}
TransferSteps == {"send", "commit", "release"}
Pooled(h) == thread[h].pc \in PooledSteps
Holding(h) == thread[h].pc \in HoldingSteps
Sharing(e) == {h \in Handlers : Pooled(h) /\ thread[h].entry = e}
Transferring(a) == {h \in Handlers : thread[h].pc \in TransferSteps /\ thread[h].access = a}

\* The pool has one entry for an access id while any handler refers to it, as
\* many references as there are such handlers, and a lock one of them holds.
PoolIsExact ==
    /\ \A h \in Handlers : Pooled(h) =>
          thread[h].entry # 0 /\ entries[thread[h].access] = thread[h].entry
    /\ \A e \in EntryIds : references[e] = Cardinality(Sharing(e))
    /\ \A a \in Accesses : entries[a] # 0 => \E h \in Handlers : Pooled(h) /\ thread[h].access = a
    /\ \A a, b \in Accesses : entries[a] # 0 /\ entries[a] = entries[b] => a = b
    /\ \A h \in Handlers : Holding(h) => thread[h].entry \in locked
    /\ \A g, h \in Handlers : Holding(g) /\ Holding(h) /\ thread[g].entry = thread[h].entry => g = h

\* Every transfer under way has its reservation.
TransfersReserved ==
    /\ TransfersAccounted
    /\ \A a \in Accesses : Cardinality(Transferring(a)) <= inFlight[a]

\* What a handler is about to answer is stored.
IsStored(h) ==
    ~At(h, "put") /\ thread[h].response # 0 => operations[thread[h].access] = thread[h].response
AnswersAreStored == \A h \in Handlers : IsStored(h)

\* A complete summary is one that is answered.
CompleteIsAnswered == \A h \in Handlers : thread[h].complete => At(h, "answer")

\* While the generation is the one before the summary, and nothing was in
\* flight then, no row has changed.
MarkHolds(h) ==
    thread[h].pc \in {"summary", "after"} =>
        LET a == thread[h].access
        IN  /\ thread[h].mark[2] <= generation[a]
            /\ thread[h].mark[1] = 0 /\ thread[h].mark[2] = generation[a] =>
                  /\ inFlight[a] = 0
                  /\ At(h, "after") => thread[h].summary = rows[a]
MarksHold == \A h \in Handlers : MarkHolds(h)

ServerInv ==
    /\ ServerTypeOK /\ PoolIsExact /\ TransfersReserved
    /\ AnswersAreStored /\ CompleteIsAnswered /\ MarksHold

\* The access a caller's HTTP call is about.
Asks(c) == IF c = Runner THEN AccessOf(events[runner.next]) ELSE RequestOf(c)

\* A call has a handler of its own, which goes on with its request.
IsServed(c) ==
    link[c] \in Handlers =>
        ~At(link[c], "idle") /\ thread[link[c]].open /\ thread[link[c]].access = Asks(c)
LinksAreServed ==
    /\ \A c \in Callers : IsServed(c)
    /\ \A b, c \in Callers : link[b] \in Handlers /\ link[b] = link[c] => b = c
    /\ \A t \in Tools : link[t] # None => tool[t].pc \in {"await", "receive"}
    /\ link[Runner] # None => RunnerAt("await")

\* A tool call past the lock holds it; an access keeps the next index and what
\* it was admitted for, a fetch is of an accepted event.
GateFits(t) ==
    /\ tool[t].pc \notin {"idle", "lock"} => gateLock = t
    /\ tool[t].fetch /\ tool[t].pc # "idle" => tool[t].index < Len(events)
    /\ tool[t].pc \in {"download", "receive"} => tool[t].fetch
    /\ tool[t].pc = "append" =>
          ~tool[t].fetch /\ tool[t].response # 0 /\ operations[RequestOf(t)] = tool[t].response
    /\ ~tool[t].fetch /\ tool[t].pc \in {"send", "await", "append"} =>
          tool[t].index = Len(events) /\ Affordable(tool[t].rep)
GateIsHeld ==
    /\ \A t \in Tools : GateFits(t)
    /\ Len(events) + Open(FALSE) <= MaxEvents

\* Events and transfers are of accesses the gateway has made.
EventsAreOrdered ==
    /\ \A i \in 1 .. Len(events) : events[i].index = i - 1
    /\ \A i \in Accepted : events[i].response # 0
    /\ \A i \in Accepted : events[i].figures.requests <= transferred[AccessOf(events[i])]
    /\ \A h \in Handlers : At(h, "begin") => thread[h].access[1] < Len(events)
    /\ \A a \in Accesses : transferred[a] > 0 => a[1] < Len(events)
    /\ EventsAreOperations
    /\ Cardinality(Accepted) <= MaxAccesses
    /\ Spent <= Budget

Reconciling == {"collect", "await", "polling", "write"}

\* The pilot's step fits the session, the workflow and the record.
RunnerAgrees ==
    /\ submissions <= 1
    /\ status = "NONE" \/ runner.pc \in {"register", "submit"} => submissions = 0
    /\ RunnerAt("register") => status = "NONE"
    /\ RunnerAt("submit") => status = "CREATED"
    /\ status = "FAILED" => runner.pc \in {"down", "record", "unsaved", "over"}
    /\ status = "DONE" => runner.pc \in {"down", "fail", "record", "unsaved", "over"}
    /\ status = "DONE" => mesh = "done"
    /\ runner.pc \in Reconciling => mesh = "done"
    /\ runner.pc \notin {"record", "over"} => ~runner.ok
    /\ RunnerAt("record") => IF runner.ok THEN status = "DONE" ELSE status \in {"FAILED", "NONE"}
    /\ recorded # "none" => RunnerAt("over")
    /\ RecordAgrees

\* Figures that count what was due to an event.
Counts(figures, a) ==
    figures.requests + forgotten[a] >= due[a] /\ figures.requests <= transferred[a]

\* What was due is transferred; a run of the pilot starts afresh.
DueTransferred == \A a \in Accesses : due[a] <= transferred[a]
StartsAfresh ==
    runner.pc \in {"register", "submit", "bind", "wait"} => runner.next = 1 /\ runner.pending = <<>>

\* What the pilot has collected counts, and the answer it waits for will.
PendingCounts ==
    runner.pc \in Reconciling =>
        /\ runner.upto <= Len(events) /\ runner.next <= runner.upto + 1
        /\ Len(runner.pending) = IF RunnerAt("write") THEN runner.upto ELSE runner.next - 1
        /\ \A a \in Accesses : due[a] > 0 => a[1] < runner.upto
        /\ \A i \in Accepted : i <= Len(runner.pending) =>
              Counts(runner.pending[i], AccessOf(events[i]))
AwaitsAccepted ==
    RunnerAt("await") => runner.next <= runner.upto /\ events[runner.next].accepted
AnswerCounts ==
    link[Runner] \in Handlers /\ thread[link[Runner]].complete =>
        Counts(thread[link[Runner]].summary, thread[link[Runner]].access)

\* What it has written is what it collected.
WrittenIsPending ==
    RunnerAt("write") =>
        \A i \in Accepted : i < runner.next => events[i].figures = runner.pending[i]

CollectedCounts ==
    /\ DueTransferred /\ StartsAfresh
    /\ PendingCounts /\ AwaitsAccepted /\ AnswerCounts /\ WrittenIsPending
    /\ SuccessIsCounted

RunnerTypeOK ==
    runner \in [pc : {"down", "register", "submit", "bind", "wait", "collect", "await",
                      "polling", "write", "fail", "record", "unsaved", "over"},
                next : Nat \ {0}, upto : Nat,
                pending : Seq([requests : Nat, full : Nat]), ok : BOOLEAN]

IInv ==
    /\ TypeOK /\ RunnerTypeOK /\ ServerInv /\ LinksAreServed /\ GateIsHeld
    /\ EventsAreOrdered /\ RunnerAgrees /\ CollectedCounts
-----------------------------------------------------------------------------
(* The Data Agent's server.                                                *)

Handling ==
    [pc : {"idle", "reference", "lock", "execute", "put", "unlock",
           "dereference", "begin", "send", "commit", "release", "before",
           "summary", "after", "answer"},
     open : BOOLEAN, access : Accesses, entry : {0} \cup EntryIds, response : Nat,
     full : BOOLEAN, mark : Nat \X Nat,
     summary : [requests : Nat, full : Nat], complete : BOOLEAN]

\* What the server's clients do to it: a request reaches a free handler, or the
\* client of a request has gone.
Departs(h) ==
    thread' = [thread EXCEPT ![h] =
        IF At(h, "answer") THEN Idle ELSE [thread[h] EXCEPT !.open = FALSE]]

ClientStep ==
    /\ \E h \in Handlers :
          \/ Departs(h)
          \/ \E label \in {"reference", "begin", "before"}, a \in Accesses : Receive(h, label, a)
    /\ UNCHANGED <<storeVars, poolVars, transferVars>>

ServerNext ==
    \/ \E h \in Handlers : ServerStep(h) \/ ServerFault(h)
    \/ ClientStep
    \/ ServerDies
    \/ UNCHANGED serverVars

LEMMA Sizes ==
    /\ IsFiniteSet(Handlers) /\ Cardinality(Handlers) \in Nat
    /\ EntryIds \subseteq Nat \ {0}
    /\ \A S \in SUBSET Handlers : IsFiniteSet(S) /\ Cardinality(S) \in Nat
                                  /\ Cardinality(S) <= Cardinality(Handlers)
    /\ Accesses # {}
<1>1. IsFiniteSet(Handlers) /\ Cardinality(Handlers) \in Nat
  BY PilotAssumption, FS_CardinalityType
<1>2. EntryIds \subseteq Nat \ {0}
  BY <1>1 DEF EntryIds
<1>3. ASSUME NEW S \in SUBSET Handlers
      PROVE  IsFiniteSet(S) /\ Cardinality(S) \in Nat /\ Cardinality(S) <= Cardinality(Handlers)
  BY <1>1, FS_Subset, FS_CardinalityType
<1>4. Accesses # {}
  <2>1. PICK r \in Reps : TRUE
    BY PilotAssumption
  <2>2. 0 \in 0 .. MaxEvents - 1
    BY PilotAssumption
  <2>3. <<0, r>> \in Accesses
    BY <2>1, <2>2, PilotAssumption
  <2> QED
    BY <2>3
<1> QED
  BY <1>1, <1>2, <1>3, <1>4

LEMMA IdleType ==
    /\ Idle \in Handling
    /\ Idle.pc = "idle" /\ Idle.response = 0 /\ ~Idle.open /\ ~Idle.complete
<1>1. (CHOOSE a \in Accesses : TRUE) \in Accesses
  BY Sizes
<1> QED
  BY <1>1 DEF Idle, Handling, NoSummary

LEMMA ThreadType == ServerTypeOK <=>
    /\ operations \in [Accesses -> Nat]
    /\ rows \in [Accesses -> [requests : Nat, full : Nat]]
    /\ inFlight \in [Accesses -> Nat]
    /\ generation \in [Accesses -> Nat]
    /\ entries \in [Accesses -> {0} \cup EntryIds]
    /\ references \in [EntryIds -> Nat]
    /\ locked \in SUBSET EntryIds
    /\ thread \in [Handlers -> Handling]
    /\ executions \in [Accesses -> Nat]
    /\ transferred \in [Accesses -> Nat]
    /\ forgotten \in [Accesses -> Nat]
BY DEF ServerTypeOK, Handling

LEMMA Ends ==
    ASSUME ServerTypeOK, NEW h \in Handlers, NEW final \in Handling, End(h, final)
    PROVE  /\ thread' \in [Handlers -> Handling]
           /\ \A g \in Handlers \ {h} : thread'[g] = thread[g]
           /\ IF thread[h].open
              THEN thread'[h] = [final EXCEPT !.pc = "answer"] ELSE thread'[h] = Idle
<1>1. [final EXCEPT !.pc = "answer"] \in Handling
  BY DEF Handling
<1>2. thread \in [Handlers -> Handling]
  BY ThreadType
<1> QED
  BY <1>1, <1>2, IdleType DEF End

LEMMA HandlerType ==
    ASSUME ServerTypeOK, NEW h \in Handlers
    PROVE  /\ thread[h] \in Handling
           /\ thread[h].access \in Accesses /\ thread[h].entry \in {0} \cup EntryIds
           /\ thread[h].response \in Nat /\ thread[h].open \in BOOLEAN
           /\ thread[h].mark \in Nat \X Nat /\ thread[h].complete \in BOOLEAN
           /\ thread[h].summary \in [requests : Nat, full : Nat]
BY DEF ServerTypeOK, Handling

\* The handlers a step leaves alone, and what it does to the one it is of.
LEMMA OnlyOne ==
    ASSUME ServerTypeOK, NEW h \in Handlers, ServerStep(h) \/ ServerFault(h)
    PROVE  \A g \in Handlers \ {h} : thread'[g] = thread[g]
<1>1. thread[h] \in Handling
  BY HandlerType
<1>2. [thread[h] EXCEPT !.complete =
          Stable(thread[h].mark, Watermark(thread[h].access))] \in Handling
  BY <1>1 DEF Handling, Stable
<1> USE ThreadType
<1>3. CASE Reference(h)
  BY <1>3 DEF Reference
<1>4. CASE Lock(h) \/ Execute(h) \/ PutIfAbsent(h) \/ Unlock(h) \/ AccessFails(h)
  BY <1>4 DEF Lock, Execute, PutIfAbsent, Unlock, AccessFails, Goto, GotoWith
<1>5. CASE SendBody(h) \/ CommitDownload(h) \/ ReadSummary(h) \/ BodyBreaks(h)
  BY <1>5 DEF SendBody, CommitDownload, ReadSummary, BodyBreaks, Goto
<1>6. CASE Dereference(h) \/ ReleaseReservation(h) \/ CommitFails(h)
  BY <1>6 DEF Dereference, ReleaseReservation, CommitFails, End
<1>7. CASE BeginDownload(h)
  BY <1>7 DEF BeginDownload, End, Goto
<1>8. CASE MarkBefore(h) \/ MarkAfter(h)
  BY <1>8 DEF MarkBefore, MarkAfter, End
<1> QED
  BY <1>3, <1>4, <1>5, <1>6, <1>7, <1>8 DEF ServerStep, ServerFault

\* Fewer entries are in use than there are handlers, so there is another one.
LEMMA FreshExists ==
    ASSUME ServerTypeOK, PoolIsExact, NEW h \in Handlers, ~Pooled(h)
    PROVE  /\ FreshEntry \in EntryIds
           /\ references[FreshEntry] = 0
           /\ \A a \in Accesses : entries[a] # FreshEntry
<1> DEFINE S == {g \in Handlers : Pooled(g)}
           f == [g \in S |-> thread[g].entry]
           T == {f[g] : g \in S}
<1>1. IsFiniteSet(S) /\ Cardinality(S) \in Nat /\ Cardinality(S) < Cardinality(Handlers)
  <2>1. S \in SUBSET (Handlers \ {h})
    OBVIOUS
  <2>2. IsFiniteSet(Handlers \ {h}) /\ Cardinality(Handlers \ {h}) = Cardinality(Handlers) - 1
    BY Sizes, FS_RemoveElement
  <2> HIDE DEF S
  <2>3. IsFiniteSet(S) /\ Cardinality(S) <= Cardinality(Handlers \ {h})
    BY <2>1, <2>2, FS_Subset
  <2>4. Cardinality(S) \in Nat
    BY <2>3, FS_CardinalityType
  <2> QED
    BY <2>2, <2>3, <2>4, Sizes
<1>2. \A g \in S : g \in Handlers /\ Pooled(g) /\ f[g] = thread[g].entry
  OBVIOUS
<1>3. \A g \in Handlers : Pooled(g) => g \in S
  OBVIOUS
<1>4. f \in Surjection(S, T)
  <2>1. f \in [S -> T]
    OBVIOUS
  <2>2. \A t \in T : \E g \in S : f[g] = t
    OBVIOUS
  <2> HIDE DEF S, f, T
  <2> QED
    BY <2>1, <2>2 DEF Surjection
<1>5. \A g \in S : f[g] \in T
  OBVIOUS
<1>6. \A e \in T : \E g \in S : e = f[g]
  OBVIOUS
<1> HIDE DEF S, f, T
<1>7. Cardinality(T) <= Cardinality(S) /\ IsFiniteSet(T) /\ Cardinality(T) \in Nat
  BY <1>1, <1>4, FS_Surjection, FS_CardinalityType
<1>8. Cardinality(EntryIds) = Cardinality(Handlers)
  <2>1. Cardinality(1 .. Cardinality(Handlers))
           = IF 1 > Cardinality(Handlers) THEN 0 ELSE Cardinality(Handlers) - 1 + 1
    BY Sizes, FS_Interval
  <2>2. Cardinality(1 .. Cardinality(Handlers)) = Cardinality(Handlers)
    BY <2>1, Sizes
  <2> QED
    BY <2>2 DEF EntryIds
<1>9. T # EntryIds
  BY <1>1, <1>7, <1>8, Sizes
<1>10. T \subseteq EntryIds
  <2> SUFFICES ASSUME NEW e \in T PROVE e \in EntryIds
    OBVIOUS
  <2>1. PICK g \in S : e = f[g]
    BY <1>6
  <2>2. g \in Handlers /\ Pooled(g) /\ e = thread[g].entry
    BY <1>2, <2>1
  <2>3. e # 0 /\ e \in {0} \cup EntryIds
    BY <2>2, HandlerType DEF PoolIsExact
  <2> QED
    BY <2>3
<1>11. PICK e \in EntryIds : e \notin T
  BY <1>9, <1>10
<1>12. references[e] = 0
  <2>1. Sharing(e) = {}
    BY <1>2, <1>3, <1>5, <1>11 DEF Sharing
  <2> QED
    BY <2>1, FS_EmptySet DEF PoolIsExact
<1>13. ASSUME NEW a \in Accesses PROVE entries[a] # e
  <2> SUFFICES ASSUME entries[a] = e PROVE FALSE
    OBVIOUS
  <2>1. e # 0
    BY Sizes
  <2>2. PICK g \in Handlers : Pooled(g) /\ thread[g].access = a
    BY <2>1 DEF PoolIsExact
  <2>3. thread[g].entry = e
    BY <2>2 DEF PoolIsExact
  <2>4. f[g] = e
    BY <1>2, <1>3, <2>2, <2>3
  <2> QED
    BY <1>3, <1>5, <1>11, <2>2, <2>4
<1> QED
  BY <1>11, <1>12, <1>13 DEF FreshEntry

LEMMA SharingSize ==
    ASSUME NEW e PROVE IsFiniteSet(Sharing(e)) /\ Cardinality(Sharing(e)) \in Nat
<1>1. Sharing(e) \in SUBSET Handlers
  BY DEF Sharing
<1> QED
  BY <1>1, Sizes

LEMMA TransferringSize ==
    ASSUME NEW a
    PROVE  /\ IsFiniteSet(Transferring(a)) /\ Cardinality(Transferring(a)) \in Nat
           /\ IsFiniteSet(Releasing(a)) /\ Cardinality(Releasing(a)) \in Nat
           /\ Cardinality(Releasing(a)) <= Cardinality(Transferring(a))
           /\ \A h \in Transferring(a) : Cardinality(Transferring(a)) >= 1
<1>1. Transferring(a) \in SUBSET Handlers /\ Releasing(a) \in SUBSET Transferring(a)
  BY DEF Transferring, Releasing, TransferSteps, At
<1>2. IsFiniteSet(Transferring(a)) /\ Cardinality(Transferring(a)) \in Nat
  BY <1>1, Sizes
<1>3. /\ IsFiniteSet(Releasing(a)) /\ Cardinality(Releasing(a)) \in Nat
      /\ Cardinality(Releasing(a)) <= Cardinality(Transferring(a))
  BY <1>1, <1>2, FS_Subset, FS_CardinalityType
<1>4. Transferring(a) # {} => Cardinality(Transferring(a)) >= 1
  BY <1>2, FS_EmptySet
<1> QED
  BY <1>2, <1>3, <1>4

\* No row counts a transfer that was not reserved.
LEMMA RowsWithin ==
    ASSUME ServerTypeOK, TransfersReserved, NEW a \in Accesses
    PROVE  /\ rows[a].requests \in Nat /\ forgotten[a] \in Nat /\ transferred[a] \in Nat
           /\ inFlight[a] \in Nat
           /\ rows[a].requests + forgotten[a] <= transferred[a]
<1>1. /\ rows[a].requests \in Nat /\ forgotten[a] \in Nat /\ transferred[a] \in Nat
      /\ inFlight[a] \in Nat
  BY DEF ServerTypeOK
<1>2. /\ Cardinality(Releasing(a)) \in Nat /\ Cardinality(Transferring(a)) \in Nat
      /\ Cardinality(Releasing(a)) <= Cardinality(Transferring(a))
  BY TransferringSize
<1>3. /\ rows[a].requests + inFlight[a] + forgotten[a] = transferred[a] + Cardinality(Releasing(a))
      /\ Cardinality(Transferring(a)) <= inFlight[a]
  BY DEF TransfersReserved, TransfersAccounted
<1> QED
  BY <1>1, <1>2, <1>3

-----------------------------------------------------------------------------
(* Steps of the server keep the types.                                     *)

LEMMA ServerTypeStep ==
    ASSUME ServerInv, ServerNext
    PROVE  ServerTypeOK'
<1>0. ServerTypeOK /\ PoolIsExact /\ TransfersReserved
  BY DEF ServerInv
<1>1. ASSUME NEW h \in Handlers, ServerStep(h) \/ ServerFault(h) PROVE ServerTypeOK'
  <2> DEFINE a == thread[h].access
  <2>0. thread[h] \in Handling /\ a \in Accesses /\ thread[h].response \in Nat
    BY <1>0, HandlerType
  <2>1. CASE Reference(h)
    <3>1. ~Pooled(h)
      BY <2>1 DEF Reference, At, Pooled, PooledSteps
    <3> DEFINE e == IF entries[a] # 0 THEN entries[a] ELSE FreshEntry
    <3>2. e \in EntryIds
      BY <1>0, <2>0, <3>1, FreshExists DEF ServerTypeOK
    <3>3. /\ entries' = [entries EXCEPT ![a] = e]
          /\ references' = [references EXCEPT ![e] = references[e] + 1]
          /\ thread' = [thread EXCEPT ![h].pc = "lock", ![h].entry = e]
          /\ UNCHANGED <<locked, operations, executions, rows, inFlight, generation,
                         transferred, forgotten>>
      BY <2>1 DEF Reference, storeVars, transferVars
    <3> HIDE DEF e, a
    <3>4. references' \in [EntryIds -> Nat] /\ entries' \in [Accesses -> {0} \cup EntryIds]
      BY <1>0, <2>0, <3>2, <3>3 DEF ServerTypeOK
    <3>5. thread' \in [Handlers -> Handling]
      BY <1>0, <2>0, <3>2, <3>3, ThreadType DEF Handling
    <3> QED
      BY <1>0, <3>3, <3>4, <3>5 DEF ServerTypeOK, Handling
  <2>2. CASE Lock(h)
    <3>1. thread[h].entry \in EntryIds
      BY <1>0, <2>2, HandlerType DEF PoolIsExact, Pooled, PooledSteps, Lock, At
    <3>2. locked' \in SUBSET EntryIds
      BY <1>0, <2>2, <3>1 DEF Lock, ServerTypeOK
    <3>3. thread' \in [Handlers -> Handling]
      BY <1>0, <2>0, <2>2, ThreadType DEF Lock, Goto, Handling
    <3> QED
      BY <1>0, <2>2, <3>2, <3>3 DEF ServerTypeOK, Handling, Lock, storeVars, transferVars
  <2>3. CASE Execute(h)
    <3>1. executions' \in [Accesses -> Nat]
      BY <1>0, <2>0, <2>3 DEF Execute, ServerTypeOK
    <3>2. operations[a] \in Nat /\ executions[a] + 1 \in Nat
      BY <1>0, <2>0 DEF ServerTypeOK
    <3>3. thread' = [thread EXCEPT ![h].pc = "unlock", ![h].response = operations[a]]
          \/ thread' = [thread EXCEPT ![h].pc = "put", ![h].response = executions[a] + 1]
      BY <2>3 DEF Execute, GotoWith
    <3>4. thread' \in [Handlers -> Handling]
      <4>1. CASE thread' = [thread EXCEPT ![h].pc = "unlock", ![h].response = operations[a]]
        BY <1>0, <2>0, <3>2, <4>1, ThreadType DEF Handling
      <4>2. CASE thread' = [thread EXCEPT ![h].pc = "put", ![h].response = executions[a] + 1]
        BY <1>0, <2>0, <3>2, <4>2, ThreadType DEF Handling
      <4> QED
        BY <3>3, <4>1, <4>2
    <3> QED
      BY <1>0, <2>3, <3>1, <3>4 DEF ServerTypeOK, Handling, Execute, poolVars, transferVars
  <2>4. CASE PutIfAbsent(h)
    <3>1. thread' \in [Handlers -> Handling] /\ operations' \in [Accesses -> Nat]
      BY <1>0, <2>0, <2>4, ThreadType DEF PutIfAbsent, GotoWith, Handling
    <3> QED
      BY <1>0, <2>4, <3>1 DEF ServerTypeOK, Handling, PutIfAbsent, poolVars, transferVars
  <2>5. CASE Unlock(h)
    <3>1. thread' \in [Handlers -> Handling] /\ locked' \in SUBSET EntryIds
      BY <1>0, <2>0, <2>5, ThreadType DEF Unlock, Goto, Handling
    <3> QED
      BY <1>0, <2>5, <3>1 DEF ServerTypeOK, Handling, Unlock, storeVars, transferVars
  <2>6. CASE Dereference(h)
    <3> DEFINE e == thread[h].entry
    <3>1. Pooled(h) /\ e \in EntryIds
      BY <1>0, <2>6, HandlerType DEF PoolIsExact, Pooled, PooledSteps, Dereference, At
    <3>2. references[e] = Cardinality(Sharing(e)) /\ h \in Sharing(e)
      BY <1>0, <3>1 DEF PoolIsExact, Sharing
    <3>3. references[e] - 1 \in Nat
      BY <3>2, SharingSize, FS_EmptySet
    <3>4. /\ references' = [references EXCEPT ![e] = references[e] - 1]
          /\ entries' = entries \/ entries' = [entries EXCEPT ![a] = 0]
          /\ End(h, thread[h])
      BY <2>6 DEF Dereference
    <3>5. thread' \in [Handlers -> Handling]
      BY <1>0, <2>0, <3>4, Ends
    <3> HIDE DEF e, a
    <3>6. references' \in [EntryIds -> Nat] /\ entries' \in [Accesses -> {0} \cup EntryIds]
      BY <1>0, <2>0, <3>1, <3>3, <3>4 DEF ServerTypeOK
    <3> QED
      BY <1>0, <2>6, <3>5, <3>6 DEF ServerTypeOK, Handling, Dereference, storeVars, transferVars
  <2>7. CASE BeginDownload(h)
    <3>1. thread' \in [Handlers -> Handling]
      <4>1. CASE End(h, thread[h])
        BY <1>0, <2>0, <4>1, Ends
      <4>2. CASE Goto(h, "send")
        BY <1>0, <2>0, <4>2, ThreadType DEF Goto, Handling
      <4> QED
        BY <2>7, <4>1, <4>2 DEF BeginDownload
    <3>2. /\ inFlight' \in [Accesses -> Nat] /\ generation' \in [Accesses -> Nat]
          /\ transferred' \in [Accesses -> Nat] /\ UNCHANGED <<rows, forgotten>>
      <4>1. CASE UNCHANGED transferVars
        BY <1>0, <4>1 DEF ServerTypeOK, transferVars
      <4>2. CASE /\ inFlight' = [inFlight EXCEPT ![a] = inFlight[a] + 1]
                 /\ generation' = [generation EXCEPT ![a] = generation[a] + 1]
                 /\ transferred' = [transferred EXCEPT ![a] = transferred[a] + 1]
                 /\ UNCHANGED <<rows, forgotten>>
        BY <1>0, <2>0, <4>2 DEF ServerTypeOK
      <4> QED
        BY <2>7, <4>1, <4>2 DEF BeginDownload
    <3> QED
      BY <1>0, <2>7, <3>1, <3>2 DEF ServerTypeOK, Handling, BeginDownload, storeVars, poolVars
  <2>8. CASE SendBody(h) \/ BodyBreaks(h) \/ ReadSummary(h) \/ AccessFails(h)
    <3>1. thread' \in [Handlers -> Handling]
      <4>1. CASE SendBody(h)
        BY <1>0, <2>0, <4>1, ThreadType DEF SendBody, Handling
      <4>4. CASE BodyBreaks(h)
        BY <1>0, <2>0, <4>4, ThreadType DEF BodyBreaks, Goto, Handling
      <4>3. CASE AccessFails(h)
        BY <1>0, <2>0, <4>3, ThreadType DEF AccessFails, GotoWith, Handling
      <4>2. CASE ReadSummary(h)
        <5>1. rows[a] \in [requests : Nat, full : Nat]
          BY <1>0, <2>0 DEF ServerTypeOK
        <5> QED
          BY <1>0, <2>0, <4>2, <5>1, ThreadType DEF ReadSummary, Handling
      <4> QED
        BY <2>8, <4>1, <4>2, <4>3, <4>4
    <3>2. UNCHANGED <<storeVars, poolVars, transferVars>>
      BY <2>8 DEF SendBody, BodyBreaks, ReadSummary, AccessFails
    <3> QED
      BY <1>0, <3>1, <3>2 DEF ServerTypeOK, Handling, storeVars, poolVars, transferVars
  <2>9. CASE CommitDownload(h)
    <3>1. thread' \in [Handlers -> Handling]
      BY <1>0, <2>0, <2>9, ThreadType DEF CommitDownload, Goto, Handling
    <3>2. rows' \in [Accesses -> [requests : Nat, full : Nat]]
      <4>1. rows[a] \in [requests : Nat, full : Nat] /\ rows \in [Accesses -> [requests : Nat, full : Nat]]
        BY <1>0, <2>0 DEF ServerTypeOK
      <4>2. rows' = [rows EXCEPT ![a] = [requests |-> rows[a].requests + 1,
                          full |-> rows[a].full + (IF thread[h].full THEN 1 ELSE 0)]]
        BY <2>9 DEF CommitDownload
      <4> HIDE DEF a
      <4>3. rows[a].requests + 1 \in Nat /\ rows[a].full + (IF thread[h].full THEN 1 ELSE 0) \in Nat
        BY <4>1
      <4> QED
        BY <2>0, <4>1, <4>2, <4>3
    <3> QED
      BY <1>0, <2>9, <3>1, <3>2 DEF ServerTypeOK, Handling, CommitDownload, storeVars, poolVars
  <2>10. CASE CommitFails(h)
    <3>1. thread' \in [Handlers -> Handling]
      BY <1>0, <2>0, <2>10, Ends DEF CommitFails
    <3> QED
      BY <1>0, <2>10, <3>1 DEF ServerTypeOK, Handling, CommitFails, storeVars, poolVars, transferVars
  <2>11. CASE ReleaseReservation(h)
    <3>1. thread' \in [Handlers -> Handling]
      BY <1>0, <2>0, <2>11, Ends DEF ReleaseReservation
    <3>2. h \in Transferring(a)
      BY <2>11 DEF ReleaseReservation, Transferring, TransferSteps, At
    <3>3. inFlight[a] \in Nat /\ inFlight[a] - 1 \in Nat
      BY <1>0, <2>0, <3>2, TransferringSize DEF TransfersReserved, ServerTypeOK
    <3>4. inFlight' \in [Accesses -> Nat]
      BY <1>0, <2>0, <2>11, <3>3 DEF ReleaseReservation, ServerTypeOK
    <3> QED
      BY <1>0, <2>11, <3>1, <3>4 DEF ServerTypeOK, Handling, ReleaseReservation, storeVars, poolVars
  <2>12. CASE MarkBefore(h)
    <3>1. thread' \in [Handlers -> Handling]
      <4>1. CASE End(h, thread[h])
        BY <1>0, <2>0, <4>1, Ends
      <4>2. operations[a] \in Nat /\ Watermark(a) \in Nat \X Nat
        BY <1>0, <2>0 DEF ServerTypeOK, Watermark
      <4>3. CASE thread' = [thread EXCEPT ![h].pc = "summary", ![h].response = operations[a],
                                          ![h].mark = Watermark(a)]
        BY <1>0, <2>0, <4>2, <4>3, ThreadType DEF Handling
      <4> QED
        BY <2>12, <4>1, <4>3 DEF MarkBefore
    <3> QED
      BY <1>0, <2>12, <3>1 DEF ServerTypeOK, Handling, MarkBefore, storeVars, poolVars, transferVars
  <2>13. CASE MarkAfter(h)
    <3>1. [thread[h] EXCEPT !.complete = Stable(thread[h].mark, Watermark(a))] \in Handling
      BY <2>0 DEF Handling, Stable
    <3>2. thread' \in [Handlers -> Handling]
      BY <1>0, <2>0, <2>13, <3>1, Ends DEF MarkAfter
    <3> QED
      BY <1>0, <2>13, <3>2 DEF ServerTypeOK, Handling, MarkAfter, storeVars, poolVars, transferVars
  <2> QED
    BY <1>1, <2>1, <2>2, <2>3, <2>4, <2>5, <2>6, <2>7, <2>8, <2>9, <2>10, <2>11, <2>12, <2>13
       DEF ServerStep, ServerFault
<1>2. CASE ClientStep
  <2>1. PICK h \in Handlers :
          \/ Departs(h)
          \/ \E label \in {"reference", "begin", "before"}, a \in Accesses : Receive(h, label, a)
    BY <1>2 DEF ClientStep
  <2>2. thread[h] \in Handling
    BY <1>0, HandlerType
  <2>3. thread' \in [Handlers -> Handling]
    <3>1. CASE Departs(h)
      <4>1. [thread[h] EXCEPT !.open = FALSE] \in Handling
        BY <2>2 DEF Handling
      <4> QED
        BY <1>0, <3>1, <4>1, IdleType, ThreadType DEF Departs
    <3>2. ASSUME NEW label \in {"reference", "begin", "before"}, NEW a \in Accesses, Receive(h, label, a)
          PROVE  thread' \in [Handlers -> Handling]
      <4>1. [Idle EXCEPT !.pc = label, !.open = TRUE, !.access = a] \in Handling
        BY IdleType DEF Handling
      <4> QED
        BY <1>0, <3>2, <4>1, ThreadType DEF Receive
    <3> QED
      BY <2>1, <3>1, <3>2
  <2> QED
    BY <1>0, <1>2, <2>3 DEF ClientStep, ServerTypeOK, Handling, storeVars, poolVars, transferVars
<1>3. CASE ServerDies
  <2>1. ASSUME NEW a \in Accesses PROVE transferred[a] - rows[a].requests \in Nat
    BY <1>0, RowsWithin
  <2>2. forgotten' \in [Accesses -> Nat]
    BY <1>3, <2>1 DEF ServerDies
  <2>3. thread' \in [Handlers -> Handling]
    BY <1>3, IdleType DEF ServerDies
  <2> QED
    BY <1>0, <1>3, <2>2, <2>3 DEF ServerDies, ServerTypeOK, Handling
<1>4. CASE UNCHANGED serverVars
  BY <1>0, <1>4 DEF ServerTypeOK, serverVars
<1> QED
  BY <1>1, <1>2, <1>3, <1>4 DEF ServerNext

-----------------------------------------------------------------------------
(* The pool of locks.                                                      *)

LEMMA PoolSame ==
    ASSUME PoolIsExact, UNCHANGED poolVars,
           \A h \in Handlers :
              /\ Pooled(h)' = Pooled(h) /\ Holding(h)' = Holding(h)
              /\ Pooled(h) => thread'[h].entry = thread[h].entry
                              /\ thread'[h].access = thread[h].access
    PROVE  PoolIsExact'
<1>1. UNCHANGED <<entries, references, locked>>
  BY DEF poolVars
<1>2. \A h \in Handlers : Holding(h) => Pooled(h)
  BY DEF Holding, Pooled, HoldingSteps, PooledSteps
<1>3. \A e : Sharing(e)' = Sharing(e)
  BY DEF Sharing
<1>4. /\ \A h \in Handlers : Pooled(h) =>
            thread[h].entry # 0 /\ entries[thread[h].access] = thread[h].entry
      /\ \A e \in EntryIds : references[e] = Cardinality(Sharing(e))
      /\ \A a \in Accesses : entries[a] # 0 => \E h \in Handlers : Pooled(h) /\ thread[h].access = a
      /\ \A a, b \in Accesses : entries[a] # 0 /\ entries[a] = entries[b] => a = b
      /\ \A h \in Handlers : Holding(h) => thread[h].entry \in locked
      /\ \A g, h \in Handlers : Holding(g) /\ Holding(h) /\ thread[g].entry = thread[h].entry => g = h
  BY DEF PoolIsExact
<1>5. (\A h \in Handlers : Pooled(h) =>
            thread[h].entry # 0 /\ entries[thread[h].access] = thread[h].entry)'
  BY <1>1, <1>4
<1>6. (\A e \in EntryIds : references[e] = Cardinality(Sharing(e)))'
  BY <1>1, <1>3, <1>4 DEF EntryIds
<1>7. (\A a \in Accesses : entries[a] # 0 => \E h \in Handlers : Pooled(h) /\ thread[h].access = a)'
  BY <1>1, <1>4
<1>8. (\A a, b \in Accesses : entries[a] # 0 /\ entries[a] = entries[b] => a = b)'
  BY <1>1, <1>4
<1>9. (\A h \in Handlers : Holding(h) => thread[h].entry \in locked)'
  BY <1>1, <1>2, <1>4
<1>10. (\A g, h \in Handlers : Holding(g) /\ Holding(h) /\ thread[g].entry = thread[h].entry => g = h)'
  BY <1>2, <1>4
<1> QED
  BY <1>5, <1>6, <1>7, <1>8, <1>9, <1>10 DEF PoolIsExact

\* A step of one handler that keeps its place in the pool.
LEMMA PoolKept ==
    ASSUME PoolIsExact, UNCHANGED poolVars, NEW h \in Handlers,
           \A g \in Handlers \ {h} : thread'[g] = thread[g],
           thread'[h].pc \in PooledSteps <=> Pooled(h),
           thread'[h].pc \in HoldingSteps <=> Holding(h),
           Pooled(h) => thread'[h].entry = thread[h].entry /\ thread'[h].access = thread[h].access
    PROVE  PoolIsExact'
<1>1. ASSUME NEW g \in Handlers
      PROVE  /\ Pooled(g)' = Pooled(g) /\ Holding(g)' = Holding(g)
             /\ Pooled(g) => thread'[g].entry = thread[g].entry
                             /\ thread'[g].access = thread[g].access
  <2>1. CASE g = h
    BY <2>1 DEF Pooled, Holding
  <2>2. CASE g # h
    <3>1. thread'[g] = thread[g]
      BY <2>2
    <3> QED
      BY <3>1 DEF Pooled, Holding
  <2> QED
    BY <2>1, <2>2
<1> QED
  BY <1>1, PoolSame

LEMMA PoolStep ==
    ASSUME ServerInv, ServerNext
    PROVE  PoolIsExact'
<1>0. ServerTypeOK /\ PoolIsExact
  BY DEF ServerInv
<1> USE DEF PooledSteps, HoldingSteps
<1>1. ASSUME NEW h \in Handlers, ServerStep(h) \/ ServerFault(h) PROVE PoolIsExact'
  <2> DEFINE a == thread[h].access
  <2>0. thread[h] \in Handling /\ a \in Accesses /\ thread \in [Handlers -> Handling]
    BY <1>0, HandlerType, ThreadType
  <2>a. \A g \in Handlers \ {h} : thread'[g] = thread[g]
    BY <1>0, <1>1, OnlyOne
  <2>b. \A g \in Handlers \ {h} : Pooled(g)' = Pooled(g) /\ Holding(g)' = Holding(g)
    BY <2>a DEF Pooled, Holding
  <2>1. CASE Reference(h)
    <3>1. ~Pooled(h) /\ ~Holding(h)
      BY <2>1 DEF Reference, At, Pooled, Holding
    <3> DEFINE e == IF entries[a] # 0 THEN entries[a] ELSE FreshEntry
    <3>2. e \in EntryIds /\ e # 0
      BY <1>0, <2>0, <3>1, FreshExists, Sizes DEF ServerTypeOK
    <3>3. /\ entries' = [entries EXCEPT ![a] = e]
          /\ references' = [references EXCEPT ![e] = references[e] + 1]
          /\ thread' = [thread EXCEPT ![h].pc = "lock", ![h].entry = e]
          /\ locked' = locked
      BY <2>1 DEF Reference
    <3>4. thread'[h].pc = "lock" /\ thread'[h].entry = e /\ thread'[h].access = a
      BY <2>0, <3>3 DEF Handling
    <3>5. Pooled(h)' /\ ~Holding(h)'
      BY <3>4 DEF Pooled, Holding
    \* No other access id has this entry.
    <3>6. \A b \in Accesses \ {a} : entries[b] # e
      BY <1>0, <2>0, <3>1, FreshExists DEF PoolIsExact
    <3>7. \A b \in Accesses : entries'[b] = IF b = a THEN e ELSE entries[b]
      BY <1>0, <2>0, <3>3 DEF ServerTypeOK
    <3>8. \A d \in EntryIds : references'[d] = IF d = e THEN references[e] + 1 ELSE references[d]
      BY <1>0, <3>2, <3>3 DEF ServerTypeOK
    <3>9. entries[a] # 0 => entries[a] = e
      OBVIOUS
    <3> HIDE DEF e, a
    <3>10. (\A g \in Handlers : Pooled(g) =>
              thread[g].entry # 0 /\ entries[thread[g].access] = thread[g].entry)'
      <4> SUFFICES ASSUME NEW g \in Handlers, Pooled(g)'
                   PROVE  thread'[g].entry # 0 /\ entries'[thread'[g].access] = thread'[g].entry
        OBVIOUS
      <4>1. CASE g = h
        BY <2>0, <3>2, <3>4, <3>7, <4>1
      <4>2. CASE g # h
        <5>1. thread'[g] = thread[g] /\ Pooled(g)
          BY <2>a, <2>b, <4>2
        <5>2. thread[g].entry # 0 /\ entries[thread[g].access] = thread[g].entry /\ thread[g].access \in Accesses
          BY <1>0, <5>1, HandlerType DEF PoolIsExact
        <5> QED
          BY <3>7, <3>9, <5>1, <5>2
      <4> QED
        BY <4>1, <4>2
    <3>11. (\A d \in EntryIds : references[d] = Cardinality(Sharing(d)))'
      <4> SUFFICES ASSUME NEW d \in EntryIds PROVE references'[d] = Cardinality(Sharing(d)')
        BY DEF EntryIds
      <4>1. references[d] = Cardinality(Sharing(d))
        BY <1>0 DEF PoolIsExact
      <4>2. CASE d # e
        <5>1. Sharing(d)' = Sharing(d)
          BY <2>a, <2>b, <3>1, <3>4, <4>2 DEF Sharing
        <5> QED
          BY <3>8, <4>1, <4>2, <5>1
      <4>3. CASE d = e
        <5>1. Sharing(d)' = Sharing(d) \cup {h} /\ h \notin Sharing(d)
          BY <2>a, <2>b, <3>1, <3>4, <3>5, <4>3 DEF Sharing
        <5>2. Cardinality(Sharing(d)') = Cardinality(Sharing(d)) + 1
          BY <5>1, SharingSize, FS_AddElement
        <5> QED
          BY <3>8, <4>1, <4>3, <5>2
      <4> QED
        BY <4>2, <4>3
    <3>12. (\A b \in Accesses : entries[b] # 0 => \E g \in Handlers : Pooled(g) /\ thread[g].access = b)'
      <4> SUFFICES ASSUME NEW b \in Accesses, entries'[b] # 0
                   PROVE  \E g \in Handlers : Pooled(g)' /\ thread'[g].access = b
        OBVIOUS
      <4>1. CASE b = a
        BY <3>4, <3>5, <4>1
      <4>2. CASE b # a
        <5>1. PICK g \in Handlers : Pooled(g) /\ thread[g].access = b
          BY <1>0, <3>7, <4>2 DEF PoolIsExact
        <5>2. g # h
          BY <3>1, <5>1
        <5> QED
          BY <2>a, <2>b, <5>1, <5>2
      <4> QED
        BY <4>1, <4>2
    <3>13. (\A b, c \in Accesses : entries[b] # 0 /\ entries[b] = entries[c] => b = c)'
      <4> SUFFICES ASSUME NEW b \in Accesses, NEW c \in Accesses,
                          entries'[b] # 0, entries'[b] = entries'[c]
                   PROVE  b = c
        OBVIOUS
      <4>1. \A x, y \in Accesses : entries[x] # 0 /\ entries[x] = entries[y] => x = y
        BY <1>0 DEF PoolIsExact
      <4> QED
        BY <3>6, <3>7, <4>1
    <3>14. (\A g \in Handlers : Holding(g) => thread[g].entry \in locked)'
      <4> SUFFICES ASSUME NEW g \in Handlers, Holding(g)' PROVE thread'[g].entry \in locked'
        OBVIOUS
      <4>1. g # h
        BY <3>5
      <4>2. thread'[g] = thread[g] /\ Holding(g)
        BY <2>a, <2>b, <4>1
      <4>3. thread[g].entry \in locked
        BY <1>0, <4>2 DEF PoolIsExact
      <4>4. locked' = locked
        BY <3>3
      <4> QED
        BY <4>2, <4>3, <4>4
    <3>15. (\A f, g \in Handlers : Holding(f) /\ Holding(g) /\ thread[f].entry = thread[g].entry => f = g)'
      <4> SUFFICES ASSUME NEW f \in Handlers, NEW g \in Handlers, Holding(f)', Holding(g)',
                          thread'[f].entry = thread'[g].entry
                   PROVE  f = g
        OBVIOUS
      <4>1. f # h /\ g # h
        BY <3>5
      <4>2. thread'[f] = thread[f] /\ Holding(f) /\ thread'[g] = thread[g] /\ Holding(g)
        BY <2>a, <2>b, <4>1
      <4> QED
        BY <1>0, <4>2 DEF PoolIsExact
    <3> QED
      BY <3>10, <3>11, <3>12, <3>13, <3>14, <3>15 DEF PoolIsExact
  <2>2. CASE Lock(h)
    <3>1. Pooled(h) /\ ~Holding(h)
      BY <2>2 DEF Lock, At, Pooled, Holding
    <3>2. thread'[h].pc = "execute" /\ thread'[h].entry = thread[h].entry /\ thread'[h].access = a
      BY <2>0, <2>2 DEF Lock, Goto, Handling
    <3>3. Pooled(h)' /\ Holding(h)'
      BY <3>2 DEF Pooled, Holding
    <3>4. /\ UNCHANGED <<entries, references>> /\ locked' = locked \cup {thread[h].entry}
          /\ thread[h].entry \notin locked
      BY <2>2 DEF Lock
    <3>5. \A g \in Handlers : Pooled(g)' = Pooled(g) /\ thread'[g].entry = thread[g].entry
                              /\ thread'[g].access = thread[g].access
      <4> SUFFICES ASSUME NEW g \in Handlers
                   PROVE  /\ Pooled(g)' = Pooled(g) /\ thread'[g].entry = thread[g].entry
                          /\ thread'[g].access = thread[g].access
        OBVIOUS
      <4>1. CASE g = h
        BY <3>1, <3>2, <3>3, <4>1
      <4>2. CASE g # h
        <5>1. thread'[g] = thread[g]
          BY <2>a, <4>2
        <5> QED
          BY <2>b, <4>2, <5>1
      <4> QED
        BY <4>1, <4>2
    <3>6. \A e : Sharing(e)' = Sharing(e)
      BY <3>5 DEF Sharing
    <3>7. /\ \A g \in Handlers : Holding(g) => thread[g].entry \in locked
          /\ \A f, g \in Handlers : Holding(f) /\ Holding(g) /\ thread[f].entry = thread[g].entry => f = g
      BY <1>0 DEF PoolIsExact
    <3>8. (\A g \in Handlers : Holding(g) => thread[g].entry \in locked)'
      <4> SUFFICES ASSUME NEW g \in Handlers, Holding(g)' PROVE thread'[g].entry \in locked'
        OBVIOUS
      <4> QED
        BY <2>b, <3>4, <3>5, <3>7
    <3>9. (\A f, g \in Handlers : Holding(f) /\ Holding(g) /\ thread[f].entry = thread[g].entry => f = g)'
      <4> SUFFICES ASSUME NEW f \in Handlers, NEW g \in Handlers, Holding(f)', Holding(g)',
                          thread'[f].entry = thread'[g].entry
                   PROVE  f = g
        OBVIOUS
      <4>1. thread[f].entry = thread[g].entry
        BY <3>5
      <4> QED
        BY <2>b, <3>4, <3>7, <4>1
    <3>10. /\ \A g \in Handlers : Pooled(g) =>
                thread[g].entry # 0 /\ entries[thread[g].access] = thread[g].entry
           /\ \A e \in EntryIds : references[e] = Cardinality(Sharing(e))
           /\ \A b \in Accesses : entries[b] # 0 => \E g \in Handlers : Pooled(g) /\ thread[g].access = b
           /\ \A b, c \in Accesses : entries[b] # 0 /\ entries[b] = entries[c] => b = c
      BY <1>0 DEF PoolIsExact
    <3>11. /\ (\A g \in Handlers : Pooled(g) =>
                thread[g].entry # 0 /\ entries[thread[g].access] = thread[g].entry)'
           /\ (\A b \in Accesses : entries[b] # 0 => \E g \in Handlers : Pooled(g) /\ thread[g].access = b)'
           /\ (\A b, c \in Accesses : entries[b] # 0 /\ entries[b] = entries[c] => b = c)'
      BY <3>4, <3>5, <3>10
    <3>12. (\A e \in EntryIds : references[e] = Cardinality(Sharing(e)))'
      BY <3>4, <3>6, <3>10 DEF EntryIds
    <3> QED
      BY <3>8, <3>9, <3>11, <3>12 DEF PoolIsExact
  <2>3. CASE Unlock(h)
    <3>1. Pooled(h) /\ Holding(h)
      BY <2>3 DEF Unlock, At, Pooled, Holding
    <3>2. thread'[h].pc = "dereference" /\ thread'[h].entry = thread[h].entry /\ thread'[h].access = a
      BY <2>0, <2>3 DEF Unlock, Goto, Handling
    <3>3. Pooled(h)' /\ ~Holding(h)'
      BY <3>2 DEF Pooled, Holding
    <3>4. UNCHANGED <<entries, references>> /\ locked' = locked \ {thread[h].entry}
      BY <2>3 DEF Unlock
    <3>5. \A g \in Handlers : Pooled(g)' = Pooled(g) /\ thread'[g].entry = thread[g].entry
                              /\ thread'[g].access = thread[g].access
      <4> SUFFICES ASSUME NEW g \in Handlers
                   PROVE  /\ Pooled(g)' = Pooled(g) /\ thread'[g].entry = thread[g].entry
                          /\ thread'[g].access = thread[g].access
        OBVIOUS
      <4>1. CASE g = h
        BY <3>1, <3>2, <3>3, <4>1
      <4>2. CASE g # h
        <5>1. thread'[g] = thread[g]
          BY <2>a, <4>2
        <5> QED
          BY <2>b, <4>2, <5>1
      <4> QED
        BY <4>1, <4>2
    <3>6. \A e : Sharing(e)' = Sharing(e)
      BY <3>5 DEF Sharing
    <3>7. /\ \A g \in Handlers : Holding(g) => thread[g].entry \in locked
          /\ \A f, g \in Handlers : Holding(f) /\ Holding(g) /\ thread[f].entry = thread[g].entry => f = g
      BY <1>0 DEF PoolIsExact
    <3>8. \A g \in Handlers : Holding(g)' => g # h /\ Holding(g)
      BY <2>b, <3>3
    <3>9. /\ (\A g \in Handlers : Holding(g) => thread[g].entry \in locked)'
          /\ (\A f, g \in Handlers : Holding(f) /\ Holding(g) /\ thread[f].entry = thread[g].entry => f = g)'
      BY <3>1, <3>4, <3>5, <3>7, <3>8
    <3>10. /\ \A g \in Handlers : Pooled(g) =>
                thread[g].entry # 0 /\ entries[thread[g].access] = thread[g].entry
           /\ \A e \in EntryIds : references[e] = Cardinality(Sharing(e))
           /\ \A b \in Accesses : entries[b] # 0 => \E g \in Handlers : Pooled(g) /\ thread[g].access = b
           /\ \A b, c \in Accesses : entries[b] # 0 /\ entries[b] = entries[c] => b = c
      BY <1>0 DEF PoolIsExact
    <3>11. /\ (\A g \in Handlers : Pooled(g) =>
                thread[g].entry # 0 /\ entries[thread[g].access] = thread[g].entry)'
           /\ (\A b \in Accesses : entries[b] # 0 => \E g \in Handlers : Pooled(g) /\ thread[g].access = b)'
           /\ (\A b, c \in Accesses : entries[b] # 0 /\ entries[b] = entries[c] => b = c)'
      BY <3>4, <3>5, <3>10
    <3>12. (\A e \in EntryIds : references[e] = Cardinality(Sharing(e)))'
      BY <3>4, <3>6, <3>10 DEF EntryIds
    <3> QED
      BY <3>9, <3>11, <3>12 DEF PoolIsExact
  <2>4. CASE Dereference(h)
    <3> DEFINE e == thread[h].entry
    <3>1. Pooled(h) /\ ~Holding(h)
      BY <2>4 DEF Dereference, At, Pooled, Holding
    <3>2. e \in EntryIds /\ e # 0 /\ entries[a] = e
      BY <1>0, <3>1, HandlerType DEF PoolIsExact
    <3>3. thread'[h].pc \in {"answer", "idle"}
      <4>1. End(h, thread[h])
        BY <2>4 DEF Dereference
      <4>2. [thread[h] EXCEPT !.pc = "answer"].pc = "answer"
        BY <2>0 DEF Handling
      <4> QED
        BY <1>0, <2>0, <4>1, <4>2, Ends, IdleType
    <3>4. ~Pooled(h)' /\ ~Holding(h)'
      BY <3>3 DEF Pooled, Holding
    <3>5. locked' = locked
      BY <2>4 DEF Dereference
    <3>6. \A b \in Accesses : entries'[b] = IF b = a /\ references[e] = 1 THEN 0 ELSE entries[b]
      BY <1>0, <2>0, <2>4 DEF Dereference, ServerTypeOK
    <3>7. \A d \in EntryIds : references'[d] = IF d = e THEN references[e] - 1 ELSE references[d]
      BY <1>0, <2>4, <3>2 DEF Dereference, ServerTypeOK
    <3>8. references[e] = Cardinality(Sharing(e)) /\ h \in Sharing(e)
      BY <1>0, <3>1, <3>2 DEF PoolIsExact, Sharing
    <3>f. IsFiniteSet(Sharing(e))
      BY SharingSize
    <3>9. references[e] = 1 => Sharing(e) = {h}
      <4> SUFFICES ASSUME references[e] = 1 PROVE Sharing(e) = {h}
        OBVIOUS
      <4>1. Cardinality(Sharing(e)) = 1
        BY <3>8
      <4>2. \E x : Sharing(e) = {x}
        BY <3>f, <4>1, FS_Singleton
      <4> QED
        BY <3>8, <4>2
    \* Another handler of this access id shares the entry.
    <3>10. \A g \in Handlers \ {h} : Pooled(g) /\ thread[g].access = a => references[e] # 1
      <4> SUFFICES ASSUME NEW g \in Handlers \ {h}, Pooled(g), thread[g].access = a
                   PROVE  g \in Sharing(e)
        BY <3>9
      <4> QED
        BY <1>0, <3>2 DEF PoolIsExact, Sharing
    <3>11. references[e] # 1 => \E g \in Handlers \ {h} : Pooled(g) /\ thread[g].access = a
      <4> SUFFICES ASSUME references[e] # 1
                   PROVE  \E g \in Handlers \ {h} : Pooled(g) /\ thread[g].access = a
        OBVIOUS
      <4>0. Sharing(e) # {h}
        BY <3>8, FS_Singleton
      <4>1. PICK g \in Sharing(e) : g # h
        BY <3>8, <4>0
      <4>2. g \in Handlers /\ Pooled(g) /\ thread[g].entry = e /\ thread[g].access \in Accesses
        BY <1>0, <4>1, HandlerType DEF Sharing
      <4>3. entries[thread[g].access] = e
        BY <1>0, <4>2 DEF PoolIsExact
      <4>4. thread[g].access = a
        BY <1>0, <2>0, <3>2, <4>2, <4>3 DEF PoolIsExact
      <4> QED
        BY <4>1, <4>2, <4>4
    <3> HIDE DEF e, a
    <3>12. (\A g \in Handlers : Pooled(g) =>
              thread[g].entry # 0 /\ entries[thread[g].access] = thread[g].entry)'
      <4> SUFFICES ASSUME NEW g \in Handlers, Pooled(g)'
                   PROVE  thread'[g].entry # 0 /\ entries'[thread'[g].access] = thread'[g].entry
        OBVIOUS
      <4>1. g # h
        BY <3>4
      <4>2. thread'[g] = thread[g] /\ Pooled(g)
        BY <2>a, <2>b, <4>1
      <4>3. thread[g].entry # 0 /\ entries[thread[g].access] = thread[g].entry /\ thread[g].access \in Accesses
        BY <1>0, <4>2, HandlerType DEF PoolIsExact
      <4> QED
        BY <3>6, <3>10, <4>1, <4>2, <4>3
    <3>13. (\A d \in EntryIds : references[d] = Cardinality(Sharing(d)))'
      <4> SUFFICES ASSUME NEW d \in EntryIds PROVE references'[d] = Cardinality(Sharing(d)')
        BY DEF EntryIds
      <4>1. references[d] = Cardinality(Sharing(d))
        BY <1>0 DEF PoolIsExact
      <4>2. CASE d # e
        <5>1. Sharing(d)' = Sharing(d)
          BY <2>a, <2>b, <3>1, <3>4, <4>2 DEF Sharing, e
        <5> QED
          BY <3>7, <4>1, <4>2, <5>1
      <4>3. CASE d = e
        <5>1. Sharing(d)' = Sharing(d) \ {h} /\ h \in Sharing(d)
          BY <2>a, <2>b, <3>4, <3>8, <4>3 DEF Sharing
        <5>2. Cardinality(Sharing(d)') = Cardinality(Sharing(d)) - 1
          BY <5>1, SharingSize, FS_RemoveElement
        <5> QED
          BY <3>7, <4>1, <4>3, <5>2
      <4> QED
        BY <4>2, <4>3
    <3>14. (\A b \in Accesses : entries[b] # 0 => \E g \in Handlers : Pooled(g) /\ thread[g].access = b)'
      <4> SUFFICES ASSUME NEW b \in Accesses, entries'[b] # 0
                   PROVE  \E g \in Handlers : Pooled(g)' /\ thread'[g].access = b
        OBVIOUS
      <4>1. \E g \in Handlers \ {h} : Pooled(g) /\ thread[g].access = b
        <5>1. CASE b = a
          BY <3>6, <3>11, <5>1
        <5>2. CASE b # a
          <6>1. PICK g \in Handlers : Pooled(g) /\ thread[g].access = b
            BY <1>0, <3>6, <5>2 DEF PoolIsExact
          <6> QED
            BY <5>2, <6>1 DEF a
        <5> QED
          BY <5>1, <5>2
      <4> QED
        BY <2>a, <2>b, <4>1
    <3>15. (\A b, c \in Accesses : entries[b] # 0 /\ entries[b] = entries[c] => b = c)'
      <4> SUFFICES ASSUME NEW b \in Accesses, NEW c \in Accesses,
                          entries'[b] # 0, entries'[b] = entries'[c]
                   PROVE  b = c
        OBVIOUS
      <4>1. \A x, y \in Accesses : entries[x] # 0 /\ entries[x] = entries[y] => x = y
        BY <1>0 DEF PoolIsExact
      <4> QED
        BY <3>6, <4>1
    <3>16. (\A g \in Handlers : Holding(g) => thread[g].entry \in locked)'
      <4> SUFFICES ASSUME NEW g \in Handlers, Holding(g)' PROVE thread'[g].entry \in locked'
        OBVIOUS
      <4>1. thread'[g] = thread[g] /\ Holding(g)
        BY <2>a, <2>b, <3>4
      <4> QED
        BY <1>0, <3>5, <4>1 DEF PoolIsExact
    <3>17. (\A f, g \in Handlers : Holding(f) /\ Holding(g) /\ thread[f].entry = thread[g].entry => f = g)'
      <4> SUFFICES ASSUME NEW f \in Handlers, NEW g \in Handlers, Holding(f)', Holding(g)',
                          thread'[f].entry = thread'[g].entry
                   PROVE  f = g
        OBVIOUS
      <4>1. thread'[f] = thread[f] /\ Holding(f) /\ thread'[g] = thread[g] /\ Holding(g)
        BY <2>a, <2>b, <3>4
      <4> QED
        BY <1>0, <4>1 DEF PoolIsExact
    <3> QED
      BY <3>12, <3>13, <3>14, <3>15, <3>16, <3>17 DEF PoolIsExact
  <2>5. CASE Execute(h) \/ PutIfAbsent(h) \/ AccessFails(h)
    <3>1. UNCHANGED poolVars
      BY <2>5 DEF Execute, PutIfAbsent, AccessFails
    <3>2. thread[h].pc \in {"execute", "put"}
      BY <2>5 DEF Execute, PutIfAbsent, AccessFails, At
    <3>3. \E label \in {"put", "unlock"} : \E response :
             thread' = [thread EXCEPT ![h].pc = label, ![h].response = response]
      BY <2>5 DEF Execute, PutIfAbsent, AccessFails, GotoWith
    <3>4. thread'[h].pc \in {"put", "unlock"} /\ thread'[h].entry = thread[h].entry /\ thread'[h].access = a
      BY <2>0, <3>3 DEF Handling
    <3> QED
      BY <1>0, <2>a, <3>1, <3>2, <3>4, PoolKept DEF Pooled, Holding
  <2>6. CASE ~(Reference(h) \/ Lock(h) \/ Execute(h) \/ PutIfAbsent(h) \/ AccessFails(h)
               \/ Unlock(h) \/ Dereference(h))
    <3> DEFINE T == {"begin", "send", "commit", "release", "before", "summary", "after"}
    <3>1. UNCHANGED poolVars /\ thread[h].pc \in T
      BY <1>1, <2>6 DEF ServerStep, ServerFault, BeginDownload, SendBody, BodyBreaks, CommitDownload,
          CommitFails, ReleaseReservation, MarkBefore, ReadSummary, MarkAfter, At
    <3>2. thread'[h].pc \in T \cup {"answer", "idle"}
      <4>1. CASE \E final \in Handling : End(h, final)
        <5>1. PICK final \in Handling : End(h, final)
          BY <4>1
        <5>2. [final EXCEPT !.pc = "answer"].pc = "answer"
          BY <5>1 DEF Handling
        <5> QED
          BY <1>0, <5>1, <5>2, Ends, IdleType
      <4>2. [thread[h] EXCEPT !.complete = Stable(thread[h].mark, Watermark(thread[h].access))] \in Handling
        BY <2>0 DEF Handling, Stable
      <4>3. CASE CommitFails(h) \/ ReleaseReservation(h) \/ MarkAfter(h)
        BY <2>0, <4>1, <4>2, <4>3 DEF CommitFails, ReleaseReservation, MarkAfter
      <4>4. CASE SendBody(h) \/ BodyBreaks(h) \/ CommitDownload(h) \/ ReadSummary(h)
        BY <2>0, <4>4 DEF SendBody, BodyBreaks, CommitDownload, ReadSummary, Goto, Handling
      <4>5. CASE BeginDownload(h)
        BY <2>0, <4>1, <4>5 DEF BeginDownload, Goto, Handling
      <4>6. CASE MarkBefore(h)
        BY <2>0, <4>1, <4>6 DEF MarkBefore, Handling
      <4> QED
        BY <1>1, <2>6, <4>3, <4>4, <4>5, <4>6 DEF ServerStep, ServerFault
    <3>3. ~Pooled(h) /\ ~Holding(h) /\ thread'[h].pc \notin PooledSteps
          /\ thread'[h].pc \notin HoldingSteps
      BY <3>1, <3>2 DEF Pooled, Holding
    <3> QED
      BY <1>0, <2>a, <3>1, <3>3, PoolKept
  <2> QED
    BY <2>1, <2>2, <2>3, <2>4, <2>5, <2>6
<1>2. CASE ClientStep
  <2>0. UNCHANGED poolVars
    BY <1>2 DEF ClientStep
  <2>1. PICK h \in Handlers :
          \/ Departs(h)
          \/ \E label \in {"reference", "begin", "before"}, a \in Accesses : Receive(h, label, a)
    BY <1>2 DEF ClientStep
  <2>2. thread[h] \in Handling /\ thread \in [Handlers -> Handling]
    BY <1>0, HandlerType, ThreadType
  <2>3. CASE Departs(h)
    <3>1. \A g \in Handlers \ {h} : thread'[g] = thread[g]
      BY <2>2, <2>3 DEF Departs
    <3>2. CASE At(h, "answer")
      <4>1. thread'[h] = Idle
        BY <2>2, <2>3, <3>2 DEF Departs
      <4> QED
        BY <1>0, <2>0, <3>1, <3>2, <4>1, IdleType, PoolKept DEF At, Pooled, Holding
    <3>3. CASE ~At(h, "answer")
      <4>1. thread'[h] = [thread[h] EXCEPT !.open = FALSE]
        BY <2>2, <2>3, <3>3 DEF Departs
      <4>2. /\ thread'[h].pc = thread[h].pc /\ thread'[h].entry = thread[h].entry
            /\ thread'[h].access = thread[h].access
        BY <2>2, <4>1 DEF Handling
      <4> QED
        BY <1>0, <2>0, <3>1, <4>2, PoolKept DEF Pooled, Holding
    <3> QED
      BY <3>2, <3>3
  <2>4. ASSUME NEW label \in {"reference", "begin", "before"}, NEW b \in Accesses, Receive(h, label, b)
        PROVE  PoolIsExact'
    <3>1. \A g \in Handlers \ {h} : thread'[g] = thread[g]
      BY <2>2, <2>4 DEF Receive
    <3>2. thread'[h].pc = label /\ thread[h].pc = "idle"
      BY <2>2, <2>4, IdleType DEF Receive, At, Handling
    <3> QED
      BY <1>0, <2>0, <3>1, <3>2, PoolKept DEF Pooled, Holding
  <2> QED
    BY <2>1, <2>3, <2>4
<1>3. CASE ServerDies
  <2>1. /\ entries' = [a \in Accesses |-> 0] /\ references' = [e \in EntryIds |-> 0]
        /\ thread' = [h \in Handlers |-> Idle]
    BY <1>3 DEF ServerDies
  <2>2. \A h \in Handlers : ~Pooled(h)' /\ ~Holding(h)'
    BY <2>1, IdleType DEF Pooled, Holding
  <2>3. \A e : Sharing(e)' = {}
    BY <2>2 DEF Sharing
  <2>4. (\A e \in EntryIds : references[e] = Cardinality(Sharing(e)))'
    BY <2>1, <2>3, FS_EmptySet DEF EntryIds
  <2> QED
    BY <2>1, <2>2, <2>4 DEF PoolIsExact
<1>4. CASE UNCHANGED serverVars
  <2>1. UNCHANGED poolVars /\ thread' = thread
    BY <1>4 DEF serverVars, poolVars
  <2> QED
    BY <1>0, <2>1, PoolSame DEF Pooled, Holding
<1> QED
  BY <1>1, <1>2, <1>3, <1>4 DEF ServerNext

-----------------------------------------------------------------------------
(* What a step does to its handler, and to the history.                    *)

LEMMA Effects ==
    ASSUME ServerTypeOK, NEW h \in Handlers, ServerStep(h) \/ ServerFault(h)
    PROVE  /\ thread[h].pc \notin {"idle", "answer"}
           /\ IF thread[h].open
              THEN /\ thread'[h].open /\ thread'[h].pc # "idle"
                   /\ thread'[h].access = thread[h].access
              ELSE \/ thread'[h] = Idle
                   \/ /\ ~thread'[h].open /\ thread'[h].pc \notin {"idle", "answer"}
                      /\ thread'[h].access = thread[h].access
           /\ thread'[h].pc # "begin"
           /\ thread'[h].pc \in {"summary", "after"} => MarkBefore(h) \/ ReadSummary(h)
           /\ ~thread[h].complete /\ thread'[h].complete =>
                 /\ MarkAfter(h) /\ thread'[h].pc = "answer"
                 /\ thread'[h].summary = thread[h].summary
                 /\ Stable(thread[h].mark, Watermark(thread[h].access))
<1> DEFINE a == thread[h].access
           final == [thread[h] EXCEPT !.complete = Stable(thread[h].mark, Watermark(a))]
<1>0. thread[h] \in Handling /\ a \in Accesses /\ thread \in [Handlers -> Handling]
  BY HandlerType, ThreadType
<1>1. ASSUME End(h, thread[h])
      PROVE  IF thread[h].open
             THEN /\ thread'[h].open /\ thread'[h].pc = "answer"
                  /\ thread'[h].access = thread[h].access
                  /\ thread'[h].complete = thread[h].complete
             ELSE thread'[h] = Idle
  <2>1. /\ [thread[h] EXCEPT !.pc = "answer"].open = thread[h].open
        /\ [thread[h] EXCEPT !.pc = "answer"].pc = "answer"
        /\ [thread[h] EXCEPT !.pc = "answer"].access = thread[h].access
        /\ [thread[h] EXCEPT !.pc = "answer"].complete = thread[h].complete
    BY <1>0 DEF Handling
  <2> QED
    BY <1>0, <1>1, <2>1, Ends
<1>2. ASSUME NEW label \in {"lock", "execute", "put", "unlock", "dereference", "send", "commit",
                            "release", "summary", "after"},
             thread'[h].pc = label, thread'[h].open = thread[h].open,
             thread'[h].access = thread[h].access, thread'[h].complete = thread[h].complete,
             thread[h].pc \notin {"idle", "answer"},
             label \in {"summary", "after"} => MarkBefore(h) \/ ReadSummary(h)
      PROVE  /\ thread[h].pc \notin {"idle", "answer"}
             /\ IF thread[h].open
                THEN /\ thread'[h].open /\ thread'[h].pc # "idle"
                     /\ thread'[h].access = thread[h].access
                ELSE \/ thread'[h] = Idle
                     \/ /\ ~thread'[h].open /\ thread'[h].pc \notin {"idle", "answer"}
                        /\ thread'[h].access = thread[h].access
             /\ thread'[h].pc # "begin"
             /\ thread'[h].pc \in {"summary", "after"} => MarkBefore(h) \/ ReadSummary(h)
             /\ ~(~thread[h].complete /\ thread'[h].complete)
  BY <1>2
<1>3. CASE Reference(h)
  <2>1. thread[h].pc = "reference" /\ \E e : thread' = [thread EXCEPT ![h].pc = "lock", ![h].entry = e]
    BY <1>3 DEF Reference, At
  <2>2. /\ thread'[h].pc = "lock" /\ thread'[h].open = thread[h].open
        /\ thread'[h].access = thread[h].access /\ thread'[h].complete = thread[h].complete
    BY <1>0, <2>1 DEF Handling
  <2> QED
    BY <1>2, <2>1, <2>2
<1>4. CASE Lock(h)
  <2>1. /\ thread[h].pc = "lock" /\ thread'[h].pc = "execute" /\ thread'[h].open = thread[h].open
        /\ thread'[h].access = thread[h].access /\ thread'[h].complete = thread[h].complete
    BY <1>0, <1>4 DEF Lock, Goto, At, Handling
  <2> QED
    BY <1>2, <2>1
<1>5. CASE Execute(h) \/ PutIfAbsent(h) \/ AccessFails(h)
  <2>1. /\ thread[h].pc \in {"execute", "put"}
        /\ \E label \in {"put", "unlock"} : \E response :
             thread' = [thread EXCEPT ![h].pc = label, ![h].response = response]
    BY <1>5 DEF Execute, PutIfAbsent, AccessFails, GotoWith, At
  <2>2. /\ thread'[h].pc \in {"put", "unlock"} /\ thread'[h].open = thread[h].open
        /\ thread'[h].access = thread[h].access /\ thread'[h].complete = thread[h].complete
    BY <1>0, <2>1 DEF Handling
  <2> QED
    BY <1>2, <2>1, <2>2
<1>6. CASE Unlock(h)
  <2>1. /\ thread[h].pc = "unlock" /\ thread'[h].pc = "dereference" /\ thread'[h].open = thread[h].open
        /\ thread'[h].access = thread[h].access /\ thread'[h].complete = thread[h].complete
    BY <1>0, <1>6 DEF Unlock, Goto, At, Handling
  <2> QED
    BY <1>2, <2>1
<1>7. CASE Dereference(h) \/ CommitFails(h) \/ ReleaseReservation(h)
  <2>1. thread[h].pc \in {"dereference", "commit", "release"} /\ End(h, thread[h])
    BY <1>7 DEF Dereference, CommitFails, ReleaseReservation, At
  <2> QED
    BY <1>1, <2>1, IdleType
<1>8. CASE BeginDownload(h)
  <2>0. thread[h].pc = "begin"
    BY <1>8 DEF BeginDownload, At
  <2>1. CASE End(h, thread[h])
    BY <1>1, <2>0, <2>1, IdleType
  <2>2. CASE Goto(h, "send")
    <3>1. /\ thread'[h].pc = "send" /\ thread'[h].open = thread[h].open
          /\ thread'[h].access = thread[h].access /\ thread'[h].complete = thread[h].complete
      BY <1>0, <2>2 DEF Goto, Handling
    <3> QED
      BY <1>2, <2>0, <3>1
  <2> QED
    BY <1>8, <2>1, <2>2 DEF BeginDownload
<1>9. CASE SendBody(h) \/ BodyBreaks(h) \/ CommitDownload(h) \/ ReadSummary(h)
  <2>1. /\ thread[h].pc \in {"send", "commit", "summary"}
        /\ thread'[h].pc \in {"commit", "release", "after"} /\ thread'[h].open = thread[h].open
        /\ thread'[h].pc = "after" => ReadSummary(h)
        /\ thread'[h].access = thread[h].access /\ thread'[h].complete = thread[h].complete
    <3>1. CASE SendBody(h)
      BY <1>0, <3>1 DEF SendBody, At, Handling
    <3>2. CASE BodyBreaks(h)
      BY <1>0, <3>2 DEF BodyBreaks, At, Goto, Handling
    <3>3. CASE CommitDownload(h)
      BY <1>0, <3>3 DEF CommitDownload, At, Goto, Handling
    <3>4. CASE ReadSummary(h)
      BY <1>0, <3>4 DEF ReadSummary, At, Handling
    <3> QED
      BY <1>9, <3>1, <3>2, <3>3, <3>4
  <2> QED
    BY <1>2, <2>1
<1>10. CASE MarkBefore(h)
  <2>0. thread[h].pc = "before"
    BY <1>10 DEF MarkBefore, At
  <2>1. CASE End(h, thread[h])
    BY <1>1, <2>0, <2>1, IdleType
  <2>2. CASE thread' = [thread EXCEPT ![h].pc = "summary", ![h].response = operations[a],
                                      ![h].mark = Watermark(a)]
    <3>1. /\ thread'[h].pc = "summary" /\ thread'[h].open = thread[h].open
          /\ thread'[h].access = thread[h].access /\ thread'[h].complete = thread[h].complete
      BY <1>0, <2>2 DEF Handling
    <3> QED
      BY <1>2, <1>10, <2>0, <3>1
  <2> QED
    BY <1>10, <2>1, <2>2 DEF MarkBefore
<1>11. CASE MarkAfter(h)
  <2>1. thread[h].pc = "after" /\ End(h, final)
    BY <1>11 DEF MarkAfter, At
  <2>2. /\ final \in Handling /\ final.open = thread[h].open /\ final.access = thread[h].access
        /\ final.summary = thread[h].summary
        /\ final.complete = Stable(thread[h].mark, Watermark(a))
    BY <1>0 DEF Handling, Stable
  <2> HIDE DEF final
  <2>3. /\ [final EXCEPT !.pc = "answer"].open = thread[h].open
        /\ [final EXCEPT !.pc = "answer"].pc = "answer"
        /\ [final EXCEPT !.pc = "answer"].access = thread[h].access
        /\ [final EXCEPT !.pc = "answer"].summary = thread[h].summary
        /\ [final EXCEPT !.pc = "answer"].complete = final.complete
    BY <2>2 DEF Handling
  <2>4. IF thread[h].open
        THEN thread'[h] = [final EXCEPT !.pc = "answer"] ELSE thread'[h] = Idle
    BY <2>1, <2>2, Ends
  <2> QED
    BY <1>11, <2>1, <2>2, <2>3, <2>4, IdleType
<1> QED
  BY <1>3, <1>4, <1>5, <1>6, <1>7, <1>8, <1>9, <1>10, <1>11 DEF ServerStep, ServerFault

\* What was stored stays, and no transfer is undone or remembered again.
LEMMA ServerGrows ==
    ASSUME ServerInv, ServerNext, NEW a \in Accesses
    PROVE  /\ operations[a] # 0 => operations'[a] = operations[a]
           /\ transferred[a] <= transferred'[a]
           /\ forgotten[a] <= forgotten'[a]
           /\ transferred'[a] # transferred[a] =>
                 \E h \in Handlers : At(h, "begin") /\ thread[h].access = a
<1>0. ServerTypeOK /\ TransfersReserved
  BY DEF ServerInv
<1>1. /\ operations[a] \in Nat /\ transferred[a] \in Nat /\ forgotten[a] \in Nat
      /\ rows[a].requests + forgotten[a] <= transferred[a] /\ rows[a].requests \in Nat
  BY <1>0, RowsWithin DEF ServerTypeOK
<1>2. ASSUME NEW h \in Handlers, ServerStep(h) \/ ServerFault(h)
      PROVE  /\ operations[a] # 0 => operations'[a] = operations[a]
             /\ transferred[a] <= transferred'[a] /\ forgotten'[a] = forgotten[a]
             /\ transferred'[a] # transferred[a] => At(h, "begin") /\ thread[h].access = a
  <2>1. CASE PutIfAbsent(h)
    <3>1. UNCHANGED <<transferred, forgotten>>
      BY <2>1 DEF PutIfAbsent, transferVars
    <3>2. operations[a] # 0 => operations'[a] = operations[a]
      BY <1>0, <2>1 DEF PutIfAbsent, ServerTypeOK
    <3> QED
      BY <1>1, <3>1, <3>2
  <2>2. CASE BeginDownload(h)
    <3>1. operations' = operations /\ forgotten' = forgotten /\ At(h, "begin")
      BY <2>2 DEF BeginDownload, storeVars, transferVars
    <3>2. \/ transferred' = transferred
          \/ transferred' = [transferred EXCEPT ![thread[h].access] = transferred[thread[h].access] + 1]
      BY <2>2 DEF BeginDownload, transferVars
    <3>3. transferred[a] <= transferred'[a]
          /\ (transferred'[a] # transferred[a] => thread[h].access = a)
      BY <1>0, <1>1, <3>2 DEF ServerTypeOK
    <3> QED
      BY <3>1, <3>3
  <2>3. CASE ~PutIfAbsent(h) /\ ~BeginDownload(h)
    <3>1. UNCHANGED <<operations, transferred, forgotten>>
      BY <1>2, <2>3 DEF ServerStep, ServerFault, Reference, Lock, Execute, Unlock, Dereference,
          SendBody, CommitDownload, ReleaseReservation, MarkBefore, ReadSummary, MarkAfter,
          AccessFails, BodyBreaks, CommitFails, storeVars, transferVars
    <3> QED
      BY <1>1, <3>1
  <2> QED
    BY <2>1, <2>2, <2>3
<1>3. CASE ClientStep \/ UNCHANGED serverVars
  <2>1. UNCHANGED <<operations, transferred, forgotten>>
    BY <1>3 DEF ClientStep, storeVars, transferVars, serverVars
  <2> QED
    BY <1>1, <2>1
<1>4. CASE ServerDies
  <2>1. /\ UNCHANGED <<operations, transferred>>
        /\ forgotten'[a] = transferred[a] - rows[a].requests
    BY <1>4 DEF ServerDies
  <2> QED
    BY <1>1, <2>1
<1> QED
  BY <1>1, <1>2, <1>3, <1>4 DEF ServerNext

-----------------------------------------------------------------------------
(* Transfers are accounted for.                                            *)

LEMMA TransferSame ==
    ASSUME ServerTypeOK, TransfersReserved, UNCHANGED <<rows, inFlight, transferred, forgotten>>,
           \A h \in Handlers :
              /\ thread'[h].pc \in TransferSteps =>
                    thread[h].pc \in TransferSteps /\ thread'[h].access = thread[h].access
              /\ thread[h].pc = "release" <=> thread'[h].pc = "release"
    PROVE  TransfersReserved'
<1>1. ASSUME NEW a \in Accesses
      PROVE  /\ (rows[a].requests + inFlight[a] + forgotten[a] = transferred[a] + Cardinality(Releasing(a)))'
             /\ (Cardinality(Transferring(a)) <= inFlight[a])'
  <2>1. /\ rows[a].requests + inFlight[a] + forgotten[a] = transferred[a] + Cardinality(Releasing(a))
        /\ Cardinality(Transferring(a)) <= inFlight[a]
        /\ inFlight[a] \in Nat
    BY DEF TransfersReserved, TransfersAccounted, ServerTypeOK
  <2>2. Releasing(a)' = Releasing(a)
    BY DEF Releasing, At, TransferSteps
  <2>3. Transferring(a)' \in SUBSET Transferring(a)
    BY DEF Transferring
  <2>4. IsFiniteSet(Transferring(a)) /\ Cardinality(Transferring(a)) \in Nat
    BY TransferringSize
  <2>5. Cardinality(Transferring(a)') <= Cardinality(Transferring(a)) /\ Cardinality(Transferring(a)') \in Nat
    BY <2>3, <2>4, FS_Subset, FS_CardinalityType
  <2>6. (rows[a].requests + inFlight[a] + forgotten[a] = transferred[a] + Cardinality(Releasing(a)))'
    BY <2>1, <2>2
  <2>7. Cardinality(Transferring(a)') <= inFlight'[a]
    BY <2>1, <2>4, <2>5
  <2> QED
    BY <2>6, <2>7
<1> QED
  BY <1>1 DEF TransfersReserved, TransfersAccounted

\* A step of one handler that changes the account of its access only.
LEMMA TransferMoves ==
    ASSUME ServerTypeOK, TransfersReserved, NEW h \in Handlers, NEW a \in Accesses,
           \A g \in Handlers \ {h} : thread'[g] = thread[g],
           thread[h].access = a, \A b \in Accesses \ {a} :
              /\ rows'[b] = rows[b] /\ inFlight'[b] = inFlight[b]
              /\ transferred'[b] = transferred[b] /\ forgotten'[b] = forgotten[b],
           thread'[h].pc \in TransferSteps => thread'[h].access = a,
           /\ (rows[a].requests + inFlight[a] + forgotten[a] = transferred[a] + Cardinality(Releasing(a)))'
           /\ (Cardinality(Transferring(a)) <= inFlight[a])'
    PROVE  TransfersReserved'
<1>1. ASSUME NEW b \in Accesses \ {a}
      PROVE  /\ (rows[b].requests + inFlight[b] + forgotten[b] = transferred[b] + Cardinality(Releasing(b)))'
             /\ (Cardinality(Transferring(b)) <= inFlight[b])'
  <2>1. /\ rows[b].requests + inFlight[b] + forgotten[b] = transferred[b] + Cardinality(Releasing(b))
        /\ Cardinality(Transferring(b)) <= inFlight[b]
    BY DEF TransfersReserved, TransfersAccounted
  <2>2. Releasing(b)' = Releasing(b)
    <3>1. \A g \in Handlers : g \in Releasing(b) <=> g \in Releasing(b)'
      BY DEF Releasing, At, TransferSteps
    <3> QED
      BY <3>1 DEF Releasing
  <2>3. Transferring(b)' = Transferring(b)
    <3>1. \A g \in Handlers : g \in Transferring(b) <=> g \in Transferring(b)'
      BY DEF Transferring
    <3> QED
      BY <3>1 DEF Transferring
  <2> QED
    BY <2>1, <2>2, <2>3
<1> QED
  BY <1>1 DEF TransfersReserved, TransfersAccounted

LEMMA TransferStep ==
    ASSUME ServerInv, ServerNext
    PROVE  TransfersReserved'
<1>0. ServerTypeOK /\ TransfersReserved
  BY DEF ServerInv
<1>1. ASSUME NEW h \in Handlers, ServerStep(h) \/ ServerFault(h) PROVE TransfersReserved'
  <2>p. PICK a \in Accesses : thread[h].access = a
    BY <1>0, HandlerType
  <2>0. thread[h] \in Handling /\ thread \in [Handlers -> Handling] /\ thread[h].access = a
    BY <1>0, <2>p, HandlerType, ThreadType
  <2>a. \A g \in Handlers \ {h} : thread'[g] = thread[g]
    BY <1>0, <1>1, OnlyOne
  <2>b. /\ rows[a].requests \in Nat /\ inFlight[a] \in Nat /\ forgotten[a] \in Nat
        /\ transferred[a] \in Nat
    BY <1>0, <2>0, RowsWithin
  <2>c. /\ rows[a].requests + inFlight[a] + forgotten[a] = transferred[a] + Cardinality(Releasing(a))
        /\ Cardinality(Transferring(a)) <= inFlight[a]
    BY <1>0, <2>0 DEF TransfersReserved, TransfersAccounted
  <2>d. /\ IsFiniteSet(Transferring(a)) /\ Cardinality(Transferring(a)) \in Nat
        /\ IsFiniteSet(Releasing(a)) /\ Cardinality(Releasing(a)) \in Nat
    BY TransferringSize
  <2>1. CASE BeginDownload(h) /\ operations[a] # 0
    <3>1. /\ inFlight' = [inFlight EXCEPT ![a] = inFlight[a] + 1]
          /\ transferred' = [transferred EXCEPT ![a] = transferred[a] + 1]
          /\ UNCHANGED <<rows, forgotten>> /\ thread[h].pc = "begin"
          /\ thread' = [thread EXCEPT ![h].pc = "send"]
      BY <2>0, <2>1 DEF BeginDownload, Goto, At
    <3>2. thread'[h].pc = "send" /\ thread'[h].access = a
      BY <2>0, <3>1 DEF Handling
    <3>3. /\ \A b \in Accesses \ {a} : inFlight'[b] = inFlight[b] /\ transferred'[b] = transferred[b]
          /\ inFlight'[a] = inFlight[a] + 1 /\ transferred'[a] = transferred[a] + 1
      BY <1>0, <2>0, <3>1 DEF ServerTypeOK
    <3>4. Releasing(a)' = Releasing(a)
      <4>1. \A g \in Handlers : g \in Releasing(a) <=> g \in Releasing(a)'
        BY <2>0, <2>a, <3>1, <3>2 DEF Releasing, At
      <4> QED
        BY <4>1 DEF Releasing
    <3>5. Transferring(a)' = Transferring(a) \cup {h} /\ h \notin Transferring(a)
      <4>1. \A g \in Handlers : g \in Transferring(a)' <=> g \in Transferring(a) \/ g = h
        BY <2>0, <2>a, <3>1, <3>2 DEF Transferring, TransferSteps
      <4> QED
        BY <3>1, <4>1 DEF Transferring, TransferSteps
    <3>6. Cardinality(Transferring(a)') = Cardinality(Transferring(a)) + 1
      BY <2>d, <3>5, FS_AddElement
    <3>7. (rows[a].requests + inFlight[a] + forgotten[a] = transferred[a] + Cardinality(Releasing(a)))'
      BY <2>b, <2>c, <2>d, <3>1, <3>3, <3>4
    <3>8. (Cardinality(Transferring(a)) <= inFlight[a])'
      BY <2>b, <2>c, <2>d, <3>3, <3>6
    <3>9. thread[h].access = a
      BY <2>0
    <3> QED
      BY <1>0, <2>0, <2>a, <3>1, <3>2, <3>3, <3>7, <3>8, <3>9, TransferMoves
  <2>2. CASE CommitDownload(h)
    <3>1. /\ rows' = [rows EXCEPT ![a] =
                 [requests |-> rows[a].requests + 1,
                  full |-> rows[a].full + (IF thread[h].full THEN 1 ELSE 0)]]
          /\ UNCHANGED <<inFlight, transferred, forgotten>> /\ thread[h].pc = "commit"
          /\ thread' = [thread EXCEPT ![h].pc = "release"]
      BY <2>0, <2>2 DEF CommitDownload, Goto, At
    <3>2. thread'[h].pc = "release" /\ thread'[h].access = a
      BY <2>0, <3>1 DEF Handling
    <3>3. /\ \A b \in Accesses \ {a} : rows'[b] = rows[b]
          /\ rows'[a].requests = rows[a].requests + 1
      BY <1>0, <2>0, <3>1 DEF ServerTypeOK
    <3>4. Releasing(a)' = Releasing(a) \cup {h} /\ h \notin Releasing(a)
      <4>1. \A g \in Handlers : g \in Releasing(a)' <=> g \in Releasing(a) \/ g = h
        BY <2>0, <2>a, <3>1, <3>2 DEF Releasing, At
      <4> QED
        BY <3>1, <4>1 DEF Releasing, At
    <3>5. Transferring(a)' = Transferring(a)
      <4>0. h \in Transferring(a)
        BY <2>0, <3>1 DEF Transferring, TransferSteps
      <4>1. \A g \in Handlers : g \in Transferring(a)' <=> g \in Transferring(a)
        BY <2>0, <2>a, <3>1, <3>2, <4>0 DEF Transferring, TransferSteps
      <4> QED
        BY <4>1 DEF Transferring
    <3>6. Cardinality(Releasing(a)') = Cardinality(Releasing(a)) + 1
      BY <2>d, <3>4, FS_AddElement
    <3>7. (rows[a].requests + inFlight[a] + forgotten[a] = transferred[a] + Cardinality(Releasing(a)))'
      BY <2>b, <2>c, <2>d, <3>1, <3>3, <3>6
    <3>8. (Cardinality(Transferring(a)) <= inFlight[a])'
      BY <2>c, <3>1, <3>5
    <3>9. thread[h].access = a
      BY <2>0
    <3> QED
      BY <1>0, <2>0, <2>a, <3>1, <3>2, <3>3, <3>7, <3>8, <3>9, TransferMoves
  <2>3. CASE ReleaseReservation(h)
    <3>1. /\ inFlight' = [inFlight EXCEPT ![a] = inFlight[a] - 1]
          /\ UNCHANGED <<rows, transferred, forgotten>> /\ thread[h].pc = "release"
          /\ End(h, thread[h])
      BY <2>0, <2>3 DEF ReleaseReservation, At
    <3>2. thread'[h].pc \in {"answer", "idle"}
      <4>1. [thread[h] EXCEPT !.pc = "answer"].pc = "answer"
        BY <2>0 DEF Handling
      <4> QED
        BY <1>0, <2>0, <3>1, <4>1, Ends, IdleType
    <3>3. /\ \A b \in Accesses \ {a} : inFlight'[b] = inFlight[b]
          /\ inFlight'[a] = inFlight[a] - 1
      BY <1>0, <2>0, <3>1 DEF ServerTypeOK
    <3>4. h \in Releasing(a) /\ h \in Transferring(a)
      BY <2>0, <3>1 DEF Releasing, Transferring, TransferSteps, At
    <3>5. Releasing(a)' = Releasing(a) \ {h}
      <4>1. \A g \in Handlers : g \in Releasing(a)' <=> g \in Releasing(a) \ {h}
        BY <2>0, <2>a, <3>2 DEF Releasing, At
      <4> QED
        BY <4>1 DEF Releasing
    <3>6. Transferring(a)' = Transferring(a) \ {h}
      <4>1. \A g \in Handlers : g \in Transferring(a)' <=> g \in Transferring(a) \ {h}
        BY <2>0, <2>a, <3>2 DEF Transferring, TransferSteps
      <4> QED
        BY <4>1 DEF Transferring
    <3>7. /\ Cardinality(Releasing(a)') = Cardinality(Releasing(a)) - 1
          /\ Cardinality(Transferring(a)') = Cardinality(Transferring(a)) - 1
      BY <2>d, <3>4, <3>5, <3>6, FS_RemoveElement
    <3>8. (rows[a].requests + inFlight[a] + forgotten[a] = transferred[a] + Cardinality(Releasing(a)))'
      BY <2>b, <2>c, <2>d, <3>1, <3>3, <3>7
    <3>9. (Cardinality(Transferring(a)) <= inFlight[a])'
      BY <2>b, <2>c, <2>d, <3>3, <3>7
    <3>10. thread[h].access = a /\ thread'[h].pc \notin TransferSteps
      BY <2>0, <3>2 DEF TransferSteps
    <3> QED
      BY <1>0, <2>0, <2>a, <3>1, <3>3, <3>8, <3>9, <3>10, TransferMoves
  <2>4. CASE ~(BeginDownload(h) /\ operations[a] # 0) /\ ~CommitDownload(h) /\ ~ReleaseReservation(h)
    <3>1. UNCHANGED <<rows, inFlight, transferred, forgotten>>
      BY <1>1, <2>0, <2>4 DEF ServerStep, ServerFault, Reference, Lock, Execute, PutIfAbsent, Unlock,
          Dereference, BeginDownload, SendBody, MarkBefore, ReadSummary, MarkAfter,
          AccessFails, BodyBreaks, CommitFails, transferVars
    <3>2. /\ thread'[h].pc \in TransferSteps =>
                thread[h].pc \in TransferSteps /\ thread'[h].access = thread[h].access
          /\ thread[h].pc = "release" <=> thread'[h].pc = "release"
      <4>1. ASSUME NEW final \in Handling, End(h, final) PROVE thread'[h].pc \in {"answer", "idle"}
        <5>1. [final EXCEPT !.pc = "answer"].pc = "answer"
          BY <4>1 DEF Handling
        <5> QED
          BY <1>0, <4>1, <5>1, Ends, IdleType
      <4>2. [thread[h] EXCEPT !.complete = Stable(thread[h].mark, Watermark(thread[h].access))] \in Handling
        BY <2>0 DEF Handling, Stable
      <4>3. CASE Dereference(h) \/ CommitFails(h) \/ MarkAfter(h) \/ BeginDownload(h)
        <5>1. thread'[h].pc \in {"answer", "idle"}
          BY <2>0, <2>4, <4>1, <4>2, <4>3 DEF Dereference, CommitFails, MarkAfter, BeginDownload
        <5>2. thread[h].pc # "release"
          BY <4>3 DEF Dereference, CommitFails, MarkAfter, BeginDownload, At
        <5> QED
          BY <5>1, <5>2 DEF TransferSteps
      <4>4. CASE SendBody(h) \/ BodyBreaks(h)
        <5>1. thread[h].pc = "send"
          BY <4>4 DEF SendBody, BodyBreaks, At
        <5>2. CASE SendBody(h)
          <6>1. thread'[h].pc = "commit" /\ thread'[h].access = a
            BY <2>0, <5>2 DEF SendBody, Handling
          <6> QED
            BY <2>0, <5>1, <6>1 DEF TransferSteps
        <5>3. CASE BodyBreaks(h)
          <6>1. thread'[h].pc = "commit" /\ thread'[h].access = a
            BY <2>0, <5>3 DEF BodyBreaks, Goto, Handling
          <6> QED
            BY <2>0, <5>1, <6>1 DEF TransferSteps
        <5> QED
          BY <4>4, <5>2, <5>3
      <4>5. CASE Reference(h) \/ Lock(h) \/ Unlock(h) \/ ReadSummary(h)
        <5>1. /\ thread[h].pc \in {"reference", "lock", "unlock", "summary"}
              /\ thread'[h].pc \in {"lock", "execute", "dereference", "after"}
          <6>1. CASE Reference(h)
            <7> DEFINE e == IF entries[a] # 0 THEN entries[a] ELSE FreshEntry
            <7>1. thread' = [thread EXCEPT ![h].pc = "lock", ![h].entry = e] /\ thread[h].pc = "reference"
              BY <2>0, <6>1 DEF Reference, At
            <7> QED
              BY <2>0, <7>1 DEF Handling
          <6>2. CASE Lock(h) \/ Unlock(h) \/ ReadSummary(h)
            BY <2>0, <6>2 DEF Lock, Unlock, ReadSummary, At, Goto, Handling
          <6> QED
            BY <4>5, <6>1, <6>2
        <5> QED
          BY <5>1 DEF TransferSteps
      <4>6. CASE Execute(h) \/ PutIfAbsent(h) \/ AccessFails(h)
        <5>1. /\ thread[h].pc \in {"execute", "put"}
              /\ \E label \in {"put", "unlock"} : \E response :
                   thread' = [thread EXCEPT ![h].pc = label, ![h].response = response]
          BY <4>6 DEF Execute, PutIfAbsent, AccessFails, GotoWith, At
        <5>2. thread'[h].pc \in {"put", "unlock"}
          BY <2>0, <5>1 DEF Handling
        <5> QED
          BY <5>1, <5>2 DEF TransferSteps
      <4>7. CASE MarkBefore(h)
        <5>1. thread[h].pc = "before" /\ thread'[h].pc \in {"answer", "idle", "summary"}
          BY <2>0, <4>1, <4>7 DEF MarkBefore, At, Handling
        <5> QED
          BY <5>1 DEF TransferSteps
      <4> QED
        BY <1>1, <2>4, <4>3, <4>4, <4>5, <4>6, <4>7 DEF ServerStep, ServerFault
    <3>3. ASSUME NEW g \in Handlers
          PROVE  /\ thread'[g].pc \in TransferSteps =>
                      thread[g].pc \in TransferSteps /\ thread'[g].access = thread[g].access
                 /\ thread[g].pc = "release" <=> thread'[g].pc = "release"
      BY <2>a, <3>2
    <3> QED
      BY <1>0, <3>1, <3>3, TransferSame
  <2> QED
    BY <2>1, <2>2, <2>3, <2>4
<1>2. CASE ClientStep
  <2>0. UNCHANGED <<rows, inFlight, transferred, forgotten>>
    BY <1>2 DEF ClientStep, transferVars
  <2>1. PICK h \in Handlers :
          \/ Departs(h)
          \/ \E label \in {"reference", "begin", "before"}, a \in Accesses : Receive(h, label, a)
    BY <1>2 DEF ClientStep
  <2>2. thread[h] \in Handling /\ thread \in [Handlers -> Handling]
    BY <1>0, HandlerType, ThreadType
  <2>3. CASE Departs(h)
    <3>1. thread'[h] = IF At(h, "answer") THEN Idle ELSE [thread[h] EXCEPT !.open = FALSE]
      BY <2>2, <2>3 DEF Departs
    <3>2. /\ [thread[h] EXCEPT !.open = FALSE].pc = thread[h].pc
          /\ [thread[h] EXCEPT !.open = FALSE].access = thread[h].access
      BY <2>2 DEF Handling
    <3>3. /\ thread'[h].pc \in TransferSteps =>
                thread[h].pc \in TransferSteps /\ thread'[h].access = thread[h].access
          /\ thread[h].pc = "release" <=> thread'[h].pc = "release"
      BY <3>1, <3>2, IdleType DEF At, TransferSteps
    <3>4. \A g \in Handlers \ {h} : thread'[g] = thread[g]
      BY <2>2, <2>3 DEF Departs
    <3>5. ASSUME NEW g \in Handlers
          PROVE  /\ thread'[g].pc \in TransferSteps =>
                      thread[g].pc \in TransferSteps /\ thread'[g].access = thread[g].access
                 /\ thread[g].pc = "release" <=> thread'[g].pc = "release"
      BY <3>3, <3>4
    <3> QED
      BY <1>0, <2>0, <3>5, TransferSame
  <2>4. ASSUME NEW label \in {"reference", "begin", "before"}, NEW b \in Accesses, Receive(h, label, b)
        PROVE  TransfersReserved'
    <3>1. \A g \in Handlers \ {h} : thread'[g] = thread[g]
      BY <2>2, <2>4 DEF Receive
    <3>2. thread'[h].pc = label /\ thread[h].pc = "idle"
      BY <2>2, <2>4, IdleType DEF Receive, At, Handling
    <3>3. ASSUME NEW g \in Handlers
          PROVE  /\ thread'[g].pc \in TransferSteps =>
                      thread[g].pc \in TransferSteps /\ thread'[g].access = thread[g].access
                 /\ thread[g].pc = "release" <=> thread'[g].pc = "release"
      BY <3>1, <3>2 DEF TransferSteps
    <3> QED
      BY <1>0, <2>0, <3>3, TransferSame
  <2> QED
    BY <2>1, <2>3, <2>4
<1>3. CASE ServerDies
  <2>1. ASSUME NEW a \in Accesses
        PROVE  /\ (rows[a].requests + inFlight[a] + forgotten[a] = transferred[a] + Cardinality(Releasing(a)))'
               /\ (Cardinality(Transferring(a)) <= inFlight[a])'
    <3>1. /\ rows'[a] = rows[a] /\ inFlight'[a] = 0 /\ transferred'[a] = transferred[a]
          /\ forgotten'[a] = transferred[a] - rows[a].requests
          /\ \A h \in Handlers : thread'[h] = Idle
      BY <1>3 DEF ServerDies
    <3>2. Releasing(a)' = {} /\ Transferring(a)' = {}
      BY <3>1, IdleType DEF Releasing, Transferring, TransferSteps, At
    <3>3. Cardinality(Releasing(a)') = 0 /\ Cardinality(Transferring(a)') = 0
      BY <3>2, FS_EmptySet
    <3> QED
      BY <1>0, <3>1, <3>3, RowsWithin
  <2> QED
    BY <2>1 DEF TransfersReserved, TransfersAccounted
<1>4. CASE UNCHANGED serverVars
  <2>1. UNCHANGED <<rows, inFlight, transferred, forgotten, thread>>
    BY <1>4 DEF serverVars
  <2> QED
    BY <1>0, <2>1, TransferSame
<1> QED
  BY <1>1, <1>2, <1>3, <1>4 DEF ServerNext

-----------------------------------------------------------------------------
(* Answers are stored.                                                     *)

\* The steps that find no response leave the one they have.
LEMMA ResponseKept ==
    ASSUME ServerTypeOK, NEW h \in Handlers, ServerStep(h) \/ ServerFault(h),
           ~Execute(h), ~PutIfAbsent(h), ~AccessFails(h),
           thread'[h].response # thread[h].response
    PROVE  thread'[h] = Idle \/ (MarkBefore(h) /\ thread'[h].response = operations[thread[h].access])
<1>0. thread[h] \in Handling /\ thread \in [Handlers -> Handling]
  BY HandlerType, ThreadType
<1>1. ASSUME NEW final \in Handling, final.response = thread[h].response, End(h, final)
      PROVE  thread'[h] = Idle
  <2>1. [final EXCEPT !.pc = "answer"].response = final.response
    BY <1>1 DEF Handling
  <2> QED
    BY <1>1, <2>1, Ends
<1>2. [thread[h] EXCEPT !.complete = Stable(thread[h].mark, Watermark(thread[h].access))] \in Handling
  BY <1>0 DEF Handling, Stable
<1>3. [thread[h] EXCEPT !.complete =
          Stable(thread[h].mark, Watermark(thread[h].access))].response = thread[h].response
  BY <1>0 DEF Handling
<1>4. CASE Dereference(h) \/ CommitFails(h) \/ ReleaseReservation(h)
  BY <1>0, <1>1, <1>4 DEF Dereference, CommitFails, ReleaseReservation
<1>5. CASE MarkAfter(h)
  BY <1>1, <1>2, <1>3, <1>5 DEF MarkAfter
<1>6. CASE Lock(h) \/ Unlock(h)
  BY <1>0, <1>6 DEF Lock, Unlock, Goto, Handling
<1>7. CASE SendBody(h) \/ BodyBreaks(h) \/ CommitDownload(h) \/ ReadSummary(h)
  BY <1>0, <1>7 DEF SendBody, BodyBreaks, CommitDownload, ReadSummary, Goto, Handling
<1>8. CASE Reference(h)
  <2>1. \E e : thread' = [thread EXCEPT ![h].pc = "lock", ![h].entry = e]
    BY <1>8 DEF Reference
  <2> QED
    BY <1>0, <2>1 DEF Handling
<1>9. CASE BeginDownload(h)
  BY <1>0, <1>1, <1>9 DEF BeginDownload, Goto, Handling
<1>10. CASE MarkBefore(h)
  <2>1. CASE End(h, thread[h])
    BY <1>0, <1>1, <2>1
  <2>2. CASE thread' = [thread EXCEPT ![h].pc = "summary", ![h].response = operations[thread[h].access],
                                      ![h].mark = Watermark(thread[h].access)]
    BY <1>0, <1>10, <2>2 DEF Handling
  <2> QED
    BY <1>10, <2>1, <2>2 DEF MarkBefore
<1> QED
  BY <1>4, <1>5, <1>6, <1>7, <1>8, <1>9, <1>10 DEF ServerStep, ServerFault

LEMMA AnswerStep ==
    ASSUME ServerInv, ServerNext
    PROVE  AnswersAreStored'
<1>0. ServerTypeOK /\ AnswersAreStored
  BY DEF ServerInv
<1>g. \A a \in Accesses : operations[a] # 0 => operations'[a] = operations[a]
  BY ServerGrows
\* A handler that keeps its response and its access.
<1>k. ASSUME NEW g \in Handlers, thread'[g].response = thread[g].response,
             thread'[g].access = thread[g].access, thread[g].pc = "put" => thread'[g].pc = "put"
      PROVE  IsStored(g)'
  <2> SUFFICES ASSUME thread'[g].pc # "put", thread'[g].response # 0
               PROVE  operations'[thread'[g].access] = thread'[g].response
    BY DEF IsStored, At
  <2>1. operations[thread[g].access] = thread[g].response
    BY <1>0, <1>k DEF AnswersAreStored, IsStored, At
  <2> QED
    BY <1>0, <1>g, <1>k, <2>1, HandlerType
<1>i. \A g \in Handlers : thread'[g] = Idle => IsStored(g)'
  BY IdleType DEF IsStored
<1>1. ASSUME NEW h \in Handlers, ServerStep(h) \/ ServerFault(h) PROVE AnswersAreStored'
  <2>p. PICK a \in Accesses : thread[h].access = a
    BY <1>0, HandlerType
  <2>0. thread[h] \in Handling /\ thread \in [Handlers -> Handling] /\ thread[h].access = a
    BY <1>0, <2>p, HandlerType, ThreadType
  <2>a. \A g \in Handlers \ {h} : thread'[g] = thread[g]
    BY <1>0, <1>1, OnlyOne
  <2>1. CASE Execute(h)
    <3>1. IsStored(h)'
      <4>1. operations[a] = 0 => IsStored(h)'
        <5> SUFFICES ASSUME operations[a] = 0 PROVE IsStored(h)'
          OBVIOUS
        <5>1. thread' = [thread EXCEPT ![h].pc = "put", ![h].response = executions[a] + 1]
          BY <2>0, <2>1 DEF Execute, GotoWith
        <5>2. thread'[h].pc = "put"
          BY <2>0, <5>1 DEF Handling
        <5> QED
          BY <5>2 DEF IsStored, At
      <4>2. operations[a] # 0 => IsStored(h)'
        <5> SUFFICES ASSUME operations[a] # 0 PROVE IsStored(h)'
          OBVIOUS
        <5>1. thread' = [thread EXCEPT ![h].pc = "unlock", ![h].response = operations[a]]
              /\ operations' = operations
          BY <2>0, <2>1 DEF Execute, GotoWith
        <5>2. thread'[h].response = operations[a] /\ thread'[h].access = a
          BY <2>0, <5>1 DEF Handling
        <5> QED
          BY <5>1, <5>2 DEF IsStored
      <4> QED
        BY <4>1, <4>2
    <3> QED
      BY <1>k, <2>a, <3>1 DEF AnswersAreStored
  <2>2. CASE PutIfAbsent(h)
    <3> DEFINE stored == IF operations[a] = 0 THEN thread[h].response ELSE operations[a]
    <3>1. thread' = [thread EXCEPT ![h].pc = "unlock", ![h].response = stored]
          /\ operations' = [operations EXCEPT ![a] = stored]
      BY <2>0, <2>2 DEF PutIfAbsent, GotoWith
    <3>2. thread'[h].response = stored /\ thread'[h].access = a /\ operations'[a] = stored
      BY <1>0, <2>0, <3>1 DEF Handling, ServerTypeOK
    <3>3. IsStored(h)'
      BY <3>2 DEF IsStored
    <3> QED
      BY <1>k, <2>a, <3>3 DEF AnswersAreStored
  <2>3. CASE AccessFails(h)
    <3>1. thread'[h].response = 0
      BY <2>0, <2>3 DEF AccessFails, GotoWith, Handling
    <3>2. IsStored(h)'
      BY <3>1 DEF IsStored
    <3> QED
      BY <1>k, <2>a, <3>2 DEF AnswersAreStored
  <2>4. CASE ~Execute(h) /\ ~PutIfAbsent(h) /\ ~AccessFails(h)
    <3>1. UNCHANGED operations
      BY <1>1, <2>4 DEF ServerStep, ServerFault, Reference, Lock, Unlock, Dereference, BeginDownload,
          SendBody, CommitDownload, ReleaseReservation, MarkBefore, ReadSummary, MarkAfter,
          BodyBreaks, CommitFails, storeVars
    <3>2. thread[h].pc # "put"
      BY <1>1, <2>4 DEF ServerStep, ServerFault, Reference, Lock, Unlock, Dereference, BeginDownload,
          SendBody, CommitDownload, ReleaseReservation, MarkBefore, ReadSummary, MarkAfter,
          BodyBreaks, CommitFails, At
    <3>3. thread'[h] = Idle \/ thread'[h].access = a
      BY <1>0, <1>1, <2>0, Effects
    <3>4. IsStored(h)'
      <4>1. CASE thread'[h] = Idle
        BY <1>i, <4>1
      <4>2. CASE thread'[h] # Idle /\ thread'[h].response = thread[h].response
        BY <1>k, <2>0, <3>2, <3>3, <4>2
      <4>3. CASE thread'[h] # Idle /\ thread'[h].response # thread[h].response
        <5>1. thread'[h].response = operations[a]
          BY <1>0, <1>1, <2>0, <2>4, <4>3, ResponseKept
        <5> QED
          BY <3>1, <3>3, <4>3, <5>1 DEF IsStored
      <4> QED
        BY <4>1, <4>2, <4>3
    <3> QED
      BY <1>k, <2>a, <3>4 DEF AnswersAreStored
  <2> QED
    BY <2>1, <2>2, <2>3, <2>4
<1>2. CASE ClientStep
  <2>1. PICK h \in Handlers :
          \/ Departs(h)
          \/ \E label \in {"reference", "begin", "before"}, a \in Accesses : Receive(h, label, a)
    BY <1>2 DEF ClientStep
  <2>2. thread[h] \in Handling /\ thread \in [Handlers -> Handling]
    BY <1>0, HandlerType, ThreadType
  <2>3. CASE Departs(h)
    <3>1. thread'[h] = IF At(h, "answer") THEN Idle ELSE [thread[h] EXCEPT !.open = FALSE]
      BY <2>2, <2>3 DEF Departs
    <3>2. /\ [thread[h] EXCEPT !.open = FALSE].pc = thread[h].pc
          /\ [thread[h] EXCEPT !.open = FALSE].access = thread[h].access
          /\ [thread[h] EXCEPT !.open = FALSE].response = thread[h].response
      BY <2>2 DEF Handling
    <3>3. \A g \in Handlers \ {h} : thread'[g] = thread[g]
      BY <2>2, <2>3 DEF Departs
    <3>4. IsStored(h)'
      <4>1. CASE At(h, "answer")
        BY <1>i, <3>1, <4>1
      <4>2. CASE ~At(h, "answer")
        BY <1>k, <3>1, <3>2, <4>2
      <4> QED
        BY <4>1, <4>2
    <3> QED
      BY <1>k, <3>3, <3>4 DEF AnswersAreStored
  <2>4. ASSUME NEW label \in {"reference", "begin", "before"}, NEW b \in Accesses, Receive(h, label, b)
        PROVE  AnswersAreStored'
    <3>1. \A g \in Handlers \ {h} : thread'[g] = thread[g]
      BY <2>2, <2>4 DEF Receive
    <3>2. thread'[h].response = 0
      BY <2>2, <2>4, IdleType DEF Receive, Handling
    <3>3. IsStored(h)'
      BY <3>2 DEF IsStored
    <3> QED
      BY <1>k, <3>1, <3>3 DEF AnswersAreStored
  <2> QED
    BY <2>1, <2>3, <2>4
<1>3. CASE ServerDies
  BY <1>3, <1>i DEF ServerDies, AnswersAreStored
<1>4. CASE UNCHANGED serverVars
  BY <1>0, <1>4 DEF serverVars, AnswersAreStored, IsStored, At
<1> QED
  BY <1>1, <1>2, <1>3, <1>4 DEF ServerNext

-----------------------------------------------------------------------------
(* A complete summary is exact.                                            *)

LEMMA AnsweredStep ==
    ASSUME ServerInv, ServerNext
    PROVE  CompleteIsAnswered'
<1>0. ServerTypeOK /\ CompleteIsAnswered
  BY DEF ServerInv
<1> SUFFICES ASSUME NEW g \in Handlers, thread'[g].complete PROVE thread'[g].pc = "answer"
  BY DEF CompleteIsAnswered, At
<1>k. thread'[g] = thread[g] => thread'[g].pc = "answer"
  BY <1>0 DEF CompleteIsAnswered, At
<1>i. thread'[g] # Idle
  BY IdleType
<1>1. ASSUME NEW h \in Handlers, ServerStep(h) \/ ServerFault(h) PROVE thread'[g].pc = "answer"
  <2>1. CASE g = h
    <3>1. thread[h].pc # "answer"
      BY <1>0, <1>1, Effects
    <3>2. ~thread[h].complete
      BY <1>0, <3>1 DEF CompleteIsAnswered, At
    <3> QED
      BY <1>0, <1>1, <2>1, <3>2, Effects
  <2>2. CASE g # h
    BY <1>0, <1>1, <1>k, <2>2, OnlyOne
  <2> QED
    BY <2>1, <2>2
<1>2. CASE ClientStep
  <2>1. PICK h \in Handlers :
          \/ Departs(h)
          \/ \E label \in {"reference", "begin", "before"}, a \in Accesses : Receive(h, label, a)
    BY <1>2 DEF ClientStep
  <2>2. thread[h] \in Handling /\ thread \in [Handlers -> Handling]
    BY <1>0, HandlerType, ThreadType
  <2>3. CASE Departs(h)
    <3>1. CASE g = h
      <4>1. thread'[h] = IF At(h, "answer") THEN Idle ELSE [thread[h] EXCEPT !.open = FALSE]
        BY <2>2, <2>3 DEF Departs
      <4>2. /\ [thread[h] EXCEPT !.open = FALSE].complete = thread[h].complete
        BY <2>2 DEF Handling
      <4> QED
        BY <1>0, <1>i, <3>1, <4>1, <4>2 DEF CompleteIsAnswered
    <3>2. CASE g # h
      BY <1>k, <2>2, <2>3, <3>2 DEF Departs
    <3> QED
      BY <3>1, <3>2
  <2>4. ASSUME NEW label \in {"reference", "begin", "before"}, NEW b \in Accesses, Receive(h, label, b)
        PROVE  thread'[g].pc = "answer"
    <3>1. ~thread'[h].complete
      BY <2>2, <2>4, IdleType DEF Receive, Handling
    <3> QED
      BY <1>k, <2>2, <2>4, <3>1 DEF Receive
  <2> QED
    BY <2>1, <2>3, <2>4
<1>3. CASE ServerDies
  BY <1>3, <1>i DEF ServerDies
<1>4. CASE UNCHANGED serverVars
  BY <1>4, <1>k DEF serverVars
<1> QED
  BY <1>1, <1>2, <1>3, <1>4 DEF ServerNext

\* A transfer under way is in flight.
LEMMA InFlight ==
    ASSUME ServerTypeOK, TransfersReserved, NEW h \in Handlers, thread[h].pc \in TransferSteps
    PROVE  inFlight[thread[h].access] \in Nat /\ inFlight[thread[h].access] >= 1
<1>1. thread[h].access \in Accesses
  BY HandlerType
<1>2. h \in Transferring(thread[h].access)
  BY DEF Transferring
<1>3. /\ Cardinality(Transferring(thread[h].access)) >= 1
      /\ Cardinality(Transferring(thread[h].access)) \in Nat
  BY <1>2, TransferringSize
<1>4. /\ Cardinality(Transferring(thread[h].access)) <= inFlight[thread[h].access]
      /\ inFlight[thread[h].access] \in Nat
  BY <1>1 DEF TransfersReserved, ServerTypeOK
<1> QED
  BY <1>3, <1>4

LEMMA MarkStep ==
    ASSUME ServerInv, ServerNext
    PROVE  MarksHold'
<1>0. ServerTypeOK /\ TransfersReserved /\ MarksHold
  BY DEF ServerInv
<1>h. \A g \in Handlers : MarkHolds(g)
  BY <1>0 DEF MarksHold
<1>t. ASSUME NEW g \in Handlers
      PROVE  /\ thread[g].access \in Accesses /\ generation[thread[g].access] \in Nat
             /\ inFlight[thread[g].access] \in Nat
             /\ thread[g].mark[1] \in Nat /\ thread[g].mark[2] \in Nat
  BY <1>0, HandlerType DEF ServerTypeOK
<1>i. \A g \in Handlers : thread'[g].pc \notin {"summary", "after"} => MarkHolds(g)'
  BY DEF MarkHolds
<1>k. ASSUME NEW g \in Handlers, thread'[g] = thread[g], UNCHANGED <<generation, inFlight, rows>>
      PROVE  MarkHolds(g)'
  BY <1>h, <1>k DEF MarkHolds, At
<1>1. ASSUME NEW h \in Handlers, ServerStep(h) \/ ServerFault(h) PROVE MarksHold'
  <2>p. PICK a \in Accesses : thread[h].access = a
    BY <1>0, HandlerType
  <2>0. thread[h] \in Handling /\ thread \in [Handlers -> Handling] /\ thread[h].access = a
    BY <1>0, <2>p, HandlerType, ThreadType
  <2>a. \A g \in Handlers \ {h} : thread'[g] = thread[g]
    BY <1>0, <1>1, OnlyOne
  <2>b. thread'[h].pc \in {"summary", "after"} => MarkBefore(h) \/ ReadSummary(h)
    BY <1>0, <1>1, Effects
  <2>1. CASE BeginDownload(h) /\ operations[a] # 0
    <3>1. /\ inFlight' = [inFlight EXCEPT ![a] = inFlight[a] + 1]
          /\ generation' = [generation EXCEPT ![a] = generation[a] + 1]
          /\ rows' = rows
          /\ thread' = [thread EXCEPT ![h].pc = "send"]
      BY <2>0, <2>1 DEF BeginDownload, Goto
    <3>2. /\ \A b \in Accesses \ {a} : inFlight'[b] = inFlight[b] /\ generation'[b] = generation[b]
          /\ generation'[a] = generation[a] + 1
      BY <1>0, <3>1 DEF ServerTypeOK
    <3>3. ASSUME NEW g \in Handlers PROVE MarkHolds(g)'
      <4>1. CASE g = h
        <5>1. thread'[h].pc = "send"
          BY <2>0, <3>1 DEF Handling
        <5> QED
          BY <1>i, <4>1, <5>1
      <4>2. CASE g # h /\ thread[g].access # a
        BY <1>h, <1>t, <2>a, <3>1, <3>2, <4>2 DEF MarkHolds, At
      <4>3. CASE g # h /\ thread[g].access = a
        <5>1. thread'[g] = thread[g]
          BY <2>a, <4>3
        <5>2. thread[g].pc \in {"summary", "after"} => thread[g].mark[2] <= generation[a]
          BY <1>h, <4>3 DEF MarkHolds
        <5>3. thread[g].mark[2] \in Nat /\ generation[a] \in Nat
          BY <1>t, <4>3
        <5> QED
          BY <3>2, <4>3, <5>1, <5>2, <5>3 DEF MarkHolds
      <4> QED
        BY <4>1, <4>2, <4>3
    <3> QED
      BY <3>3 DEF MarksHold
  <2>2. CASE CommitDownload(h) \/ ReleaseReservation(h)
    <3>1. generation' = generation
      BY <2>2 DEF CommitDownload, ReleaseReservation
    <3>2. inFlight[a] \in Nat /\ inFlight[a] >= 1
      BY <1>0, <2>0, <2>2, InFlight DEF CommitDownload, ReleaseReservation, At, TransferSteps
    <3>3. \A b \in Accesses \ {a} : inFlight'[b] = inFlight[b] /\ rows'[b] = rows[b]
      BY <1>0, <2>0, <2>2 DEF CommitDownload, ReleaseReservation, ServerTypeOK
    <3>4. ASSUME NEW g \in Handlers PROVE MarkHolds(g)'
      <4>1. CASE g = h
        <5>1. ~MarkBefore(h) /\ ~ReadSummary(h)
          BY <2>2 DEF CommitDownload, ReleaseReservation, MarkBefore, ReadSummary, At
        <5> QED
          BY <1>i, <2>b, <4>1, <5>1
      <4>2. CASE g # h /\ thread[g].access # a
        BY <1>h, <1>t, <2>a, <3>1, <3>3, <4>2 DEF MarkHolds, At
      <4>3. CASE g # h /\ thread[g].access = a
        <5>1. thread'[g] = thread[g]
          BY <2>a, <4>3
        <5>2. thread[g].pc \in {"summary", "after"} =>
                 /\ thread[g].mark[2] <= generation[a]
                 /\ ~(thread[g].mark[1] = 0 /\ thread[g].mark[2] = generation[a])
          BY <1>h, <3>2, <4>3 DEF MarkHolds
        <5> QED
          BY <3>1, <4>3, <5>1, <5>2 DEF MarkHolds
      <4> QED
        BY <4>1, <4>2, <4>3
    <3> QED
      BY <3>4 DEF MarksHold
  <2>3. CASE MarkBefore(h)
    <3>1. UNCHANGED <<generation, inFlight, rows>>
      BY <2>3 DEF MarkBefore, transferVars
    <3>2. MarkHolds(h)'
      <4>1. CASE operations[a] = 0
        <5>1. End(h, thread[h])
          BY <2>0, <2>3, <4>1 DEF MarkBefore
        <5>2. [thread[h] EXCEPT !.pc = "answer"].pc = "answer"
          BY <2>0 DEF Handling
        <5>3. thread'[h].pc \in {"answer", "idle"}
          BY <1>0, <2>0, <5>1, <5>2, Ends, IdleType
        <5> QED
          BY <1>i, <5>3
      <4>2. CASE operations[a] # 0
        <5>1. thread' = [thread EXCEPT ![h].pc = "summary", ![h].response = operations[a],
                                       ![h].mark = Watermark(a)]
          BY <2>0, <2>3, <4>2 DEF MarkBefore
        <5>2. /\ thread'[h].pc = "summary" /\ thread'[h].access = a
              /\ thread'[h].mark = Watermark(a)
          BY <2>0, <5>1 DEF Handling
        <5>3. Watermark(a)[1] = inFlight[a] /\ Watermark(a)[2] = generation[a]
          BY DEF Watermark
        <5>4. generation[a] <= generation[a]
          BY <1>t, <2>0
        <5> QED
          BY <3>1, <5>2, <5>3, <5>4 DEF MarkHolds, At
      <4> QED
        BY <4>1, <4>2
    <3> QED
      BY <1>k, <2>a, <3>1, <3>2 DEF MarksHold
  <2>4. CASE ReadSummary(h)
    <3>1. UNCHANGED <<generation, inFlight, rows>> /\ thread[h].pc = "summary"
      BY <2>4 DEF ReadSummary, transferVars, At
    <3>2. /\ thread'[h].pc = "after" /\ thread'[h].access = a
          /\ thread'[h].mark = thread[h].mark /\ thread'[h].summary = rows[a]
      BY <2>0, <2>4 DEF ReadSummary, Handling
    <3>3. MarkHolds(h)'
      BY <1>h, <2>0, <3>1, <3>2 DEF MarkHolds, At
    <3> QED
      BY <1>k, <2>a, <3>1, <3>3 DEF MarksHold
  <2>5. CASE ~(BeginDownload(h) /\ operations[a] # 0) /\ ~CommitDownload(h) /\ ~ReleaseReservation(h)
             /\ ~MarkBefore(h) /\ ~ReadSummary(h)
    <3>1. UNCHANGED <<rows, inFlight, generation>>
      BY <1>1, <2>0, <2>5 DEF ServerStep, ServerFault, Reference, Lock, Execute, PutIfAbsent, Unlock,
          Dereference, BeginDownload, SendBody, MarkAfter,
          AccessFails, BodyBreaks, CommitFails, transferVars
    <3>2. MarkHolds(h)'
      BY <1>i, <2>b, <2>5
    <3> QED
      BY <1>k, <2>a, <3>1, <3>2 DEF MarksHold
  <2> QED
    BY <2>1, <2>2, <2>3, <2>4, <2>5
<1>2. CASE ClientStep
  <2>0. UNCHANGED <<rows, inFlight, generation>>
    BY <1>2 DEF ClientStep, transferVars
  <2>1. PICK h \in Handlers :
          \/ Departs(h)
          \/ \E label \in {"reference", "begin", "before"}, a \in Accesses : Receive(h, label, a)
    BY <1>2 DEF ClientStep
  <2>2. thread[h] \in Handling /\ thread \in [Handlers -> Handling]
    BY <1>0, HandlerType, ThreadType
  <2>3. CASE Departs(h)
    <3>1. thread'[h] = IF At(h, "answer") THEN Idle ELSE [thread[h] EXCEPT !.open = FALSE]
      BY <2>2, <2>3 DEF Departs
    <3>2. /\ [thread[h] EXCEPT !.open = FALSE].pc = thread[h].pc
          /\ [thread[h] EXCEPT !.open = FALSE].access = thread[h].access
          /\ [thread[h] EXCEPT !.open = FALSE].mark = thread[h].mark
          /\ [thread[h] EXCEPT !.open = FALSE].summary = thread[h].summary
      BY <2>2 DEF Handling
    <3>3. \A g \in Handlers \ {h} : thread'[g] = thread[g]
      BY <2>2, <2>3 DEF Departs
    <3>4. MarkHolds(h)'
      <4>1. CASE At(h, "answer")
        BY <1>i, <3>1, <4>1, IdleType
      <4>2. CASE ~At(h, "answer")
        BY <1>h, <2>0, <3>1, <3>2, <4>2 DEF MarkHolds, At
      <4> QED
        BY <4>1, <4>2
    <3> QED
      BY <1>k, <2>0, <3>3, <3>4 DEF MarksHold
  <2>4. ASSUME NEW label \in {"reference", "begin", "before"}, NEW b \in Accesses, Receive(h, label, b)
        PROVE  MarksHold'
    <3>1. \A g \in Handlers \ {h} : thread'[g] = thread[g]
      BY <2>2, <2>4 DEF Receive
    <3>2. thread'[h].pc = label
      BY <2>2, <2>4, IdleType DEF Receive, Handling
    <3>3. MarkHolds(h)'
      BY <1>i, <3>2
    <3> QED
      BY <1>k, <2>0, <3>1, <3>3 DEF MarksHold
  <2> QED
    BY <2>1, <2>3, <2>4
<1>3. CASE ServerDies
  BY <1>3, <1>i, IdleType DEF ServerDies, MarksHold
<1>4. CASE UNCHANGED serverVars
  BY <1>k, <1>4 DEF serverVars, MarksHold
<1> QED
  BY <1>1, <1>2, <1>3, <1>4 DEF ServerNext

LEMMA ServerStepKeeps ==
    ASSUME ServerInv, ServerNext
    PROVE  ServerInv'
BY ServerTypeStep, PoolStep, TransferStep, AnswerStep, AnsweredStep, MarkStep DEF ServerInv

\* A summary that becomes complete counts every transfer.
LEMMA CompleteStep ==
    ASSUME ServerInv, ServerNext, NEW h \in Handlers, ~thread[h].complete, thread'[h].complete
    PROVE  /\ thread[h].summary.requests + forgotten[thread[h].access] = transferred[thread[h].access]
           /\ thread'[h].summary = thread[h].summary /\ thread'[h].access = thread[h].access
           /\ UNCHANGED <<transferred, forgotten>>
<1>0. ServerTypeOK /\ TransfersReserved /\ MarksHold /\ AnswersAreStored
  BY DEF ServerInv
<1>1. thread'[h] # thread[h] /\ thread'[h] # Idle
  BY IdleType
<1>2. ~ServerDies /\ ~UNCHANGED serverVars
  BY <1>1 DEF ServerDies, serverVars
<1>3. ~ClientStep
  <2> SUFFICES ASSUME ClientStep PROVE FALSE
    OBVIOUS
  <2>1. PICK g \in Handlers :
          \/ Departs(g)
          \/ \E label \in {"reference", "begin", "before"}, a \in Accesses : Receive(g, label, a)
    BY DEF ClientStep
  <2>2. thread[g] \in Handling /\ thread \in [Handlers -> Handling]
    BY <1>0, HandlerType, ThreadType
  <2>3. CASE Departs(g)
    <3>1. /\ thread'[g] = IF At(g, "answer") THEN Idle ELSE [thread[g] EXCEPT !.open = FALSE]
          /\ \A f \in Handlers \ {g} : thread'[f] = thread[f]
      BY <2>2, <2>3 DEF Departs
    <3>2. [thread[g] EXCEPT !.open = FALSE].complete = thread[g].complete
      BY <2>2 DEF Handling
    <3> QED
      BY <1>1, <3>1, <3>2
  <2>4. ASSUME NEW label \in {"reference", "begin", "before"}, NEW b \in Accesses, Receive(g, label, b)
        PROVE  FALSE
    <3>1. ~thread'[g].complete /\ \A f \in Handlers \ {g} : thread'[f] = thread[f]
      BY <2>2, <2>4, IdleType DEF Receive, Handling
    <3> QED
      BY <1>1, <3>1
  <2> QED
    BY <2>1, <2>3, <2>4
<1>4. PICK g \in Handlers : ServerStep(g) \/ ServerFault(g)
  BY <1>2, <1>3 DEF ServerNext
<1>5. g = h
  BY <1>0, <1>1, <1>4, OnlyOne
<1>6. /\ MarkAfter(h) /\ thread'[h].summary = thread[h].summary
      /\ Stable(thread[h].mark, Watermark(thread[h].access))
      /\ thread'[h].access = thread[h].access
  BY <1>0, <1>1, <1>4, <1>5, Effects
<1>p. PICK a \in Accesses : thread[h].access = a
  BY <1>0, HandlerType
<1>7. inFlight[a] = 0 /\ thread[h].summary = rows[a]
  <2>1. /\ thread[h].pc = "after" /\ thread[h].mark[1] = 0 /\ thread[h].mark[2] = generation[a]
    BY <1>6, <1>p DEF MarkAfter, At, Stable, Watermark
  <2> QED
    BY <1>0, <1>p, <2>1 DEF MarksHold, MarkHolds, At
<1>8. Cardinality(Releasing(a)) = 0
  <2>1. /\ Cardinality(Releasing(a)) \in Nat /\ Cardinality(Transferring(a)) \in Nat
        /\ Cardinality(Releasing(a)) <= Cardinality(Transferring(a))
    BY TransferringSize
  <2>2. Cardinality(Transferring(a)) <= 0
    BY <1>0, <1>7 DEF TransfersReserved
  <2> QED
    BY <2>1, <2>2
<1>9. rows[a].requests + inFlight[a] + forgotten[a] = transferred[a] + Cardinality(Releasing(a))
  BY <1>0 DEF TransfersReserved, TransfersAccounted
<1>10. rows[a].requests \in Nat /\ forgotten[a] \in Nat /\ transferred[a] \in Nat
  BY <1>0, RowsWithin
<1>11. rows[a].requests + forgotten[a] = transferred[a]
  BY <1>7, <1>8, <1>9, <1>10
<1>12. UNCHANGED <<transferred, forgotten>>
  BY <1>6 DEF MarkAfter, transferVars
<1> QED
  BY <1>6, <1>7, <1>11, <1>12, <1>p

-----------------------------------------------------------------------------
(* Every step of the session is one of the server.                         *)

LEMMA SessionTypes ==
    ASSUME TypeOK
    PROVE  /\ status \in {"NONE", "CREATED", "RUNNING", "DONE", "FAILED"}
           /\ events \in Seq(Event) /\ Len(events) \in Nat /\ Len(events) <= MaxEvents
           /\ gateLock \in Tools \cup {None}
           /\ tool \in [Tools -> [pc : {"idle", "lock", "send", "await", "append",
                                        "download", "receive"},
                                  rep : Reps, index : 0 .. MaxEvents,
                                  fetch : BOOLEAN, response : Nat]]
           /\ link \in [Callers -> Handlers \cup {None, Broken}]
           /\ attempt \in [Callers -> 0 .. MaxRetries]
           /\ due \in [Accesses -> Nat]
           /\ submissions \in Nat
           /\ {MaxEvents, MaxRetries, Budget, MaxAccesses, MaxFaults} \subseteq Nat
           /\ Tools \subseteq Callers /\ Runner \in Callers
           /\ \A i \in 1 .. Len(events) : events[i] \in Event
<1>1. Len(events) \in Nat /\ \A i \in 1 .. Len(events) : events[i] \in Event
  <2>1. events \in Seq(Event)
    BY DEF TypeOK
  <2> QED
    BY <2>1
<1> QED
  BY <1>1, PilotAssumption DEF TypeOK, Callers

LEMMA RequestInAccesses ==
    ASSUME IInv, NEW t \in Tools, tool[t].index < MaxEvents
    PROVE  RequestOf(t) \in Accesses
<1>1. tool[t].index \in 0 .. MaxEvents - 1 /\ tool[t].rep \in Reps
  BY SessionTypes DEF IInv
<1> QED
  BY <1>1, PilotAssumption DEF RequestOf

LEMMA AccessInAccesses ==
    ASSUME IInv, NEW i \in 1 .. Len(events)
    PROVE  AccessOf(events[i]) \in Accesses /\ AccessOf(events[i])[1] = i - 1
<1>1. Len(events) \in Nat /\ Len(events) <= MaxEvents /\ MaxEvents \in Nat /\ events[i] \in Event
  BY SessionTypes DEF IInv
<1>2. events[i].index = i - 1 /\ events[i].rep \in Reps
  BY <1>1 DEF IInv, EventsAreOrdered, Event
<1>3. i - 1 \in 0 .. MaxEvents - 1
  BY <1>1
<1>4. <<i - 1, events[i].rep>> \in Accesses
  BY <1>2, <1>3, PilotAssumption
<1> QED
  BY <1>2, <1>4 DEF AccessOf

\* A tool that is at work leaves fewer slots.
LEMMA OpenSize ==
    ASSUME NEW fetch \in BOOLEAN
    PROVE  /\ IsFiniteSet({t \in Tools \ FreeTools : tool[t].fetch = fetch})
           /\ Open(fetch) \in Nat
           /\ \A t \in Tools : tool[t].pc # "idle" /\ tool[t].fetch = fetch => Open(fetch) >= 1
<1> DEFINE S == {t \in Tools \ FreeTools : tool[t].fetch = fetch}
<1>1. S \in SUBSET Tools
  OBVIOUS
<1>2. \A t \in Tools : tool[t].pc # "idle" /\ tool[t].fetch = fetch => t \in S
  BY DEF FreeTools
<1>3. Open(fetch) = Cardinality(S)
  BY DEF Open
<1> HIDE DEF S
<1>4. IsFiniteSet(S)
  BY <1>1, PilotAssumption, FS_Subset
<1>5. Cardinality(S) \in Nat /\ (Cardinality(S) = 0 <=> S = {})
  BY <1>4, FS_CardinalityType, FS_EmptySet
<1> QED
  BY <1>2, <1>3, <1>4, <1>5 DEF S

\* The access a tool call asks for has an index of the session.
LEMMA IndexBound ==
    ASSUME IInv, NEW t \in Tools, tool[t].pc \in {"send", "download", "await", "append", "receive"}
    PROVE  tool[t].index < MaxEvents
<1>1. /\ Len(events) \in Nat /\ Len(events) <= MaxEvents /\ MaxEvents \in Nat
      /\ tool[t].fetch \in BOOLEAN /\ tool[t].index \in Nat
  BY SessionTypes DEF IInv
<1>2. CASE tool[t].fetch
  BY <1>1, <1>2 DEF IInv, GateIsHeld, GateFits
<1>3. CASE ~tool[t].fetch
  <2>1. Open(FALSE) \in Nat /\ Open(FALSE) >= 1
    BY <1>1, <1>3, OpenSize
  <2>2. Len(events) + Open(FALSE) <= MaxEvents
    BY DEF IInv, GateIsHeld, GateFits
  <2>a. tool[t].pc \notin {"download", "receive"}
    BY <1>3 DEF IInv, GateIsHeld, GateFits
  <2>b. tool[t].pc \in {"send", "await", "append"}
    BY <2>a
  <2>3. tool[t].index = Len(events)
    BY <1>3, <2>b DEF IInv, GateIsHeld, GateFits
  <2> DEFINE o == Open(FALSE)
  <2>4. o \in Nat /\ o >= 1 /\ Len(events) + o <= MaxEvents
    BY <2>1, <2>2
  <2> HIDE DEF o
  <2> QED
    BY <1>1, <2>3, <2>4
<1> QED
  BY <1>1, <1>2, <1>3

LEMMA SendIsReceive ==
    ASSUME NEW c, NEW label \in {"reference", "begin", "before"}, NEW a \in Accesses,
           Send(c, label, a)
    PROVE  ClientStep /\ FreeHandler \in Handlers /\ At(FreeHandler, "idle")
<1>1. FreeHandler \in Handlers /\ At(FreeHandler, "idle")
  BY DEF Send, FreeHandler
<1> QED
  BY <1>1 DEF Send, ClientStep

LEMMA GoneIsStep ==
    ASSUME ServerTypeOK, NEW c, Gone(c)
    PROVE  /\ ClientStep \/ UNCHANGED serverVars
           /\ link[c] \notin Handlers => thread' = thread
           /\ link[c] \in Handlers => Departs(link[c])
<1>1. thread \in [Handlers -> Handling]
  BY ThreadType
<1>2. CASE link[c] \notin Handlers
  <2>1. thread' = thread
    BY <1>1, <1>2 DEF Gone
  <2> QED
    BY <1>2, <2>1 DEF Gone, serverVars, storeVars, poolVars, transferVars
<1>3. CASE link[c] \in Handlers
  <2>1. Departs(link[c])
    BY <1>1, <1>3 DEF Gone, Departs
  <2> QED
    BY <1>3, <2>1 DEF Gone, ClientStep
<1> QED
  BY <1>2, <1>3

LEMMA SessionIsServer ==
    ASSUME IInv, Next
    PROVE  ServerNext
<1>0. ServerTypeOK
  BY DEF IInv, ServerInv
<1> USE DEF ServerNext
<1>1. ASSUME NEW t \in Tools, ToolStep(t) \/ ToolFault(t) PROVE ServerNext
  <2>1. CASE SendAccess(t)
    <3>1. RequestOf(t) \in Accesses
      BY <2>1, IndexBound, RequestInAccesses DEF SendAccess
    <3> QED
      BY <2>1, <3>1, SendIsReceive DEF SendAccess
  <2>2. CASE SendDownload(t)
    <3>1. RequestOf(t) \in Accesses
      BY <2>2, IndexBound, RequestInAccesses DEF SendDownload
    <3> QED
      BY <2>2, <3>1, SendIsReceive DEF SendDownload
  <2>3. CASE AccessAnswered(t) \/ AccessRetried(t) \/ AccessLost(t) \/ BodyReceived(t)
             \/ DownloadLost(t) \/ ConnectionBroken(t)
    <3>1. Gone(t)
      BY <2>3 DEF AccessAnswered, AccessRetried, AccessLost, BodyReceived, DownloadLost,
          ConnectionBroken, HangUp, Retry, GiveUp, Break
    <3> QED
      BY <1>0, <3>1, GoneIsStep
  <2>4. CASE AdmitAccess(t) \/ RejectAccess(t) \/ AdmitFetch(t) \/ RejectFetch(t) \/ AppendEvent(t)
             \/ StoreFails(t)
    BY <2>4 DEF AdmitAccess, RejectAccess, AdmitFetch, RejectFetch, AppendEvent, StoreFails
  <2> QED
    BY <1>1, <2>1, <2>2, <2>3, <2>4 DEF ToolStep, ToolFault
<1>2. CASE \E rep \in Reps : AgentAccess(rep)
  BY <1>2 DEF AgentAccess, AgentCalls
<1>3. CASE \E i \in Accepted : AgentFetch(i)
  BY <1>3 DEF AgentFetch, AgentCalls
<1>4. CASE MeshDone \/ MeshFails
  BY <1>4 DEF MeshDone, MeshFails, MeshEnds
<1>5. CASE \E h \in Handlers : HandlerStep(h) \/ HandlerFault(h)
  BY <1>5 DEF HandlerStep, HandlerFault
<1>6. CASE RunnerStep \/ QuiescenceDeadline \/ RunnerFault
  <2>1. CASE SendTelemetry
    <3>1. runner.next \in 1 .. Len(events)
      <4>1. /\ Len(events) \in Nat /\ runner.next \in Nat \ {0} /\ runner.upto \in Nat
            /\ runner.upto <= Len(events)
        BY <2>1, SessionTypes DEF IInv, RunnerTypeOK, CollectedCounts, PendingCounts, AwaitsAccepted, Reconciling, SendTelemetry, RunnerAt
      <4> QED
        BY <2>1, <4>1 DEF SendTelemetry, Collected
    <3>2. AccessOf(events[runner.next]) \in Accesses
      BY <3>1, AccessInAccesses
    <3> QED
      BY <2>1, <3>2, SendIsReceive DEF SendTelemetry
  <2>2. CASE TelemetryAnswered \/ TelemetryRetried \/ TelemetryLost \/ TelemetryBroken \/ RunnerDies
    <3>1. Gone(Runner)
      BY <2>2 DEF TelemetryAnswered, TelemetryRetried, TelemetryLost, TelemetryBroken, RunnerDies,
          HangUp, Retry, GiveUp, Break
    <3> QED
      BY <1>0, <3>1, GoneIsStep
  <2>3. CASE ~SendTelemetry /\ ~TelemetryAnswered /\ ~TelemetryRetried /\ ~TelemetryLost
             /\ ~TelemetryBroken /\ ~RunnerDies
    <3>1. UNCHANGED serverVars
      BY <1>6, <2>3 DEF RunnerStep, RunnerFault, QuiescenceDeadline, RunnerUnchanged,
          Recover, RegisterSession, Submit, BindFlowmesh, WorkflowEnded, SkipRefused, Poll,
          StartWriting, UpdateTelemetry, FinishDone, FinishFailed, Record,
          PinningFails, SubmitFails, RetrieveFails, UpdateFails,
          BindFails, FinishDoneFails, FinishFails, RecoverFails
    <3> QED
      BY <3>1
  <2> QED
    BY <2>1, <2>2, <2>3
<1>7. CASE GatewayDies
  <2>1. CASE gateLock = None
    BY <1>7, <2>1 DEF GatewayDies
  <2>2. CASE gateLock # None
    BY <1>0, <1>7, <2>2, GoneIsStep DEF GatewayDies, HangUp
  <2> QED
    BY <2>1, <2>2
<1>8. CASE DataAgentDies
  BY <1>8 DEF DataAgentDies
<1>9. CASE Over
  BY <1>9 DEF Over, vars
<1> QED
  BY <1>1, <1>2, <1>3, <1>4, <1>5, <1>6, <1>7, <1>8, <1>9 DEF Next

-----------------------------------------------------------------------------
(* What the accepted events have cost.                                     *)

LEMMA NaturalSet ==
    ASSUME NEW T \in SUBSET Nat, 0 \in T, \A n \in T : n + 1 \in T
    PROVE  T = Nat
<1> SUFFICES ASSUME Nat \ T # {} PROVE FALSE
  OBVIOUS
<1> DEFINE R == OpToRel(<, Nat)
<1>1. IsWellFoundedOn(R, Nat)
  BY NatLessThanWellFounded
<1>2. \A m, n \in Nat : <<m, n>> \in R <=> m < n
  BY DEF OpToRel
<1> HIDE DEF R
<1>3. PICK n \in Nat \ T : \A m \in Nat \ T : ~ (<<m, n>> \in R)
  BY <1>1, WFMin
<1>4. n # 0 /\ n - 1 \in Nat /\ n - 1 < n
  OBVIOUS
<1>5. n - 1 \in T
  BY <1>2, <1>3, <1>4
<1> QED
  BY <1>3, <1>4, <1>5

\* f has the sums of the first costs.
Sums(f, cost, n) ==
    /\ f[0] = 0
    /\ \A i \in 1 .. n : f[i] = f[i - 1] + cost[i]

LEMMA SumsExist ==
    ASSUME NEW n \in Nat, NEW cost \in [1 .. n -> Nat]
    PROVE  \E f \in [0 .. n -> Nat] : Sums(f, cost, n)
<1> DEFINE Has(m) == \E f \in [0 .. m -> Nat] : Sums(f, cost, m)
           T == {m \in Nat : m <= n => Has(m)}
<1>1. Has(0)
  <2> DEFINE f == [i \in 0 .. 0 |-> 0]
  <2>1. f \in [0 .. 0 -> Nat] /\ Sums(f, cost, 0)
    BY DEF Sums
  <2> QED
    BY <2>1
<1>2. ASSUME NEW m \in Nat, m + 1 <= n, Has(m) PROVE Has(m + 1)
  <2>1. PICK g \in [0 .. m -> Nat] : Sums(g, cost, m)
    BY <1>2
  <2> DEFINE f == [i \in 0 .. m + 1 |-> IF i = m + 1 THEN g[m] + cost[i] ELSE g[i]]
  <2>2. cost[m + 1] \in Nat /\ g[m] \in Nat
    BY <1>2
  <2>3. f \in [0 .. m + 1 -> Nat]
    BY <2>2
  <2>4. f[0] = 0
    BY <2>1 DEF Sums
  <2>5. ASSUME NEW i \in 1 .. m + 1 PROVE f[i] = f[i - 1] + cost[i]
    <3>1. CASE i = m + 1
      BY <3>1
    <3>2. CASE i # m + 1
      <4>1. i \in 1 .. m /\ i - 1 \in 0 .. m /\ i - 1 # m + 1
        BY <3>2
      <4>2. g[i] = g[i - 1] + cost[i]
        BY <2>1, <4>1 DEF Sums
      <4> QED
        BY <3>2, <4>1, <4>2
    <3> QED
      BY <3>1, <3>2
  <2> HIDE DEF f
  <2>6. Sums(f, cost, m + 1)
    BY <2>4, <2>5 DEF Sums
  <2> QED
    BY <2>3, <2>6
<1> HIDE DEF Has
<1>3. 0 \in T
  BY <1>1
<1>4. ASSUME NEW m \in T PROVE m + 1 \in T
  BY <1>2
<1>5. T \in SUBSET Nat
  OBVIOUS
<1> HIDE DEF T
<1>6. n \in T
  BY <1>3, <1>4, <1>5, NaturalSet
<1>7. Has(n)
  BY <1>6 DEF T
<1> QED
  BY <1>7 DEF Has

LEMMA SumsAgree ==
    ASSUME NEW n \in Nat, NEW cost, NEW f, NEW g, Sums(f, cost, n), Sums(g, cost, n)
    PROVE  f[n] = g[n]
<1> DEFINE T == {m \in Nat : m <= n => f[m] = g[m]}
<1>1. 0 \in T
  BY DEF Sums
<1>2. ASSUME NEW m \in T PROVE m + 1 \in T
  <2> SUFFICES ASSUME m + 1 <= n PROVE f[m + 1] = g[m + 1]
    OBVIOUS
  <2>1. m + 1 \in 1 .. n /\ m + 1 - 1 = m
    OBVIOUS
  <2>2. f[m + 1] = f[m] + cost[m + 1] /\ g[m + 1] = g[m] + cost[m + 1]
    BY <2>1 DEF Sums
  <2>3. f[m] = g[m]
    OBVIOUS
  <2> QED
    BY <2>2, <2>3
<1>3. T \in SUBSET Nat
  OBVIOUS
<1> HIDE DEF T
<1>4. n \in T
  BY <1>1, <1>2, <1>3, NaturalSet
<1> QED
  BY <1>4 DEF T

SpentOn(log) ==
    LET spent[i \in 0 .. Len(log)] == IF i = 0 THEN 0 ELSE spent[i - 1] + Cost(log[i])
    IN  spent[Len(log)]

Costs(log) == [i \in 1 .. Len(log) |-> Cost(log[i])]

LEMMA CostType == ASSUME NEW e \in Event PROVE Cost(e) \in Nat
BY PilotAssumption DEF Cost, Event

LEMMA SpentSums ==
    ASSUME NEW log \in Seq(Event)
    PROVE  \E f \in [0 .. Len(log) -> Nat] :
              Sums(f, Costs(log), Len(log)) /\ SpentOn(log) = f[Len(log)]
<1> DEFINE n == Len(log)
           eq(f) == f = [i \in 0 .. n |-> IF i = 0 THEN 0 ELSE f[i - 1] + Cost(log[i])]
           g == CHOOSE f : eq(f)
<1>1. n \in Nat /\ \A i \in 1 .. n : log[i] \in Event
  OBVIOUS
<1>2. \A i \in 1 .. n : Cost(log[i]) \in Nat
  BY <1>1, CostType
<1>3. Costs(log) \in [1 .. n -> Nat] /\ \A i \in 1 .. n : Costs(log)[i] = Cost(log[i])
  BY <1>2 DEF Costs
<1>4. SpentOn(log) = g[n]
  BY DEF SpentOn
<1> HIDE DEF n
<1>5. PICK f \in [0 .. n -> Nat] : Sums(f, Costs(log), n)
  BY <1>1, <1>3, SumsExist
<1>6. eq(f)
  <2>1. ASSUME NEW i \in 0 .. n PROVE f[i] = IF i = 0 THEN 0 ELSE f[i - 1] + Cost(log[i])
    <3>1. CASE i = 0
      BY <1>5, <3>1 DEF Sums
    <3>2. CASE i # 0
      <4>1. i \in 1 .. n
        BY <1>1, <3>2
      <4> QED
        BY <1>3, <1>5, <3>2, <4>1 DEF Sums
    <3> QED
      BY <3>1, <3>2
  <2> QED
    BY <2>1
<1>7. eq(g)
  BY <1>6
<1> HIDE DEF g
<1>8. Sums(g, Costs(log), n)
  <2>1. g[0] = 0
    BY <1>1, <1>7
  <2>2. ASSUME NEW i \in 1 .. n PROVE g[i] = g[i - 1] + Costs(log)[i]
    <3>1. i \in 0 .. n /\ i # 0
      BY <1>1
    <3> QED
      BY <1>3, <1>7, <3>1
  <2> QED
    BY <2>1, <2>2 DEF Sums
<1>9. g[n] = f[n]
  BY <1>1, <1>5, <1>8, SumsAgree
<1> QED
  BY <1>4, <1>5, <1>9 DEF n

LEMMA SpentAlike ==
    ASSUME NEW log \in Seq(Event), NEW more \in Seq(Event), Len(more) = Len(log),
           \A i \in 1 .. Len(log) : Cost(more[i]) = Cost(log[i])
    PROVE  SpentOn(more) = SpentOn(log)
<1>1. PICK f \in [0 .. Len(log) -> Nat] :
         Sums(f, Costs(log), Len(log)) /\ SpentOn(log) = f[Len(log)]
  BY SpentSums
<1>2. PICK g \in [0 .. Len(more) -> Nat] :
         Sums(g, Costs(more), Len(more)) /\ SpentOn(more) = g[Len(more)]
  BY SpentSums
<1>3. Costs(more) = Costs(log)
  BY DEF Costs
<1>4. Len(log) \in Nat
  OBVIOUS
<1>5. Sums(g, Costs(log), Len(log))
  BY <1>2, <1>3
<1>6. f[Len(log)] = g[Len(log)]
  BY <1>1, <1>4, <1>5, SumsAgree
<1> QED
  BY <1>1, <1>2, <1>6

LEMMA SpentAppend ==
    ASSUME NEW log \in Seq(Event), NEW e \in Event
    PROVE  /\ SpentOn(Append(log, e)) = SpentOn(log) + Cost(e)
           /\ SpentOn(log) \in Nat
<1> DEFINE more == Append(log, e)
           n == Len(log)
<1>0. n \in Nat /\ more \in Seq(Event) /\ Len(more) = n + 1
  OBVIOUS
<1>1. more[n + 1] = e /\ \A i \in 1 .. n : more[i] = log[i]
  OBVIOUS
<1>2. PICK f \in [0 .. n -> Nat] : Sums(f, Costs(log), n) /\ SpentOn(log) = f[n]
  BY SpentSums
<1> HIDE DEF more
<1>3. PICK g \in [0 .. Len(more) -> Nat] :
         Sums(g, Costs(more), Len(more)) /\ SpentOn(more) = g[Len(more)]
  BY <1>0, SpentSums
<1>4. /\ \A i \in 1 .. n : Costs(log)[i] = Cost(log[i])
      /\ \A i \in 1 .. n + 1 : Costs(more)[i] = Cost(more[i])
  BY <1>0 DEF Costs
<1> HIDE DEF n
<1>5. Sums(g, Costs(log), n)
  <2>1. g[0] = 0
    BY <1>3 DEF Sums
  <2>2. ASSUME NEW i \in 1 .. n PROVE g[i] = g[i - 1] + Costs(log)[i]
    <3>1. i \in 1 .. n + 1
      BY <1>0
    <3>2. g[i] = g[i - 1] + Costs(more)[i]
      BY <1>0, <1>3, <3>1 DEF Sums
    <3> QED
      BY <1>1, <1>4, <3>1, <3>2
  <2> QED
    BY <2>1, <2>2 DEF Sums
<1>6. f[n] = g[n]
  BY <1>0, <1>2, <1>5, SumsAgree
<1>7. g[n + 1] = g[n] + Cost(e)
  <2>1. n + 1 \in 1 .. n + 1 /\ n + 1 - 1 = n
    BY <1>0
  <2>2. g[n + 1] = g[n + 1 - 1] + Costs(more)[n + 1]
    BY <1>0, <1>3, <2>1 DEF Sums
  <2> QED
    BY <1>1, <1>4, <2>1, <2>2
<1>8. SpentOn(more) = SpentOn(log) + Cost(e)
  BY <1>0, <1>2, <1>3, <1>6, <1>7
<1>9. f[n] \in Nat
  BY <1>0, <1>2
<1> QED
  BY <1>2, <1>8, <1>9 DEF more

LEMMA SpentIs == Spent = SpentOn(events) /\ Spent' = SpentOn(events')
BY DEF Spent, SpentOn, Cost

AcceptedIn(log) == {i \in 1 .. Len(log) : log[i].accepted}

LEMMA AcceptedIs == Accepted = AcceptedIn(events) /\ Accepted' = AcceptedIn(events')
BY DEF Accepted, AcceptedIn

LEMMA AcceptedAppend ==
    ASSUME NEW log \in Seq(Event), NEW e \in Event
    PROVE  /\ Cardinality(AcceptedIn(log)) \in Nat
           /\ AcceptedIn(Append(log, e))
                = IF e.accepted THEN AcceptedIn(log) \cup {Len(log) + 1} ELSE AcceptedIn(log)
           /\ Cardinality(AcceptedIn(Append(log, e)))
                = Cardinality(AcceptedIn(log)) + IF e.accepted THEN 1 ELSE 0
<1>1. Len(log) \in Nat /\ Len(Append(log, e)) = Len(log) + 1
      /\ Append(log, e)[Len(log) + 1] = e
      /\ \A i \in 1 .. Len(log) : Append(log, e)[i] = log[i]
  OBVIOUS
<1>2. IsFiniteSet(AcceptedIn(log)) /\ Len(log) + 1 \notin AcceptedIn(log)
  <2>1. IsFiniteSet(1 .. Len(log))
    BY <1>1, FS_Interval
  <2>2. AcceptedIn(log) \in SUBSET (1 .. Len(log))
    BY DEF AcceptedIn
  <2> QED
    BY <1>1, <2>1, <2>2, FS_Subset
<1>3. Cardinality(AcceptedIn(log)) \in Nat
  BY <1>2, FS_CardinalityType
<1>4. AcceptedIn(Append(log, e))
         = IF e.accepted THEN AcceptedIn(log) \cup {Len(log) + 1} ELSE AcceptedIn(log)
  <2>1. \A i \in 1 .. Len(log) + 1 : i \in 1 .. Len(log) \/ i = Len(log) + 1
    BY <1>1
  <2>2. 1 .. Len(Append(log, e)) = 1 .. Len(log) + 1
    BY <1>1
  <2>3. \A i : i \in AcceptedIn(Append(log, e)) <=>
                 i \in AcceptedIn(log) \/ (i = Len(log) + 1 /\ e.accepted)
    BY <1>1, <2>1, <2>2 DEF AcceptedIn
  <2> QED
    BY <2>3
<1>5. e.accepted \in BOOLEAN
  BY DEF Event
<1>6. CASE e.accepted
  BY <1>2, <1>3, <1>4, <1>6, FS_AddElement
<1>7. CASE ~e.accepted
  BY <1>3, <1>4, <1>7
<1> QED
  BY <1>3, <1>4, <1>5, <1>6, <1>7

-----------------------------------------------------------------------------
(* The gateway's tool calls.                                               *)

Calling == [pc : {"idle", "lock", "send", "await", "append", "download", "receive"},
            rep : Reps, index : 0 .. MaxEvents, fetch : BOOLEAN, response : Nat]

LEMMA NoCallType ==
    /\ NoCall \in Calling
    /\ NoCall.pc = "idle" /\ NoCall.index = 0 /\ ~NoCall.fetch
<1>1. (CHOOSE r \in Reps : TRUE) \in Reps
  BY PilotAssumption
<1>2. 0 \in 0 .. MaxEvents
  BY PilotAssumption
<1> QED
  BY <1>1, <1>2 DEF NoCall, Calling

LEMMA CallType ==
    ASSUME TypeOK, NEW t \in Tools
    PROVE  /\ tool \in [Tools -> Calling] /\ tool[t] \in Calling
           /\ tool[t].rep \in Reps /\ tool[t].index \in 0 .. MaxEvents
           /\ tool[t].fetch \in BOOLEAN /\ tool[t].response \in Nat
           /\ t \in Callers /\ link[t] \in Handlers \cup {None, Broken}
<1>1. tool \in [Tools -> Calling]
  BY SessionTypes DEF Calling
<1>2. tool[t] \in Calling
  BY <1>1
<1> QED
  BY <1>1, <1>2, SessionTypes DEF Calling

\* Who changes the events, the lock and the tool calls.
LEMMA GateGroups ==
    ASSUME Next
    PROVE  \/ \E rep \in Reps : AgentAccess(rep)
           \/ \E i \in Accepted : AgentFetch(i)
           \/ \E t \in Tools : ToolStep(t) \/ ToolFault(t)
           \/ GatewayDies
           \/ UpdateTelemetry
           \/ UNCHANGED <<events, gateLock, tool>>
<1>1. CASE MeshDone \/ MeshFails
  BY <1>1 DEF MeshDone, MeshFails, MeshEnds, gatewayVars
<1>2. CASE \E h \in Handlers : HandlerStep(h) \/ HandlerFault(h)
  BY <1>2 DEF HandlerStep, HandlerFault, gatewayVars
<1>3. CASE DataAgentDies \/ Over
  BY <1>3 DEF DataAgentDies, Over, vars, gatewayVars
<1>4. CASE RunnerStep \/ QuiescenceDeadline \/ RunnerFault
  <2>1. CASE SendTelemetry \/ TelemetryAnswered \/ TelemetryRetried \/ TelemetryLost
             \/ TelemetryBroken \/ RunnerDies
    BY <2>1 DEF SendTelemetry, TelemetryAnswered, TelemetryRetried, TelemetryLost,
        TelemetryBroken, RunnerDies, gatewayVars
  <2>2. CASE Recover \/ RegisterSession \/ Submit \/ BindFlowmesh \/ WorkflowEnded \/ SkipRefused \/ Poll
             \/ StartWriting \/ FinishDone \/ FinishFailed \/ Record \/ QuiescenceDeadline
             \/ PinningFails \/ SubmitFails \/ RetrieveFails \/ UpdateFails
             \/ BindFails \/ FinishDoneFails \/ FinishFails \/ RecoverFails
    BY <2>2 DEF Recover, RegisterSession, Submit, BindFlowmesh, WorkflowEnded, SkipRefused, Poll,
        StartWriting, FinishDone, FinishFailed, Record, QuiescenceDeadline,
        PinningFails, SubmitFails, RetrieveFails, UpdateFails,
        BindFails, FinishDoneFails, FinishFails, RecoverFails, RunnerUnchanged
  <2> QED
    BY <1>4, <2>1, <2>2 DEF RunnerStep, RunnerFault
<1> QED
  BY <1>1, <1>2, <1>3, <1>4 DEF Next

\* The events but for their figures.
Alike ==
    /\ events' \in Seq(Event) /\ Len(events') = Len(events)
    /\ \A i \in 1 .. Len(events) :
          /\ events'[i].index = events[i].index /\ events'[i].rep = events[i].rep
          /\ events'[i].accepted = events[i].accepted
          /\ events'[i].response = events[i].response

LEMMA AlikeSame ==
    ASSUME TypeOK, Alike
    PROVE  /\ Len(events') = Len(events) /\ Accepted' = Accepted /\ Spent' = Spent
           /\ \A rep : Affordable(rep)' = Affordable(rep)
<1>0. events \in Seq(Event) /\ events' \in Seq(Event) /\ Len(events') = Len(events)
  BY SessionTypes DEF Alike
<1>1. Accepted' = Accepted
  BY <1>0 DEF Alike, Accepted
<1>2. Spent' = Spent
  <2>1. \A i \in 1 .. Len(events) : Cost(events'[i]) = Cost(events[i])
    BY DEF Alike, Cost
  <2> DEFINE more == events'
  <2>2. more \in Seq(Event) /\ Len(more) = Len(events)
        /\ \A i \in 1 .. Len(events) : Cost(more[i]) = Cost(events[i])
    BY <1>0, <2>1
  <2> HIDE DEF more
  <2>3. SpentOn(more) = SpentOn(events)
    BY <1>0, <2>2, SpentAlike
  <2> QED
    BY <2>3, SpentIs DEF more
<1> QED
  BY <1>0, <1>1, <1>2 DEF Affordable

LEMMA ElementOf == ASSUME NEW S, NEW s \in Seq(S), NEW i \in 1 .. Len(s) PROVE s[i] \in S
OBVIOUS

LEMMA UpdateIsAlike ==
    ASSUME IInv, UpdateTelemetry
    PROVE  /\ Alike
           /\ runner.next \in 1 .. Len(events) /\ runner.next \in 1 .. Len(runner.pending)
           /\ events'[runner.next].figures = runner.pending[runner.next]
           /\ \A i \in 1 .. Len(events) : i # runner.next => events'[i] = events[i]
<1> DEFINE n == runner.next
           e == [events[n] EXCEPT !.figures = runner.pending[n]]
<1>0. events \in Seq(Event) /\ Len(events) \in Nat /\ \A i \in 1 .. Len(events) : events[i] \in Event
  BY SessionTypes DEF IInv
<1>1. /\ n \in Nat \ {0} /\ runner.upto \in Nat /\ runner.upto <= Len(events)
      /\ Len(runner.pending) = runner.upto
      /\ runner.pending \in Seq([requests : Nat, full : Nat])
  BY DEF IInv, RunnerTypeOK, CollectedCounts, PendingCounts, AwaitsAccepted, Reconciling, UpdateTelemetry, RunnerAt
<1>2. ~(n > runner.upto)
  BY DEF UpdateTelemetry, Written
<1>3. n \in 1 .. Len(events) /\ n \in 1 .. Len(runner.pending)
  <2> DEFINE upto == runner.upto
             len == Len(events)
             size == Len(runner.pending)
  <2>1. n \in Nat \ {0} /\ upto \in Nat /\ len \in Nat /\ upto <= len /\ size = upto /\ ~(n > upto)
    BY <1>0, <1>1, <1>2
  <2> HIDE DEF n, upto, len, size
  <2>2. n \in 1 .. len /\ n \in 1 .. size
    BY <2>1
  <2> QED
    BY <2>2 DEF n, len, size
<1>4. runner.pending[n] \in [requests : Nat, full : Nat] /\ events[n] \in Event
  BY <1>0, <1>1, <1>3, ElementOf
<1>5. /\ e \in Event /\ e.figures = runner.pending[n] /\ e.index = events[n].index
      /\ e.rep = events[n].rep /\ e.accepted = events[n].accepted /\ e.response = events[n].response
  BY <1>4 DEF Event
<1>6. events' = [events EXCEPT ![n] = e]
  BY DEF UpdateTelemetry
<1> HIDE DEF n, e
<1>7. events' \in Seq(Event) /\ Len(events') = Len(events)
  BY <1>0, <1>3, <1>5, <1>6
<1>8. events'[n] = e /\ \A i \in 1 .. Len(events) : i # n => events'[i] = events[i]
  BY <1>0, <1>3, <1>6
<1>9. Alike
  BY <1>5, <1>7, <1>8 DEF Alike
<1> QED
  BY <1>3, <1>5, <1>8, <1>9 DEF n

LEMMA SameIsAlike ==
    ASSUME TypeOK, events' = events
    PROVE  Alike
BY SessionTypes DEF Alike

\* The calls that may still append an event.
Accessing == {t \in Tools \ FreeTools : tool[t].fetch = FALSE}

LEMMA AccessingSize == Open(FALSE) = Cardinality(Accessing) /\ Open(FALSE) \in Nat
BY OpenSize DEF Open, Accessing

\* How they change with one tool.
LEMMA OpenMoves ==
    ASSUME NEW t \in Tools, \A s \in Tools \ {t} : tool'[s] = tool[s]
    PROVE  /\ (t \in Accessing <=> t \in Accessing') => Open(FALSE)' = Open(FALSE)
           /\ t \notin Accessing /\ t \in Accessing' => Open(FALSE)' = Open(FALSE) + 1
           /\ t \in Accessing /\ t \notin Accessing' => Open(FALSE)' = Open(FALSE) - 1
<1> DEFINE R == Accessing \ {t}
<1>1. IsFiniteSet(R) /\ t \notin R
  <2>1. R \in SUBSET Tools
    BY DEF Accessing
  <2> HIDE DEF R
  <2>2. IsFiniteSet(R)
    BY <2>1, PilotAssumption, FS_Subset
  <2> QED
    BY <2>2 DEF R
<1>2. Accessing' \ {t} = R
  BY DEF Accessing, FreeTools
<1>3. /\ t \in Accessing => Accessing = R \cup {t}
      /\ t \notin Accessing => Accessing = R
      /\ t \in Accessing' => Accessing' = R \cup {t}
      /\ t \notin Accessing' => Accessing' = R
  BY <1>2
<1> HIDE DEF R
<1>4. Cardinality(R) \in Nat /\ Cardinality(R \cup {t}) = Cardinality(R) + 1
  BY <1>1, FS_AddElement, FS_CardinalityType
<1>5. Open(FALSE) = Cardinality(Accessing) /\ Open(FALSE)' = Cardinality(Accessing')
  BY DEF Open, Accessing
<1> DEFINE o == Open(FALSE)
           p == Open(FALSE)'
           n == Cardinality(R)
           c == Cardinality(Accessing)
           d == Cardinality(Accessing')
<1>6. o = c /\ p = d
  BY <1>5
<1>7. /\ n \in Nat
      /\ t \in Accessing => c = n + 1
      /\ t \notin Accessing => c = n
      /\ t \in Accessing' => d = n + 1
      /\ t \notin Accessing' => d = n
  BY <1>3, <1>4
<1> HIDE DEF o, p, n, c, d
<1>8. /\ (t \in Accessing <=> t \in Accessing') => p = o
      /\ t \notin Accessing /\ t \in Accessing' => p = o + 1
      /\ t \in Accessing /\ t \notin Accessing' => p = o - 1
  BY <1>6, <1>7
<1> QED
  BY <1>8 DEF o, p

\* A call on a free thread.
LEMMA Calls ==
    ASSUME TypeOK, NEW call, AgentCalls(call)
    PROVE  \E t \in FreeTools : tool' = [tool EXCEPT ![t] = call]
BY DEF AgentCalls


\* What the gateway keeps of its calls.
GateTypeOK ==
    /\ events \in Seq(Event) /\ Len(events) <= MaxEvents
    /\ gateLock \in Tools \cup {None}
    /\ tool \in [Tools -> Calling]

LEMMA Named ==
    /\ Runner \notin Tools /\ None \notin Tools /\ None # Broken
    /\ None \notin Handlers /\ Broken \notin Handlers
BY PilotAssumption

\* A step of a tool call is alone at the gateway.
LEMMA ToolMoves ==
    ASSUME IInv, NEW t \in Tools, ToolStep(t) \/ ToolFault(t)
    PROVE  /\ tool' \in [Tools -> Calling]
           /\ \A s \in Tools \ {t} : tool'[s] = tool[s]
           /\ gateLock \in {None, t} /\ gateLock' \in {None, t}
           /\ events' = events \/ RejectAccess(t) \/ AppendEvent(t)
           /\ tool[t].pc # "idle"
           /\ \/ tool'[t] = NoCall
              \/ /\ tool'[t].pc \in {"send", "await", "append", "download", "receive"}
                 /\ gateLock' = t
                 /\ tool'[t].fetch = tool[t].fetch /\ tool'[t].rep = tool[t].rep
                 /\ tool'[t].index = IF AdmitAccess(t) THEN Len(events) ELSE tool[t].index
           /\ UNCHANGED <<status, mesh, runner, recorded, submissions, due>>
<1>0. /\ tool \in [Tools -> Calling] /\ tool[t] \in Calling
      /\ tool[t].fetch \in BOOLEAN /\ tool[t].response \in Nat
  BY CallType DEF IInv
<1>1. NoCall \in Calling
  BY NoCallType
<1>2. Len(events) \in 0 .. MaxEvents
  <2>1. Len(events) \in Nat /\ Len(events) <= MaxEvents /\ MaxEvents \in Nat
    BY SessionTypes DEF IInv
  <2> QED
    BY <2>1
<1>f. GateFits(t) /\ (link[t] # None => tool[t].pc \in {"await", "receive"})
  BY DEF IInv, GateIsHeld, LinksAreServed
<1>h. tool[t].pc \notin {"idle", "lock"} => gateLock = t
  BY <1>f DEF GateFits
<1>r. Return(t) => /\ tool' \in [Tools -> Calling] /\ \A s \in Tools \ {t} : tool'[s] = tool[s]
                   /\ gateLock' = None /\ tool'[t] = NoCall
  BY <1>0, <1>1 DEF Return
<1>g. ASSUME NEW c \in Calling, tool' = [tool EXCEPT ![t] = c]
      PROVE  tool' \in [Tools -> Calling] /\ tool'[t] = c /\ \A s \in Tools \ {t} : tool'[s] = tool[s]
  BY <1>0, <1>g
<1>3. CASE AdmitAccess(t)
  <2>1. tool' = [tool EXCEPT ![t] = [tool[t] EXCEPT !.pc = "send", !.index = Len(events)]]
    BY <1>0, <1>3 DEF AdmitAccess
  <2>2. [tool[t] EXCEPT !.pc = "send", !.index = Len(events)] \in Calling
    BY <1>0, <1>2 DEF Calling
  <2>3. /\ tool' \in [Tools -> Calling] /\ \A s \in Tools \ {t} : tool'[s] = tool[s]
        /\ tool'[t] = [tool[t] EXCEPT !.pc = "send", !.index = Len(events)]
    BY <1>g, <2>1, <2>2
  <2>4. /\ tool'[t].pc = "send" /\ tool'[t].fetch = tool[t].fetch /\ tool'[t].rep = tool[t].rep
        /\ tool'[t].index = Len(events)
    BY <1>0, <2>3 DEF Calling
  <2> QED
    BY <1>3, <2>3, <2>4 DEF AdmitAccess, Enter, runnerVars
<1>4. ASSUME NEW label \in {"send", "await", "append", "download", "receive"}, NEW r \in Nat,
             \/ tool' = [tool EXCEPT ![t] = [tool[t] EXCEPT !.pc = label]]
             \/ tool' = [tool EXCEPT ![t] = [tool[t] EXCEPT !.pc = label, !.response = r]]
      PROVE  /\ tool' \in [Tools -> Calling] /\ \A s \in Tools \ {t} : tool'[s] = tool[s]
             /\ tool'[t].pc = label
             /\ tool'[t].fetch = tool[t].fetch /\ tool'[t].rep = tool[t].rep
             /\ tool'[t].index = tool[t].index
  <2>1. CASE tool' = [tool EXCEPT ![t] = [tool[t] EXCEPT !.pc = label]]
    <3>1. [tool[t] EXCEPT !.pc = label] \in Calling
      BY <1>0 DEF Calling
    <3>2. /\ tool' \in [Tools -> Calling] /\ \A s \in Tools \ {t} : tool'[s] = tool[s]
          /\ tool'[t] = [tool[t] EXCEPT !.pc = label]
      BY <1>g, <2>1, <3>1
    <3> QED
      BY <1>0, <3>2 DEF Calling
  <2>2. CASE tool' = [tool EXCEPT ![t] = [tool[t] EXCEPT !.pc = label, !.response = r]]
    <3>1. [tool[t] EXCEPT !.pc = label, !.response = r] \in Calling
      BY <1>0 DEF Calling
    <3>2. /\ tool' \in [Tools -> Calling] /\ \A s \in Tools \ {t} : tool'[s] = tool[s]
          /\ tool'[t] = [tool[t] EXCEPT !.pc = label, !.response = r]
      BY <1>g, <2>2, <3>1
    <3> QED
      BY <1>0, <3>2 DEF Calling
  <2> QED
    BY <1>4, <2>1, <2>2
<1>5. CASE AdmitFetch(t)
  <2>1. tool' = [tool EXCEPT ![t] = [tool[t] EXCEPT !.pc = "send"]]
    BY <1>0, <1>5 DEF AdmitFetch
  <2>2. /\ ~AdmitAccess(t) /\ gateLock = None /\ gateLock' = t /\ events' = events /\ tool[t].pc # "idle"
        /\ UNCHANGED <<status, mesh, runner, recorded, submissions, due>>
    BY <1>5 DEF AdmitFetch, AdmitAccess, Enter, runnerVars
  <2> QED
    BY <1>0, <1>4, <2>1, <2>2
<1>6. CASE SendAccess(t) \/ SendDownload(t) \/ AccessRetried(t)
  <2>1. PICK label \in {"send", "await", "append", "download", "receive"} :
           tool' = [tool EXCEPT ![t] = [tool[t] EXCEPT !.pc = label]]
    BY <1>0, <1>6 DEF SendAccess, SendDownload, AccessRetried
  <2>2. /\ ~AdmitAccess(t) /\ gateLock' = gateLock /\ events' = events
        /\ tool[t].pc \notin {"idle", "lock"}
        /\ UNCHANGED <<status, mesh, runner, recorded, submissions, due>>
    BY <1>6 DEF SendAccess, SendDownload, AccessRetried, AdmitAccess, Enter, runnerVars
  <2> QED
    BY <1>0, <1>h, <1>4, <2>1, <2>2
<1>7. CASE RejectAccess(t) \/ RejectFetch(t) \/ AppendEvent(t) \/ StoreFails(t)
  <2>1. /\ Return(t) /\ tool[t].pc # "idle" /\ (gateLock = None \/ tool[t].pc = "append")
        /\ events' = events \/ RejectAccess(t) \/ AppendEvent(t)
        /\ UNCHANGED <<status, mesh, runner, recorded, submissions, due>>
    BY <1>7 DEF RejectAccess, RejectFetch, AppendEvent, StoreFails, runnerVars
  <2> QED
    BY <1>h, <1>r, <2>1
<1>8. CASE AccessLost(t) \/ BodyReceived(t) \/ DownloadLost(t) \/ ConnectionBroken(t)
  <2>1. /\ Return(t) /\ events' = events
        /\ tool[t].pc \in {"await", "receive"} \/ link[t] = Broken
        /\ UNCHANGED <<status, mesh, runner, recorded, submissions, due>>
    BY <1>8 DEF AccessLost, BodyReceived, DownloadLost, ConnectionBroken, Break, runnerVars
  <2>2. tool[t].pc \in {"await", "receive"}
    BY <1>f, <2>1, Named
  <2> QED
    BY <1>h, <1>r, <2>1, <2>2
<1>9. CASE AccessAnswered(t)
  <2>1. /\ events' = events /\ tool[t].pc = "await" /\ ~AdmitAccess(t)
        /\ UNCHANGED <<status, mesh, runner, recorded, submissions, due>>
    BY <1>9 DEF AccessAnswered, AdmitAccess, Enter, runnerVars
  <2>2. CASE Return(t)
    BY <1>h, <1>r, <2>1, <2>2
  <2>3. CASE ~Return(t)
    <3> DEFINE label == IF tool[t].fetch THEN "download" ELSE "append"
    <3>1. /\ tool' = [tool EXCEPT ![t] = [tool[t] EXCEPT !.pc = label, !.response = Answer(t).response]]
          /\ gateLock' = gateLock
      BY <1>0, <1>9, <2>3 DEF AccessAnswered
    <3>2. label \in {"send", "await", "append", "download", "receive"}
      OBVIOUS
    <3>3. Answer(t).response \in Nat
      BY <1>9, HandlerType DEF AccessAnswered, Answered, Answer, IInv, ServerInv, Handling
    <3> HIDE DEF label
    <3> QED
      BY <1>0, <1>h, <1>4, <2>1, <3>1, <3>2, <3>3
  <2> QED
    BY <2>2, <2>3
<1> QED
  BY <1>3, <1>5, <1>6, <1>7, <1>8, <1>9 DEF ToolStep, ToolFault

LEMMA AppendEvents ==
    ASSUME TypeOK, NEW e \in Event, events' = Append(events, e), Len(events) < MaxEvents
    PROVE  /\ events' \in Seq(Event) /\ Len(events') = Len(events) + 1 /\ Len(events') <= MaxEvents
           /\ events'[Len(events) + 1] = e
           /\ \A i \in 1 .. Len(events) : events'[i] = events[i]
<1>1. events \in Seq(Event) /\ Len(events) \in Nat /\ MaxEvents \in Nat
  BY SessionTypes
<1> QED
  BY <1>1

LEMMA FitsNoCall == ASSUME NEW t \in Tools, tool'[t] = NoCall PROVE GateFits(t)'
BY NoCallType DEF GateFits

\* A call that waits for the lock, while the events grow.
LEMMA FitsWaiting ==
    ASSUME IInv, NEW s \in Tools, tool'[s] = tool[s], tool[s].pc \in {"idle", "lock"},
           Len(events') \in Nat, Len(events) <= Len(events')
    PROVE  GateFits(s)'
<1>1. GateFits(s) /\ Len(events) \in Nat /\ tool[s].index \in Nat
  BY CallType, SessionTypes, PilotAssumption DEF IInv, GateIsHeld
<1> QED
  BY <1>1 DEF GateFits

\* A call that does not move, while nothing is appended.
LEMMA FitsStill ==
    ASSUME IInv, Next, NEW s \in Tools, tool'[s] = tool[s], gateLock' = gateLock, Alike
    PROVE  GateFits(s)'
<1>1. GateFits(s) /\ Len(events') = Len(events)
  BY DEF IInv, GateIsHeld, Alike
<1>2. \A rep : Affordable(rep)' = Affordable(rep)
  BY AlikeSame DEF IInv
<1>3. RequestOf(s)' = RequestOf(s)
  BY DEF RequestOf
<1>4. CASE tool[s].pc = "append"
  <2>1. RequestOf(s) \in Accesses
    BY <1>4, IndexBound, RequestInAccesses
  <2>2. operations[RequestOf(s)] # 0 => operations'[RequestOf(s)] = operations[RequestOf(s)]
    BY <2>1, ServerGrows, SessionIsServer DEF IInv
  <2> QED
    BY <1>1, <1>2, <1>3, <1>4, <2>2 DEF GateFits
<1>5. CASE tool[s].pc # "append"
  BY <1>1, <1>2, <1>5 DEF GateFits
<1> QED
  BY <1>4, <1>5

\* The answer to an access is what is stored.
LEMMA AnswerIsStored ==
    ASSUME IInv, NEW t \in Tools, Answered(t), Answer(t).response # 0
    PROVE  operations[RequestOf(t)] = Answer(t).response
<1>1. link[t] \in Handlers /\ thread[link[t]].pc = "answer" /\ thread[link[t]].response # 0
  BY DEF Answered, Answer, At
<1>2. thread[link[t]].access = RequestOf(t)
  BY <1>1, Named DEF IInv, LinksAreServed, IsServed, Asks, Callers
<1>3. operations[thread[link[t]].access] = thread[link[t]].response
  BY <1>1 DEF IInv, ServerInv, AnswersAreStored, IsStored, At
<1> QED
  BY <1>2, <1>3 DEF Answer

\* The call that moves.
LEMMA FitsMoving ==
    ASSUME IInv, NEW t \in Tools, ToolStep(t) \/ ToolFault(t)
    PROVE  GateFits(t)'
<1>0. /\ tool \in [Tools -> Calling] /\ tool[t] \in Calling /\ tool[t].fetch \in BOOLEAN
      /\ Len(events) \in Nat
  BY CallType, SessionTypes DEF IInv
<1>1. CASE tool'[t] = NoCall
  BY <1>1, FitsNoCall
<1>2. CASE tool'[t] # NoCall
  <2>1. /\ tool'[t].pc \in {"send", "await", "append", "download", "receive"}
        /\ gateLock' = t /\ tool'[t].fetch = tool[t].fetch /\ tool'[t].rep = tool[t].rep
        /\ tool'[t].index = IF AdmitAccess(t) THEN Len(events) ELSE tool[t].index
        /\ tool[t].pc # "idle"
    BY <1>2, ToolMoves
  <2>f. GateFits(t)
    BY DEF IInv, GateIsHeld
  <2>2. events' = events
    <3>1. ~RejectAccess(t) /\ ~AppendEvent(t)
      BY <1>0, <1>2 DEF RejectAccess, AppendEvent, Return
    <3> QED
      BY <3>1, ToolMoves
  <2>3. Accepted' = Accepted /\ Spent' = Spent
    BY <2>2, SameIsAlike, AlikeSame DEF IInv
  <2>4. CASE AdmitAccess(t)
    <3>1. ~tool'[t].fetch /\ tool'[t].index = Len(events) /\ Affordable(tool[t].rep) /\ tool'[t].pc = "send"
      BY <1>0, <2>1, <2>4 DEF AdmitAccess, Calling
    <3> QED
      BY <2>1, <2>2, <2>3, <3>1 DEF GateFits, Affordable
  <2>5. CASE AdmitFetch(t)
    <3>1. tool[t].fetch /\ ~AdmitAccess(t)
      BY <2>5 DEF AdmitFetch, AdmitAccess
    <3>2. tool'[t].pc = "send"
      BY <1>0, <2>5 DEF AdmitFetch, Calling
    <3> QED
      BY <2>1, <2>2, <2>f, <3>1, <3>2 DEF GateFits
  <2>6. CASE AccessAnswered(t)
    <3>0. tool[t].pc = "await" /\ ~AdmitAccess(t) /\ Answered(t)
      BY <2>6 DEF AccessAnswered, AdmitAccess, Enter
    <3>1. ~Return(t)
      BY <1>0, <1>2 DEF Return
    <3>2. /\ Answer(t).response # 0
          /\ tool'[t].pc = IF tool[t].fetch THEN "download" ELSE "append"
          /\ tool'[t].response = Answer(t).response
      BY <1>0, <2>6, <3>1 DEF AccessAnswered, Calling
    <3>3. operations' = operations
      BY <2>6 DEF AccessAnswered, HangUp, Gone, storeVars
    <3>4. operations[RequestOf(t)] = Answer(t).response
      BY <3>0, <3>2, AnswerIsStored
    <3>5. RequestOf(t)' = RequestOf(t)
      BY <2>1, <3>0 DEF RequestOf
    <3>6. CASE tool[t].fetch
      BY <2>1, <2>2, <2>f, <3>0, <3>2, <3>6 DEF GateFits
    <3>7. CASE ~tool[t].fetch
      <4>1. tool'[t].index = Len(events) /\ Affordable(tool[t].rep)
        BY <2>1, <2>f, <3>0, <3>7 DEF GateFits
      <4>2. tool'[t].pc = "append" /\ ~tool'[t].fetch /\ tool'[t].response # 0
            /\ operations'[RequestOf(t)'] = tool'[t].response
        BY <2>1, <3>2, <3>3, <3>4, <3>5, <3>7
      <4> QED
        BY <2>1, <2>2, <2>3, <4>1, <4>2 DEF GateFits, Affordable
    <3> QED
      BY <3>6, <3>7
  <2>7. CASE SendAccess(t) \/ SendDownload(t) \/ AccessRetried(t)
    <3>0. ~AdmitAccess(t)
      BY <2>7 DEF SendAccess, SendDownload, AccessRetried, AdmitAccess, Enter
    <3>1. \/ tool[t].pc = "send" /\ tool'[t].pc = "await"
          \/ tool[t].pc = "download" /\ tool'[t].pc = "receive"
          \/ tool[t].pc = "await" /\ tool'[t].pc = "send"
      BY <1>0, <2>7 DEF SendAccess, SendDownload, AccessRetried, Calling
    <3>2. CASE tool[t].fetch
      BY <2>1, <2>2, <2>f, <3>0, <3>1, <3>2 DEF GateFits
    <3>3. CASE ~tool[t].fetch
      <4>1. tool[t].pc \in {"send", "await"}
        BY <2>f, <3>1, <3>3 DEF GateFits
      <4>2. tool'[t].index = Len(events) /\ Affordable(tool[t].rep)
        BY <2>1, <2>f, <3>0, <3>3, <4>1 DEF GateFits
      <4> QED
        BY <2>1, <2>2, <2>3, <3>1, <3>3, <4>1, <4>2 DEF GateFits, Affordable
    <3> QED
      BY <3>2, <3>3
  <2>8. CASE RejectAccess(t) \/ RejectFetch(t) \/ AppendEvent(t) \/ AccessLost(t) \/ BodyReceived(t)
             \/ DownloadLost(t) \/ ConnectionBroken(t) \/ StoreFails(t)
    BY <1>0, <1>2, <2>8 DEF RejectAccess, RejectFetch, AppendEvent, StoreFails, AccessLost, BodyReceived,
        DownloadLost, ConnectionBroken, Return
  <2> QED
    BY <2>4, <2>5, <2>6, <2>7, <2>8 DEF ToolStep, ToolFault
<1> QED
  BY <1>1, <1>2

\* What a tool call appends.
LEMMA RejectedIs ==
    ASSUME IInv, NEW t \in Tools, RejectAccess(t)
    PROVE  /\ Rejected(t) \in Event /\ Rejected(t).index = Len(events) /\ ~Rejected(t).accepted
           /\ Rejected(t).rep \in Reps
           /\ events' = Append(events, Rejected(t))
           /\ ~tool[t].fetch /\ tool[t].pc = "lock" /\ tool'[t] = NoCall
<1>1. /\ Len(events) \in 0 .. MaxEvents /\ tool[t].rep \in Reps /\ tool \in [Tools -> Calling]
  <2>1. Len(events) \in Nat /\ Len(events) <= MaxEvents /\ MaxEvents \in Nat
    BY SessionTypes DEF IInv
  <2> QED
    BY <2>1, CallType DEF IInv
<1>2. NoSummary \in [requests : Nat, full : Nat]
  BY DEF NoSummary
<1> QED
  BY <1>1, <1>2 DEF Rejected, Event, RejectAccess, Return

EventOf(t) == [index |-> tool[t].index, rep |-> tool[t].rep, accepted |-> TRUE,
               response |-> tool[t].response, figures |-> NoSummary]

LEMMA AppendedIs ==
    ASSUME IInv, NEW t \in Tools, AppendEvent(t)
    PROVE  /\ EventOf(t) \in Event /\ EventOf(t).index = Len(events) /\ EventOf(t).accepted
           /\ EventOf(t).response = tool[t].response /\ EventOf(t).figures = NoSummary
           /\ AccessOf(EventOf(t)) = RequestOf(t) /\ EventOf(t).rep = tool[t].rep
           /\ events' = Append(events, EventOf(t))
           /\ ~tool[t].fetch /\ tool[t].pc = "append" /\ tool'[t] = NoCall
           /\ tool[t].response # 0 /\ operations[RequestOf(t)] = tool[t].response
           /\ Affordable(tool[t].rep) /\ tool[t].rep \in Reps
<1>1. /\ tool[t].index \in 0 .. MaxEvents /\ tool[t].rep \in Reps /\ tool[t].response \in Nat
      /\ tool \in [Tools -> Calling]
  BY CallType DEF IInv
<1>2. NoSummary \in [requests : Nat, full : Nat]
  BY DEF NoSummary
<1>3. tool[t].pc = "append" /\ GateFits(t)
  BY DEF IInv, GateIsHeld, AppendEvent
<1>4. /\ ~tool[t].fetch /\ tool[t].response # 0 /\ operations[RequestOf(t)] = tool[t].response
      /\ tool[t].index = Len(events) /\ Affordable(tool[t].rep)
  BY <1>3 DEF GateFits
<1>5. EventOf(t) \in Event
  BY <1>1, <1>2 DEF EventOf, Event
<1>6. /\ events' = Append(events, EventOf(t)) /\ tool'[t] = NoCall
  BY <1>1 DEF AppendEvent, EventOf, Return
<1>7. /\ EventOf(t).index = tool[t].index /\ EventOf(t).rep = tool[t].rep /\ EventOf(t).accepted
      /\ EventOf(t).response = tool[t].response /\ EventOf(t).figures = NoSummary
  BY DEF EventOf
<1>8. AccessOf(EventOf(t)) = RequestOf(t)
  BY <1>7 DEF AccessOf, RequestOf
<1> QED
  BY <1>1, <1>3, <1>4, <1>5, <1>6, <1>7, <1>8

LEMMA OpenBound ==
    ASSUME IInv
    PROVE  /\ Open(FALSE) \in Nat /\ Len(events) \in Nat /\ Len(events) + Open(FALSE) <= MaxEvents
           /\ \A t \in Tools : t \in Accessing => Len(events) < MaxEvents
<1> DEFINE o == Open(FALSE)
<1>1. o \in Nat /\ Len(events) \in Nat /\ MaxEvents \in Nat
  BY AccessingSize, SessionTypes DEF IInv
<1>2. Len(events) + o <= MaxEvents
  BY DEF IInv, GateIsHeld
<1>3. \A t \in Tools : t \in Accessing => o >= 1
  BY OpenSize DEF Accessing, FreeTools
<1> HIDE DEF o
<1>4. \A t \in Tools : t \in Accessing => Len(events) < MaxEvents
  BY <1>1, <1>2, <1>3
<1> QED
  BY <1>1, <1>2, <1>4 DEF o

\* The new bound from what is appended and who stops.
LEMMA BoundStep ==
    ASSUME IInv, NEW t \in Tools, \A s \in Tools \ {t} : tool'[s] = tool[s],
           \/ Len(events') = Len(events) /\ (t \in Accessing' => t \in Accessing)
           \/ Len(events') = Len(events) + 1 /\ t \in Accessing /\ t \notin Accessing'
           \/ Len(events') = Len(events) /\ Len(events) + Open(FALSE) < MaxEvents
    PROVE  Len(events') + Open(FALSE)' <= MaxEvents
<1> DEFINE o == Open(FALSE)
           p == Open(FALSE)'
           n == Len(events)
           m == Len(events')
<1>1. o \in Nat /\ n \in Nat /\ n + o <= MaxEvents /\ MaxEvents \in Nat
  BY OpenBound, SessionTypes DEF IInv
<1>2. /\ (t \in Accessing <=> t \in Accessing') => p = o
      /\ t \notin Accessing /\ t \in Accessing' => p = o + 1
      /\ t \in Accessing /\ t \notin Accessing' => p = o - 1
  BY OpenMoves
<1>3. \/ m = n /\ (t \in Accessing' => t \in Accessing)
      \/ m = n + 1 /\ t \in Accessing /\ t \notin Accessing'
      \/ m = n /\ n + o < MaxEvents
  OBVIOUS
<1> HIDE DEF o, p, n, m
<1>4. m + p <= MaxEvents
  BY <1>1, <1>2, <1>3
<1> QED
  BY <1>4 DEF m, p

\* A tool call keeps the gate.
LEMMA ToolGate ==
    ASSUME IInv, Next, NEW t \in Tools, ToolStep(t) \/ ToolFault(t)
    PROVE  GateTypeOK' /\ GateIsHeld'
<1>0. TypeOK /\ events \in Seq(Event) /\ Len(events) \in Nat /\ Len(events) <= MaxEvents /\ MaxEvents \in Nat
      /\ tool[t].fetch \in BOOLEAN
  BY SessionTypes, CallType DEF IInv
<1>1. /\ tool' \in [Tools -> Calling] /\ \A s \in Tools \ {t} : tool'[s] = tool[s]
      /\ gateLock \in {None, t} /\ gateLock' \in {None, t}
      /\ events' = events \/ RejectAccess(t) \/ AppendEvent(t)
  BY ToolMoves
<1>2. \A s \in Tools \ {t} : tool[s].pc \in {"idle", "lock"}
  <2> SUFFICES ASSUME NEW s \in Tools, s # t, tool[s].pc \notin {"idle", "lock"} PROVE FALSE
    OBVIOUS
  <2>1. gateLock = s
    BY DEF IInv, GateIsHeld, GateFits
  <2> QED
    BY <1>1, <2>1, Named
<1>3. CASE RejectAccess(t) \/ AppendEvent(t)
  <2>1. PICK e \in Event : events' = Append(events, e)
    BY <1>3, RejectedIs, AppendedIs
  <2>2. /\ ~tool[t].fetch /\ tool[t].pc # "idle" /\ tool'[t].pc = "idle"
    BY <1>3, RejectedIs, AppendedIs, NoCallType
  <2>3. t \in Accessing /\ t \notin Accessing'
    BY <1>0, <2>2 DEF Accessing, FreeTools
  <2>4. /\ events' \in Seq(Event) /\ Len(events') = Len(events) + 1 /\ Len(events') <= MaxEvents
    BY <1>0, <2>1, <2>3, AppendEvents, OpenBound
  <2>5. Len(events') + Open(FALSE)' <= MaxEvents
    BY <1>1, <2>3, <2>4, BoundStep
  <2>a. Len(events') \in Nat /\ Len(events) <= Len(events')
    BY <1>0, <2>4
  <2>b. GateFits(t)'
    BY FitsMoving
  <2>c. \A s \in Tools \ {t} : GateFits(s)'
    BY <1>1, <1>2, <2>a, FitsWaiting
  <2>d. \A s \in Tools : GateFits(s)'
    BY <2>b, <2>c
  <2>e. GateTypeOK'
    BY <1>0, <1>1, <2>4 DEF GateTypeOK
  <2> QED
    BY <2>d, <2>e, <2>5 DEF GateIsHeld
<1>4. CASE ~RejectAccess(t) /\ ~AppendEvent(t)
  <2>1. events' = events
    BY <1>1, <1>4
  <2>2. t \in Accessing' => t \in Accessing
    <3>1. tool'[t] = NoCall \/ (tool'[t].fetch = tool[t].fetch /\ tool[t].pc # "idle")
      BY ToolMoves
    <3> QED
      BY <3>1, NoCallType DEF Accessing, FreeTools
  <2>3. Len(events') + Open(FALSE)' <= MaxEvents
    BY <1>1, <2>1, <2>2, BoundStep
  <2>a. Len(events') \in Nat /\ Len(events) <= Len(events')
    BY <1>0, <2>1
  <2>b. GateFits(t)'
    BY FitsMoving
  <2>c. \A s \in Tools \ {t} : GateFits(s)'
    BY <1>1, <1>2, <2>a, FitsWaiting
  <2>d. \A s \in Tools : GateFits(s)'
    BY <2>b, <2>c
  <2>e. GateTypeOK'
    BY <1>0, <1>1, <2>1 DEF GateTypeOK
  <2> QED
    BY <2>d, <2>e, <2>3 DEF GateIsHeld
<1> QED
  BY <1>3, <1>4

\* So does a new call.
LEMMA CallGate ==
    ASSUME IInv, Next, NEW call \in Calling, AgentCalls(call), call.pc = "lock",
           call.fetch => call.index < Len(events),
           ~call.fetch => Len(events) + Open(FALSE) < MaxEvents
    PROVE  GateTypeOK' /\ GateIsHeld'
<1>0. /\ TypeOK /\ tool \in [Tools -> Calling]
      /\ events \in Seq(Event) /\ Len(events) \in Nat /\ Len(events) <= MaxEvents
      /\ gateLock \in Tools \cup {None}
  <2>1. tool \in [Tools -> Calling]
    BY SessionTypes DEF IInv, Calling
  <2> QED
    BY <2>1, SessionTypes DEF IInv
<1>1. PICK t \in Tools : tool[t].pc = "idle" /\ tool' = [tool EXCEPT ![t] = call]
  BY DEF AgentCalls, FreeTools
<1>2. UNCHANGED <<events, gateLock>>
  BY DEF AgentCalls
<1>3. tool'[t] = call /\ tool' \in [Tools -> Calling] /\ \A s \in Tools \ {t} : tool'[s] = tool[s]
  BY <1>0, <1>1
<1>4. Alike
  BY <1>0, <1>2, SameIsAlike
<1>5. GateFits(t)'
  BY <1>2, <1>3 DEF GateFits
<1>6. Len(events') + Open(FALSE)' <= MaxEvents
  <2>1. t \in Accessing' => ~call.fetch
    BY <1>3 DEF Accessing, FreeTools
  <2> QED
    BY <1>2, <1>3, <2>1, BoundStep
<1>7. \A s \in Tools \ {t} : GateFits(s)'
  BY <1>2, <1>3, <1>4, FitsStill
<1>8. \A s \in Tools : GateFits(s)'
  BY <1>5, <1>7
<1> QED
  BY <1>0, <1>2, <1>3, <1>6, <1>8 DEF GateTypeOK, GateIsHeld

\* So does everybody else.
LEMMA GateStep ==
    ASSUME IInv, Next
    PROVE  GateTypeOK' /\ GateIsHeld'
<1>0. /\ TypeOK /\ tool \in [Tools -> Calling]
      /\ events \in Seq(Event) /\ Len(events) \in Nat /\ Len(events) <= MaxEvents
      /\ gateLock \in Tools \cup {None} /\ MaxEvents \in Nat
  <2>1. tool \in [Tools -> Calling]
    BY SessionTypes DEF IInv, Calling
  <2> QED
    BY <2>1, SessionTypes DEF IInv
<1>1. CASE \E rep \in Reps : AgentAccess(rep)
  <2>1. PICK rep \in Reps : AgentAccess(rep)
    BY <1>1
  <2> DEFINE call == [NoCall EXCEPT !.pc = "lock", !.rep = rep]
  <2>2. call \in Calling /\ call.pc = "lock" /\ ~call.fetch
    BY NoCallType DEF Calling
  <2>3. AgentCalls(call) /\ Len(events) + Open(FALSE) < MaxEvents
    BY <2>1 DEF AgentAccess
  <2> HIDE DEF call
  <2> QED
    BY <2>2, <2>3, CallGate
<1>2. CASE \E i \in Accepted : AgentFetch(i)
  <2>1. PICK i \in Accepted : AgentFetch(i)
    BY <1>2
  <2>2. i \in 1 .. Len(events)
    BY DEF Accepted
  <2>3. events[i] \in Event /\ events[i].index = i - 1
    BY <1>0, <2>2, ElementOf DEF IInv, EventsAreOrdered
  <2> DEFINE call == [NoCall EXCEPT !.pc = "lock", !.fetch = TRUE, !.rep = events[i].rep,
                                    !.index = events[i].index]
  <2>4. call \in Calling /\ call.pc = "lock" /\ call.fetch /\ call.index = events[i].index
    BY <2>3, NoCallType DEF Calling, Event
  <2>5. AgentCalls(call)
    BY <2>1 DEF AgentFetch
  <2> HIDE DEF call
  <2>6. call.index < Len(events)
    BY <1>0, <2>2, <2>3, <2>4
  <2> QED
    BY <2>4, <2>5, <2>6, CallGate
<1>3. CASE \E t \in Tools : ToolStep(t) \/ ToolFault(t)
  BY <1>3, ToolGate
<1>4. CASE GatewayDies
  <2>1. tool' = [t \in Tools |-> NoCall] /\ gateLock' = None /\ events' = events
    BY <1>4 DEF GatewayDies
  <2>2. \A t \in Tools : GateFits(t)'
    BY <2>1, FitsNoCall
  <2>3. Accessing' = {}
    BY <2>1, NoCallType DEF Accessing, FreeTools
  <2>4. Open(FALSE)' = 0
    BY <2>3, FS_EmptySet DEF Open, Accessing
  <2>5. tool' \in [Tools -> Calling]
    BY <2>1, NoCallType
  <2> DEFINE p == Open(FALSE)'
  <2>6. Len(events') + p <= MaxEvents
    <3>1. p = 0
      BY <2>4
    <3> HIDE DEF p
    <3> QED
      BY <1>0, <2>1, <3>1
  <2> QED
    BY <1>0, <2>1, <2>2, <2>5, <2>6 DEF GateTypeOK, GateIsHeld
<1>5. CASE Alike /\ UNCHANGED <<gateLock, tool>>
  <2>1. \A t \in Tools : GateFits(t)'
    BY <1>5, FitsStill
  <2>2. Accessing' = Accessing
    BY <1>5 DEF Accessing, FreeTools
  <2>3. Open(FALSE)' = Open(FALSE)
    BY <2>2 DEF Open, Accessing
  <2>4. /\ Len(events) + Open(FALSE) <= MaxEvents /\ Len(events') = Len(events)
        /\ events' \in Seq(Event)
    BY <1>5, OpenBound DEF Alike
  <2>5. Len(events') + Open(FALSE)' <= MaxEvents
    BY <2>3, <2>4
  <2> QED
    BY <1>0, <1>5, <2>1, <2>4, <2>5 DEF GateTypeOK, GateIsHeld
<1>6. CASE UpdateTelemetry
  BY <1>5, <1>6, UpdateIsAlike DEF UpdateTelemetry
<1>7. CASE UNCHANGED <<events, gateLock, tool>>
  BY <1>0, <1>5, <1>7, SameIsAlike
<1> QED
  BY <1>1, <1>2, <1>3, <1>4, <1>6, <1>7, GateGroups
-----------------------------------------------------------------------------
(* The calls to the Data Agent.                                            *)

Labels == {"reference", "begin", "before"}

\* Who changes the links and the handlers.
LEMMA LinkGroups ==
    ASSUME IInv, Next
    PROVE  \/ UNCHANGED <<link, thread, attempt>>
           \/ \E t \in Tools : SendAccess(t) \/ SendDownload(t)
           \/ SendTelemetry
           \/ \E c \in Callers : Gone(c) /\ (attempt' = [attempt EXCEPT ![c] = 0] \/ Retry(c))
           \/ \E h \in Handlers : (ServerStep(h) \/ ServerFault(h)) /\ UNCHANGED <<link, attempt>>
           \/ DataAgentDies
<1>1. ASSUME NEW t \in Tools, ToolStep(t) \/ ToolFault(t),
             ~SendAccess(t), ~SendDownload(t)
      PROVE  \/ UNCHANGED <<link, thread, attempt>>
             \/ Gone(t) /\ (attempt' = [attempt EXCEPT ![t] = 0] \/ Retry(t))
  <2>1. CASE AccessAnswered(t) \/ AccessLost(t) \/ BodyReceived(t) \/ DownloadLost(t) \/ ConnectionBroken(t)
    BY <2>1 DEF AccessAnswered, AccessLost, BodyReceived, DownloadLost, ConnectionBroken,
        HangUp, GiveUp, Break
  <2>2. CASE AccessRetried(t)
    BY <2>2 DEF AccessRetried, Retry
  <2>3. CASE AdmitAccess(t) \/ RejectAccess(t) \/ AdmitFetch(t) \/ RejectFetch(t) \/ AppendEvent(t)
             \/ StoreFails(t)
    BY <2>3 DEF AdmitAccess, RejectAccess, AdmitFetch, RejectFetch, AppendEvent, StoreFails, serverVars, clientVars
  <2> QED
    BY <1>1, <2>1, <2>2, <2>3 DEF ToolStep, ToolFault
<1>2. CASE \E t \in Tools : ToolStep(t) \/ ToolFault(t)
  BY <1>1, <1>2, SessionTypes DEF IInv
<1>3. CASE (\E rep \in Reps : AgentAccess(rep)) \/ (\E i \in Accepted : AgentFetch(i))
  BY <1>3 DEF AgentAccess, AgentFetch, AgentCalls, serverVars, clientVars
<1>4. CASE MeshDone \/ MeshFails \/ Over
  BY <1>4 DEF MeshDone, MeshFails, MeshEnds, Over, vars, serverVars, clientVars
<1>5. CASE \E h \in Handlers : HandlerStep(h) \/ HandlerFault(h)
  BY <1>5 DEF HandlerStep, HandlerFault, clientVars
<1>6. CASE RunnerStep \/ QuiescenceDeadline \/ RunnerFault
  <2>1. CASE SendTelemetry
    BY <2>1
  <2>2. CASE TelemetryAnswered \/ TelemetryRetried \/ TelemetryLost \/ TelemetryBroken \/ RunnerDies
    <3>1. Gone(Runner) /\ (attempt' = [attempt EXCEPT ![Runner] = 0] \/ Retry(Runner))
      BY <2>2 DEF TelemetryAnswered, TelemetryRetried, TelemetryLost, TelemetryBroken, RunnerDies,
          HangUp, Retry, GiveUp, Break
    <3> QED
      BY <3>1, SessionTypes DEF IInv
  <2>3. CASE ~SendTelemetry /\ ~TelemetryAnswered /\ ~TelemetryRetried /\ ~TelemetryLost
             /\ ~TelemetryBroken /\ ~RunnerDies
    <3>1. UNCHANGED <<serverVars, clientVars>>
      BY <1>6, <2>3 DEF RunnerStep, RunnerFault, QuiescenceDeadline, RunnerUnchanged,
          Recover, RegisterSession, Submit, BindFlowmesh, WorkflowEnded, SkipRefused, Poll,
          StartWriting, UpdateTelemetry, FinishDone, FinishFailed, Record,
          PinningFails, SubmitFails, RetrieveFails, UpdateFails,
          BindFails, FinishDoneFails, FinishFails, RecoverFails
    <3> QED
      BY <3>1 DEF serverVars, clientVars
  <2> QED
    BY <2>1, <2>2, <2>3
<1>7. CASE GatewayDies
  <2>1. CASE gateLock = None
    BY <1>7, <2>1 DEF GatewayDies, serverVars, clientVars
  <2>2. CASE gateLock # None
    <3>1. gateLock \in Callers
      BY <2>2, SessionTypes DEF IInv
    <3> QED
      BY <1>7, <2>2, <3>1 DEF GatewayDies, HangUp
  <2> QED
    BY <2>1, <2>2
<1> QED
  BY <1>2, <1>3, <1>4, <1>5, <1>6, <1>7 DEF Next

LinkTypeOK ==
    /\ link \in [Callers -> Handlers \cup {None, Broken}]
    /\ attempt \in [Callers -> 0 .. MaxRetries]

LEMMA LinkTypeStep ==
    ASSUME IInv, Next
    PROVE  LinkTypeOK'
<1>0. LinkTypeOK /\ MaxRetries \in Nat
  BY SessionTypes DEF IInv, LinkTypeOK
<1>1. ASSUME NEW c \in Callers, NEW label, NEW a, Send(c, label, a), attempt' = attempt
      PROVE  LinkTypeOK'
  <2>1. FreeHandler \in Handlers
    BY <1>1 DEF Send, FreeHandler
  <2> QED
    BY <1>0, <1>1, <2>1 DEF Send, LinkTypeOK
<1>2. ASSUME NEW c \in Callers, Gone(c), attempt' = [attempt EXCEPT ![c] = 0] \/ Retry(c)
      PROVE  LinkTypeOK'
  <2>1. link' \in [Callers -> Handlers \cup {None, Broken}]
    BY <1>0, <1>2 DEF Gone, LinkTypeOK
  <2>2. attempt' \in [Callers -> 0 .. MaxRetries]
    <3>1. CASE attempt' = [attempt EXCEPT ![c] = 0]
      BY <1>0, <3>1 DEF LinkTypeOK
    <3>2. CASE Retry(c)
      <4>1. attempt' = [attempt EXCEPT ![c] = attempt[c] + 1] /\ attempt[c] < MaxRetries
        BY <3>2 DEF Retry, MayRetry
      <4>2. attempt[c] \in 0 .. MaxRetries
        BY <1>0 DEF LinkTypeOK
      <4>3. attempt[c] + 1 \in 0 .. MaxRetries
        BY <1>0, <4>1, <4>2
      <4> QED
        BY <1>0, <4>1, <4>3 DEF LinkTypeOK
    <3> QED
      BY <1>2, <3>1, <3>2
  <2> QED
    BY <2>1, <2>2 DEF LinkTypeOK
<1>3. CASE DataAgentDies
  BY <1>0, <1>3 DEF DataAgentDies, LinkTypeOK
<1>4. CASE UNCHANGED <<link, attempt>>
  BY <1>0, <1>4 DEF LinkTypeOK
<1>5. CASE \E t \in Tools : SendAccess(t) \/ SendDownload(t)
  BY <1>1, <1>5, SessionTypes DEF SendAccess, SendDownload, IInv
<1>6. CASE SendTelemetry
  BY <1>1, <1>6, SessionTypes DEF SendTelemetry, IInv
<1> QED
  BY <1>2, <1>3, <1>4, <1>5, <1>6, LinkGroups

\* A caller with a call is not the one a tool's or the pilot's step is about,
\* unless the call ends.
LEMMA AskKept ==
    ASSUME IInv, Next, NEW c \in Callers, link[c] # None, link'[c] # None
    PROVE  /\ Asks(c)' = Asks(c)
           /\ c \in Tools => tool'[c].pc \in {"await", "receive"}
           /\ c = Runner => RunnerAt("await")'
<1>0. /\ link \in [Callers -> Handlers \cup {None, Broken}]
      /\ c \in Tools => tool[c].pc \in {"await", "receive"}
      /\ c = Runner => RunnerAt("await")
      /\ c \in Tools <=> c # Runner
  BY SessionTypes, Named DEF IInv, LinksAreServed, Callers
<1>g. ~Gone(c)
  BY <1>0 DEF Gone
<1>1. ASSUME c \in Tools, tool'[c] = tool[c] PROVE Asks(c)' = Asks(c) /\ tool'[c].pc \in {"await", "receive"}
  BY <1>0, <1>1 DEF Asks, RequestOf
<1>2. ASSUME c = Runner, runner' = runner, events'[runner.next] = events[runner.next]
      PROVE  Asks(c)' = Asks(c) /\ RunnerAt("await")'
  BY <1>0, <1>2 DEF Asks, AccessOf, RunnerAt
<1>n. c = Runner => runner.next \in 1 .. Len(events)
  <2> SUFFICES ASSUME c = Runner PROVE runner.next \in 1 .. Len(events)
    OBVIOUS
  <2>1. /\ Len(events) \in Nat /\ runner.next \in Nat \ {0} /\ runner.upto \in Nat
        /\ runner.upto <= Len(events) /\ runner.next <= runner.upto
    BY <1>0, SessionTypes DEF IInv, RunnerTypeOK, CollectedCounts, PendingCounts, AwaitsAccepted, Reconciling, RunnerAt
  <2> QED
    BY <2>1
<1>3. CASE (\E rep \in Reps : AgentAccess(rep)) \/ (\E i \in Accepted : AgentFetch(i))
  <2>1. PICK call : AgentCalls(call)
    BY <1>3 DEF AgentAccess, AgentFetch
  <2>2. UNCHANGED <<events, runner>>
    BY <2>1 DEF AgentCalls, runnerVars
  <2>3. c \in Tools => tool'[c] = tool[c]
    <3> SUFFICES ASSUME c \in Tools PROVE tool'[c] = tool[c]
      OBVIOUS
    <3>1. PICK t \in Tools : tool[t].pc = "idle" /\ tool' = [tool EXCEPT ![t] = call]
      BY <2>1 DEF AgentCalls, FreeTools
    <3>2. c # t /\ tool \in [Tools -> Calling]
      BY <1>0, <3>1, CallType DEF IInv
    <3> QED
      BY <3>1, <3>2
  <2> QED
    BY <1>0, <1>1, <1>2, <2>2, <2>3
<1>4. ASSUME NEW t \in Tools, ToolStep(t) \/ ToolFault(t)
      PROVE  /\ Asks(c)' = Asks(c)
             /\ c \in Tools => tool'[c].pc \in {"await", "receive"}
             /\ c = Runner => RunnerAt("await")'
  <2>1. /\ \A s \in Tools \ {t} : tool'[s] = tool[s]
        /\ events' = events \/ RejectAccess(t) \/ AppendEvent(t)
        /\ runner' = runner
    BY <1>4, ToolMoves
  <2>2. c # t
    <3> SUFFICES ASSUME c = t PROVE FALSE
      OBVIOUS
    <3>1. tool[t].pc \in {"await", "receive"}
      BY <1>0
    <3>2. ~AdmitAccess(t) /\ ~RejectAccess(t) /\ ~AdmitFetch(t) /\ ~RejectFetch(t)
          /\ ~SendAccess(t) /\ ~AppendEvent(t) /\ ~SendDownload(t) /\ ~StoreFails(t)
      BY <3>1 DEF AdmitAccess, RejectAccess, AdmitFetch, RejectFetch, Enter, SendAccess,
          AppendEvent, SendDownload, StoreFails
    <3>3. Gone(t)
      BY <1>4, <3>2 DEF ToolStep, ToolFault, AccessAnswered, AccessRetried, AccessLost, BodyReceived,
          DownloadLost, ConnectionBroken, HangUp, Retry, GiveUp, Break
    <3> QED
      BY <1>g, <3>3
  <2>3. CASE c \in Tools
    BY <1>0, <1>1, <2>1, <2>2, <2>3
  <2>4. CASE c = Runner
    <3>1. events'[runner.next] = events[runner.next]
      <4>1. CASE events' = events
        BY <4>1
      <4>2. CASE RejectAccess(t) \/ AppendEvent(t)
        <5>1. PICK e \in Event : events' = Append(events, e)
          BY <4>2, RejectedIs, AppendedIs
        <5>2. events \in Seq(Event)
          BY SessionTypes DEF IInv
        <5> QED
          BY <1>n, <2>4, <5>1, <5>2
      <4> QED
        BY <2>1, <4>1, <4>2
    <3> QED
      BY <1>0, <1>2, <2>1, <2>4, <3>1
  <2> QED
    BY <1>0, <2>3, <2>4
<1>5. CASE UNCHANGED <<tool, events, runner>>
  BY <1>0, <1>1, <1>2, <1>5
<1>6. CASE MeshDone \/ MeshFails \/ Over \/ DataAgentDies \/ \E h \in Handlers : HandlerStep(h) \/ HandlerFault(h)
  BY <1>5, <1>6 DEF MeshDone, MeshFails, MeshEnds, Over, vars, DataAgentDies, HandlerStep, HandlerFault,
      gatewayVars, runnerVars
<1>7. CASE RunnerStep \/ QuiescenceDeadline \/ RunnerFault
  <2>1. CASE c = Runner
    <3>1. RunnerAt("await")
      BY <1>0, <2>1
    <3>2. CASE TelemetryAnswered \/ TelemetryRetried \/ TelemetryLost \/ TelemetryBroken \/ RunnerDies
      <4>1. Gone(Runner)
        BY <3>2 DEF TelemetryAnswered, TelemetryRetried, TelemetryLost, TelemetryBroken, RunnerDies,
            HangUp, Retry, GiveUp, Break
      <4> QED
        BY <1>g, <2>1, <4>1
    <3>3. CASE ~TelemetryAnswered /\ ~TelemetryRetried /\ ~TelemetryLost /\ ~TelemetryBroken /\ ~RunnerDies
      BY <1>7, <3>1, <3>3 DEF RunnerStep, RunnerFault, QuiescenceDeadline, RunnerAt,
          Recover, RegisterSession, Submit, BindFlowmesh, WorkflowEnded, SkipRefused, Poll,
          StartWriting, UpdateTelemetry, FinishDone, FinishFailed, Record, SendTelemetry,
          PinningFails, SubmitFails, RetrieveFails, UpdateFails,
          BindFails, FinishDoneFails, FinishFails, RecoverFails
    <3> QED
      BY <3>2, <3>3
  <2>2. CASE c \in Tools
    <3>1. UNCHANGED tool
      <4>1. CASE UpdateTelemetry
        BY <4>1 DEF UpdateTelemetry
      <4>2. CASE SendTelemetry \/ TelemetryAnswered \/ TelemetryRetried \/ TelemetryLost
                 \/ TelemetryBroken \/ RunnerDies
        BY <4>2 DEF SendTelemetry, TelemetryAnswered, TelemetryRetried, TelemetryLost,
            TelemetryBroken, RunnerDies, gatewayVars
      <4>3. CASE Recover \/ RegisterSession \/ Submit \/ BindFlowmesh \/ WorkflowEnded \/ SkipRefused \/ Poll
                 \/ StartWriting \/ FinishDone \/ FinishFailed \/ Record \/ QuiescenceDeadline
                 \/ PinningFails \/ SubmitFails \/ RetrieveFails \/ UpdateFails
                 \/ BindFails \/ FinishDoneFails \/ FinishFails \/ RecoverFails
        BY <4>3 DEF Recover, RegisterSession, Submit, BindFlowmesh, WorkflowEnded, SkipRefused, Poll,
            StartWriting, FinishDone, FinishFailed, Record, QuiescenceDeadline,
            PinningFails, SubmitFails, RetrieveFails, UpdateFails,
            BindFails, FinishDoneFails, FinishFails, RecoverFails, RunnerUnchanged
      <4> QED
        BY <1>7, <4>1, <4>2, <4>3 DEF RunnerStep, RunnerFault
    <3> QED
      BY <1>0, <1>1, <2>2, <3>1
  <2> QED
    BY <1>0, <2>1, <2>2
<1>8. CASE GatewayDies
  <2>1. CASE c \in Tools
    <3>1. gateLock = c
      BY <1>0, <2>1 DEF IInv, GateIsHeld, GateFits
    <3>2. Gone(c)
      BY <1>8, <2>1, <3>1, Named DEF GatewayDies, HangUp
    <3> QED
      BY <1>g, <3>2
  <2>2. CASE c = Runner
    BY <1>0, <1>2, <1>8, <2>2 DEF GatewayDies, runnerVars
  <2> QED
    BY <1>0, <2>1, <2>2
<1>9. CASE \E t \in Tools : ToolStep(t) \/ ToolFault(t)
  BY <1>4, <1>9
<1> QED
  BY <1>3, <1>6, <1>7, <1>8, <1>9 DEF Next

\* The calls of everybody but a caller, when their handlers go on with them.
LEMMA ServedStill ==
    ASSUME IInv, Next, NEW c \in Callers, link'[c] = link[c],
           link[c] \in Handlers =>
               thread'[link[c]].open /\ thread'[link[c]].pc # "idle"
               /\ thread'[link[c]].access = thread[link[c]].access
    PROVE  IsServed(c)'
<1> SUFFICES ASSUME link[c] \in Handlers
             PROVE  /\ thread'[link[c]].pc # "idle" /\ thread'[link[c]].open
                    /\ thread'[link[c]].access = Asks(c)'
  BY DEF IsServed, At
<1>1. Asks(c)' = Asks(c)
  BY AskKept, Named
<1>2. thread[link[c]].access = Asks(c)
  BY DEF IInv, LinksAreServed, IsServed
<1> QED
  BY <1>1, <1>2

LEMMA SentStep ==
    ASSUME IInv, Next, NEW c \in Callers, NEW label \in Labels, NEW a \in Accesses,
           Send(c, label, a), Asks(c)' = a,
           c \in Tools => tool'[c].pc \in {"await", "receive"},
           c = Runner => RunnerAt("await")'
    PROVE  LinksAreServed'
<1>0. /\ link \in [Callers -> Handlers \cup {None, Broken}] /\ Tools \subseteq Callers /\ Runner \in Callers
      /\ thread \in [Handlers -> Handling] /\ LinksAreServed
  BY SessionTypes, ThreadType DEF IInv, ServerInv
<1>1. PICK h \in Handlers : h = FreeHandler /\ thread[h].pc = "idle"
  BY SendIsReceive DEF Labels, At
<1>2. /\ link' = [link EXCEPT ![c] = h] /\ link[c] = None
      /\ thread' = [thread EXCEPT ![h] = [Idle EXCEPT !.pc = label, !.open = TRUE, !.access = a]]
  BY <1>1 DEF Send, Receive
<1>3. /\ thread'[h].pc # "idle" /\ thread'[h].open /\ thread'[h].access = a
      /\ \A g \in Handlers \ {h} : thread'[g] = thread[g]
  <2>1. /\ thread'[h] = [Idle EXCEPT !.pc = label, !.open = TRUE, !.access = a]
        /\ \A g \in Handlers \ {h} : thread'[g] = thread[g]
    BY <1>0, <1>2
  <2> QED
    BY <2>1, IdleType DEF Labels, Handling
<1>4. link'[c] = h /\ \A b \in Callers \ {c} : link'[b] = link[b]
  BY <1>0, <1>2
<1>5. \A b \in Callers : link[b] \in Handlers => link[b] # h
  BY <1>0, <1>1 DEF LinksAreServed, IsServed, At
<1>6. \A b \in Callers \ {c} : IsServed(b)'
  <2> SUFFICES ASSUME NEW b \in Callers \ {c} PROVE IsServed(b)'
    OBVIOUS
  <2>1. /\ link'[b] = link[b]
        /\ link[b] \in Handlers => thread'[link[b]] = thread[link[b]]
    BY <1>3, <1>4, <1>5
  <2>2. link[b] \in Handlers => thread[link[b]].open /\ thread[link[b]].pc # "idle"
    BY <1>0 DEF LinksAreServed, IsServed, At
  <2> QED
    BY <2>1, <2>2, ServedStill
<1>7. IsServed(c)'
  BY <1>3, <1>4 DEF IsServed, At
<1>8. \A b, d \in Callers : link'[b] \in Handlers /\ link'[b] = link'[d] => b = d
  BY <1>0, <1>4, <1>5 DEF LinksAreServed
<1>9. /\ \A t \in Tools : link'[t] # None => tool'[t].pc \in {"await", "receive"}
      /\ link'[Runner] # None => RunnerAt("await")'
  BY <1>0, <1>4, AskKept
<1> QED
  BY <1>6, <1>7, <1>8, <1>9 DEF LinksAreServed

\* The links that remain are links of before, and their handlers go on.
LEMMA RemainStep ==
    ASSUME IInv, Next,
           \A c \in Callers : link'[c] \in Handlers =>
              /\ link'[c] = link[c]
              /\ thread'[link[c]].open /\ thread'[link[c]].pc # "idle"
              /\ thread'[link[c]].access = thread[link[c]].access,
           \A c \in Callers : link'[c] # None => link[c] # None
    PROVE  LinksAreServed'
<1>0. /\ Tools \subseteq Callers /\ Runner \in Callers /\ LinksAreServed
  BY SessionTypes DEF IInv
<1>1. \A c \in Callers : IsServed(c)'
  <2> SUFFICES ASSUME NEW c \in Callers, link'[c] \in Handlers PROVE IsServed(c)'
    BY DEF IsServed
  <2> QED
    BY ServedStill
<1>2. \A b, d \in Callers : link'[b] \in Handlers /\ link'[b] = link'[d] => b = d
  BY <1>0 DEF LinksAreServed
<1>3. /\ \A t \in Tools : link'[t] # None => tool'[t].pc \in {"await", "receive"}
      /\ link'[Runner] # None => RunnerAt("await")'
  BY <1>0, AskKept
<1> QED
  BY <1>1, <1>2, <1>3 DEF LinksAreServed

LEMMA SendAccessIs ==
    ASSUME IInv, NEW t \in Tools, SendAccess(t) \/ SendDownload(t)
    PROVE  /\ RequestOf(t) \in Accesses /\ t \in Callers /\ RequestOf(t)' = RequestOf(t)
           /\ Asks(t)' = RequestOf(t) /\ tool'[t].pc \in {"await", "receive"}
           /\ \/ SendAccess(t) /\ Send(t, "reference", RequestOf(t))
              \/ SendDownload(t) /\ Send(t, "begin", RequestOf(t))
<1>0. tool \in [Tools -> Calling] /\ tool[t] \in Calling /\ t \in Callers
  BY CallType DEF IInv
<1>1. /\ tool'[t].pc \in {"await", "receive"}
      /\ tool'[t].index = tool[t].index /\ tool'[t].rep = tool[t].rep
  BY <1>0 DEF SendAccess, SendDownload, Calling
<1>2. RequestOf(t)' = RequestOf(t)
  BY <1>1 DEF RequestOf
<1>3. Asks(t)' = RequestOf(t)
  BY <1>2, Named DEF Asks
<1>4. RequestOf(t) \in Accesses
  BY IndexBound, RequestInAccesses DEF SendAccess, SendDownload
<1> QED
  BY <1>0, <1>1, <1>2, <1>3, <1>4 DEF SendAccess, SendDownload

LEMMA SendTelemetryIs ==
    ASSUME IInv, SendTelemetry
    PROVE  /\ runner.next \in 1 .. Len(events) /\ runner.next \in Accepted
           /\ Asks(Runner) \in Accesses /\ Asks(Runner)' = Asks(Runner) /\ Runner \in Callers
           /\ Send(Runner, "before", Asks(Runner)) /\ RunnerAt("await")'
<1>1. /\ Len(events) \in Nat /\ runner.next \in Nat \ {0} /\ runner.upto \in Nat
      /\ runner.upto <= Len(events) /\ Runner \in Callers
  BY SessionTypes DEF IInv, RunnerTypeOK, CollectedCounts, PendingCounts, AwaitsAccepted, Reconciling, SendTelemetry, RunnerAt
<1>2. runner.next \in 1 .. Len(events)
  BY <1>1 DEF SendTelemetry, Collected
<1>3. Asks(Runner) = AccessOf(events[runner.next])
  BY DEF Asks
<1>4. /\ runner'.pc = "await" /\ runner'.next = runner.next /\ events' = events
  BY DEF SendTelemetry, RunnerGoto, RunnerTypeOK, IInv, gatewayVars
<1>5. Asks(Runner)' = Asks(Runner)
  BY <1>4 DEF Asks, AccessOf
<1> QED
  BY <1>1, <1>2, <1>3, <1>4, <1>5, AccessInAccesses DEF SendTelemetry, Accepted, RunnerAt

LEMMA LinkStep ==
    ASSUME IInv, Next
    PROVE  LinksAreServed'
<1>0. /\ link \in [Callers -> Handlers \cup {None, Broken}] /\ Tools \subseteq Callers /\ Runner \in Callers
      /\ thread \in [Handlers -> Handling] /\ LinksAreServed /\ ServerTypeOK
  BY SessionTypes, ThreadType DEF IInv, ServerInv
<1>s. \A c \in Callers : link[c] \in Handlers => thread[link[c]].open /\ thread[link[c]].pc # "idle"
  BY <1>0 DEF LinksAreServed, IsServed, At
<1>1. CASE UNCHANGED <<link, thread, attempt>>
  BY <1>1, <1>s, RemainStep
<1>2. CASE \E t \in Tools : SendAccess(t) \/ SendDownload(t)
  <2>1. PICK t \in Tools : SendAccess(t) \/ SendDownload(t)
    BY <1>2
  <2> QED
    BY <2>1, SendAccessIs, SentStep, Named DEF Labels
<1>3. CASE SendTelemetry
  BY <1>3, SendTelemetryIs, SentStep, Named DEF Labels
<1>4. ASSUME NEW c \in Callers, Gone(c) PROVE LinksAreServed'
  <2>1. link'[c] = None /\ \A b \in Callers \ {c} : link'[b] = link[b]
    BY <1>0, <1>4 DEF Gone
  <2>2. \A b \in Callers \ {c} : link[b] \in Handlers => thread'[link[b]] = thread[link[b]]
    BY <1>0, <1>4 DEF Gone, LinksAreServed
  <2> QED
    BY <1>s, <2>1, <2>2, RemainStep, Named
<1>5. ASSUME NEW h \in Handlers, ServerStep(h) \/ ServerFault(h), UNCHANGED link PROVE LinksAreServed'
  <2>1. \A g \in Handlers \ {h} : thread'[g] = thread[g]
    BY <1>0, <1>5, OnlyOne
  <2>2. thread[h].open => /\ thread'[h].open /\ thread'[h].pc # "idle"
                          /\ thread'[h].access = thread[h].access
    BY <1>0, <1>5, Effects
  <2> QED
    BY <1>s, <1>5, <2>1, <2>2, RemainStep
<1>6. CASE DataAgentDies
  <2>1. \A c \in Callers : link'[c] \notin Handlers /\ (link'[c] # None => link[c] # None)
    BY <1>6, Named DEF DataAgentDies
  <2> QED
    BY <2>1, RemainStep
<1> QED
  BY <1>1, <1>2, <1>3, <1>4, <1>5, <1>6, LinkGroups
-----------------------------------------------------------------------------
(* The events and what they say.                                           *)

\* How the events change.
LEMMA EventGroups ==
    ASSUME IInv, Next
    PROVE  \/ events' = events
           \/ UpdateTelemetry
           \/ \E t \in Tools : (RejectAccess(t) \/ AppendEvent(t)) /\ UNCHANGED <<serverVars, runner, status, mesh, due, link>>
<1>1. CASE \E t \in Tools : ToolStep(t) \/ ToolFault(t)
  <2>1. PICK t \in Tools : ToolStep(t) \/ ToolFault(t)
    BY <1>1
  <2>2. events' = events \/ RejectAccess(t) \/ AppendEvent(t)
    BY <2>1, ToolMoves
  <2> QED
    BY <2>2 DEF RejectAccess, AppendEvent, runnerVars, clientVars
<1>2. CASE (\E rep \in Reps : AgentAccess(rep)) \/ (\E i \in Accepted : AgentFetch(i)) \/ GatewayDies
  BY <1>2 DEF AgentAccess, AgentFetch, AgentCalls, GatewayDies
<1> QED
  BY <1>1, <1>2, GateGroups

\* A handler that begins a transfer began before, or is asked by a fetch.
LEMMA BeginStep ==
    ASSUME IInv, Next, NEW h \in Handlers, thread'[h].pc = "begin"
    PROVE  \/ thread[h].pc = "begin" /\ thread'[h].access = thread[h].access
           \/ \E t \in Tools : SendDownload(t) /\ thread'[h].access = RequestOf(t)
<1>0. thread \in [Handlers -> Handling] /\ ServerTypeOK
  BY ThreadType DEF IInv, ServerInv
<1>1. ASSUME NEW g \in Handlers, NEW label \in Labels, NEW a \in Accesses, Receive(g, label, a)
      PROVE  \/ thread'[h] = thread[h]
             \/ thread'[h].pc = label /\ thread'[h].access = a
  <2>1. CASE h = g
    <3>1. thread'[h] = [Idle EXCEPT !.pc = label, !.open = TRUE, !.access = a]
      BY <1>0, <1>1, <2>1 DEF Receive
    <3> QED
      BY <3>1, IdleType DEF Labels, Handling
  <2>2. CASE h # g
    BY <1>0, <1>1, <2>2 DEF Receive
  <2> QED
    BY <2>1, <2>2
<1>2. CASE UNCHANGED <<link, thread, attempt>>
  BY <1>2
<1>3. CASE \E t \in Tools : SendAccess(t) \/ SendDownload(t)
  <2>1. PICK t \in Tools : SendAccess(t) \/ SendDownload(t)
    BY <1>3
  <2>2. \/ SendAccess(t) /\ Send(t, "reference", RequestOf(t))
        \/ SendDownload(t) /\ Send(t, "begin", RequestOf(t))
    BY <2>1, SendAccessIs
  <2>3. PICK label \in Labels : Receive(FreeHandler, label, RequestOf(t)) /\ FreeHandler \in Handlers
                              /\ RequestOf(t) \in Accesses /\ (label = "begin" => SendDownload(t))
    BY <2>1, <2>2, SendAccessIs, SendIsReceive DEF Send, Labels
  <2> QED
    BY <1>1, <2>3
<1>4. CASE SendTelemetry
  <2>1. Receive(FreeHandler, "before", Asks(Runner)) /\ FreeHandler \in Handlers /\ Asks(Runner) \in Accesses
    BY <1>4, SendTelemetryIs, SendIsReceive DEF Send
  <2> QED
    BY <1>1, <2>1 DEF Labels
<1>5. ASSUME NEW c \in Callers, Gone(c)
      PROVE  thread[h].pc = "begin" /\ thread'[h].access = thread[h].access
  <2>1. thread'[h] = thread[h] \/ thread'[h] = Idle \/ thread'[h] = [thread[h] EXCEPT !.open = FALSE]
    BY <1>5 DEF Gone
  <2>2. Idle.pc # "begin"
    BY IdleType
  <2> QED
    BY <1>0, <2>1, <2>2 DEF Handling
<1>6. ASSUME NEW g \in Handlers, ServerStep(g) \/ ServerFault(g)
      PROVE  thread'[h] = thread[h]
  <2>1. g # h
    BY <1>0, <1>6, Effects
  <2> QED
    BY <1>0, <1>6, <2>1, OnlyOne
<1>7. CASE DataAgentDies
  BY <1>7, IdleType DEF DataAgentDies, ServerDies
<1> QED
  BY <1>2, <1>3, <1>4, <1>5, <1>6, <1>7, LinkGroups

\* Transfers are of accesses the gateway has made.
LEMMA TransferredStep ==
    ASSUME IInv, Next, Len(events') \in Nat, Len(events) <= Len(events')
    PROVE  /\ \A h \in Handlers : At(h, "begin")' => thread'[h].access[1] < Len(events')
           /\ \A a \in Accesses : transferred'[a] > 0 => a[1] < Len(events')
<1>0. Len(events) \in Nat
  BY SessionTypes DEF IInv
<1>1. ASSUME NEW h \in Handlers, thread'[h].pc = "begin" PROVE thread'[h].access[1] < Len(events')
  <2>1. CASE thread[h].pc = "begin" /\ thread'[h].access = thread[h].access
    <3>1. thread[h].access[1] < Len(events)
      BY <2>1 DEF IInv, EventsAreOrdered, At
    <3>2. thread[h].access \in Accesses
      BY HandlerType DEF IInv, ServerInv
    <3>3. thread[h].access[1] \in Nat
      BY <3>2, PilotAssumption
    <3> QED
      BY <1>0, <2>1, <3>1, <3>3
  <2>2. ASSUME NEW t \in Tools, SendDownload(t), thread'[h].access = RequestOf(t)
        PROVE  thread'[h].access[1] < Len(events')
    <3>1. tool[t].pc = "download" /\ GateFits(t)
      BY <2>2 DEF SendDownload, IInv, GateIsHeld
    <3>2. tool[t].index < Len(events) /\ tool[t].index \in Nat
      BY <3>1, CallType, PilotAssumption DEF GateFits, IInv
    <3>3. thread'[h].access[1] = tool[t].index
      BY <2>2 DEF RequestOf
    <3> QED
      BY <1>0, <3>2, <3>3
  <2> QED
    BY <1>1, <2>1, <2>2, BeginStep
<1>2. ASSUME NEW a \in Accesses, transferred'[a] > 0 PROVE a[1] < Len(events')
  <2>1. a[1] \in Nat
    BY PilotAssumption
  <2>2. a[1] < Len(events)
    <3>1. CASE transferred'[a] = transferred[a]
      BY <1>2, <3>1 DEF IInv, EventsAreOrdered
    <3>2. CASE transferred'[a] # transferred[a]
      <4>1. \E h \in Handlers : At(h, "begin") /\ thread[h].access = a
        BY <3>2, ServerGrows, SessionIsServer DEF IInv
      <4> QED
        BY <4>1 DEF IInv, EventsAreOrdered
    <3> QED
      BY <3>1, <3>2
  <2> QED
    BY <1>0, <2>1, <2>2
<1> QED
  BY <1>1, <1>2 DEF At

\* What an event says of its access stays so.
LEMMA EventHolds ==
    ASSUME IInv, Next, NEW i \in Accepted
    PROVE  operations'[AccessOf(events[i])] = events[i].response /\ events[i].response # 0
<1>1. i \in 1 .. Len(events) /\ AccessOf(events[i]) \in Accesses
  BY AccessInAccesses DEF Accepted
<1>2. events[i].response # 0 /\ events[i].response = operations[AccessOf(events[i])]
  BY DEF IInv, EventsAreOrdered, EventsAreOperations
<1> QED
  BY <1>1, <1>2, ServerGrows, SessionIsServer DEF IInv

\* Nothing is appended.
LEMMA OrderedAlike ==
    ASSUME IInv, Next, Alike,
           \A i \in Accepted : events'[i].figures.requests <= transferred'[AccessOf(events[i])]
    PROVE  EventsAreOrdered'
<1>0. /\ Len(events) \in Nat /\ Len(events') = Len(events) /\ TypeOK
      /\ Accepted' = Accepted /\ Spent' = Spent
  BY SessionTypes, AlikeSame DEF IInv
<1>1. \A i \in 1 .. Len(events) : AccessOf(events'[i]) = AccessOf(events[i])
  BY DEF Alike, AccessOf
<1>2. \A i \in 1 .. Len(events') : events'[i].index = i - 1
  BY <1>0 DEF Alike, IInv, EventsAreOrdered
<1>3. \A i \in Accepted' : events'[i].response # 0 /\ events'[i].response = operations'[AccessOf(events'[i])]
  <2> SUFFICES ASSUME NEW i \in Accepted
               PROVE  events'[i].response # 0 /\ events'[i].response = operations'[AccessOf(events'[i])]
    BY <1>0
  <2>1. i \in 1 .. Len(events)
    BY DEF Accepted
  <2>2. events'[i].response = events[i].response
    BY <2>1 DEF Alike
  <2> QED
    BY <1>1, <2>1, <2>2, EventHolds
<1>4. \A i \in Accepted' : events'[i].figures.requests <= transferred'[AccessOf(events'[i])]
  BY <1>0, <1>1 DEF Accepted
<1>5. /\ \A h \in Handlers : At(h, "begin")' => thread'[h].access[1] < Len(events')
      /\ \A a \in Accesses : transferred'[a] > 0 => a[1] < Len(events')
  BY <1>0, TransferredStep
<1>6. Cardinality(Accepted') <= MaxAccesses /\ Spent' <= Budget
  BY <1>0 DEF IInv, EventsAreOrdered
<1> QED
  BY <1>2, <1>3, <1>4, <1>5, <1>6 DEF EventsAreOrdered, EventsAreOperations

\* An event is appended.
LEMMA OrderedAppend ==
    ASSUME IInv, Next, NEW e \in Event, events' = Append(events, e), UNCHANGED serverVars,
           Len(events) < MaxEvents, e.index = Len(events),
           e.accepted => /\ e.response # 0 /\ operations[AccessOf(e)] = e.response
                         /\ e.figures = NoSummary /\ Affordable(e.rep)
    PROVE  EventsAreOrdered'
<1>0. /\ events \in Seq(Event) /\ Len(events) \in Nat /\ TypeOK /\ MaxEvents \in Nat
      /\ MaxAccesses \in Nat /\ Budget \in Nat
  BY SessionTypes DEF IInv
<1> DEFINE n == Len(events)
<1>1. /\ Len(events') = n + 1 /\ events'[n + 1] = e /\ \A i \in 1 .. n : events'[i] = events[i]
  BY <1>0, AppendEvents
<1>2. Accepted' = IF e.accepted THEN Accepted \cup {n + 1} ELSE Accepted
  <2>1. AcceptedIn(Append(events, e)) = IF e.accepted THEN AcceptedIn(events) \cup {n + 1} ELSE AcceptedIn(events)
    BY <1>0, AcceptedAppend
  <2> QED
    BY <2>1, AcceptedIs
<1>3. UNCHANGED <<operations, transferred, thread>>
  BY DEF serverVars
<1>4. \A i \in 1 .. Len(events') : events'[i].index = i - 1
  BY <1>0, <1>1 DEF IInv, EventsAreOrdered
<1>5. \A i \in Accepted' : \/ i \in 1 .. n /\ i \in Accepted /\ events'[i] = events[i]
                           \/ e.accepted /\ events'[i] = e
  <2> SUFFICES ASSUME NEW i \in Accepted'
               PROVE  \/ i \in 1 .. n /\ i \in Accepted /\ events'[i] = events[i]
                      \/ e.accepted /\ events'[i] = e
    OBVIOUS
  <2>1. i \in Accepted \/ (e.accepted /\ i = n + 1)
    BY <1>2
  <2>2. i \in Accepted => i \in 1 .. n
    BY DEF Accepted
  <2> QED
    BY <1>1, <2>1, <2>2
<1>6. \A i \in Accepted' : events'[i].response # 0 /\ events'[i].response = operations'[AccessOf(events'[i])]
  <2> SUFFICES ASSUME NEW i \in Accepted'
               PROVE  events'[i].response # 0 /\ events'[i].response = operations'[AccessOf(events'[i])]
    OBVIOUS
  <2>1. CASE i \in Accepted /\ events'[i] = events[i]
    BY <2>1, EventHolds
  <2>2. CASE e.accepted /\ events'[i] = e
    BY <1>3, <2>2
  <2> QED
    BY <1>5, <2>1, <2>2
<1>7. \A i \in Accepted' : events'[i].figures.requests <= transferred'[AccessOf(events'[i])]
  <2> SUFFICES ASSUME NEW i \in Accepted'
               PROVE  events'[i].figures.requests <= transferred'[AccessOf(events'[i])]
    OBVIOUS
  <2>1. CASE i \in Accepted /\ events'[i] = events[i]
    BY <1>3, <2>1 DEF IInv, EventsAreOrdered
  <2>2. CASE e.accepted /\ events'[i] = e
    <3>1. e.figures.requests = 0
      BY <2>2 DEF NoSummary
    <3>2. AccessOf(e) \in Accesses
      <4>1. e.index \in 0 .. MaxEvents - 1 /\ e.rep \in Reps
        BY <1>0 DEF Event
      <4> QED
        BY <4>1, PilotAssumption DEF AccessOf
    <3>3. transferred[AccessOf(e)] \in Nat
      BY <3>2 DEF IInv, ServerInv, ServerTypeOK
    <3> QED
      BY <1>3, <2>2, <3>1, <3>3
  <2> QED
    BY <1>5, <2>1, <2>2
<1>8. /\ \A h \in Handlers : At(h, "begin")' => thread'[h].access[1] < Len(events')
      /\ \A a \in Accesses : transferred'[a] > 0 => a[1] < Len(events')
  BY <1>0, <1>1, TransferredStep
<1>9. Cardinality(Accepted') <= MaxAccesses
  <2>1. /\ Cardinality(AcceptedIn(Append(events, e))) = Cardinality(AcceptedIn(events)) + IF e.accepted THEN 1 ELSE 0
        /\ Cardinality(AcceptedIn(events)) \in Nat
    BY <1>0, AcceptedAppend
  <2>2. Accepted = AcceptedIn(events) /\ Accepted' = AcceptedIn(Append(events, e))
    BY AcceptedIs
  <2>3. Cardinality(AcceptedIn(events)) <= MaxAccesses
        /\ (e.accepted => Cardinality(AcceptedIn(events)) < MaxAccesses)
    BY <2>2 DEF IInv, EventsAreOrdered, Affordable
  <2> DEFINE c == Cardinality(AcceptedIn(events))
             d == Cardinality(AcceptedIn(Append(events, e)))
  <2>4. d \in Nat /\ d <= MaxAccesses
    <3>1. CASE e.accepted
      <4>1. d = c + 1 /\ c \in Nat /\ c < MaxAccesses
        BY <2>1, <2>3, <3>1
      <4> HIDE DEF c, d
      <4> QED
        BY <1>0, <4>1
    <3>2. CASE ~e.accepted
      <4>1. d = c + 0 /\ c \in Nat /\ c <= MaxAccesses
        BY <2>1, <2>3, <3>2
      <4> HIDE DEF c, d
      <4> QED
        BY <1>0, <4>1
    <3> QED
      BY <3>1, <3>2
  <2> QED
    BY <2>2, <2>4
<1>a. Spent' <= Budget
  <2>1. SpentOn(Append(events, e)) = SpentOn(events) + Cost(e) /\ SpentOn(events) \in Nat
    BY <1>0, SpentAppend
  <2>2. Spent = SpentOn(events) /\ Spent' = SpentOn(Append(events, e))
    BY SpentIs
  <2>3. Spent <= Budget /\ (e.accepted => Spent + Price[e.rep] <= Budget)
    BY DEF IInv, EventsAreOrdered, Affordable
  <2>4. Spent + Cost(e) <= Budget
    <3>1. CASE e.accepted
      BY <2>3, <3>1 DEF Cost
    <3>2. CASE ~e.accepted
      <4>1. Cost(e) = 0
        BY <3>2 DEF Cost
      <4>2. Spent \in Nat
        BY <2>1, <2>2
      <4> HIDE DEF Spent
      <4> QED
        BY <2>3, <4>1, <4>2
    <3> QED
      BY <3>1, <3>2
  <2> QED
    BY <2>1, <2>2, <2>4
<1> QED
  BY <1>4, <1>6, <1>7, <1>8, <1>9, <1>a DEF EventsAreOrdered, EventsAreOperations

LEMMA EventStep ==
    ASSUME IInv, Next
    PROVE  EventsAreOrdered'
<1>0. events \in Seq(Event) /\ Len(events) \in Nat /\ TypeOK
  BY SessionTypes DEF IInv
<1>1. CASE events' = events
  <2>1. Alike
    BY <1>0, <1>1, SameIsAlike
  <2>2. ASSUME NEW i \in Accepted PROVE events'[i].figures.requests <= transferred'[AccessOf(events[i])]
    <3>1. i \in 1 .. Len(events) /\ AccessOf(events[i]) \in Accesses /\ events[i] \in Event
      BY <1>0, AccessInAccesses, ElementOf DEF Accepted
    <3>2. events[i].figures.requests <= transferred[AccessOf(events[i])]
      BY DEF IInv, EventsAreOrdered
    <3>3. transferred[AccessOf(events[i])] <= transferred'[AccessOf(events[i])]
      BY <3>1, ServerGrows, SessionIsServer DEF IInv
    <3>4. /\ transferred[AccessOf(events[i])] \in Nat /\ transferred'[AccessOf(events[i])] \in Nat
          /\ events[i].figures.requests \in Nat
      <4>1. ServerTypeOK'
        BY ServerStepKeeps, SessionIsServer DEF IInv, ServerInv
      <4> QED
        BY <3>1, <4>1 DEF IInv, ServerInv, ServerTypeOK, Event
    <3> QED
      BY <1>1, <3>2, <3>3, <3>4
  <2> QED
    BY <2>1, <2>2, OrderedAlike
<1>2. CASE UpdateTelemetry
  <2>1. /\ Alike /\ runner.next \in 1 .. Len(runner.pending)
        /\ events'[runner.next].figures = runner.pending[runner.next]
        /\ \A i \in 1 .. Len(events) : i # runner.next => events'[i] = events[i]
    BY <1>2, UpdateIsAlike
  <2>2. transferred' = transferred
    BY <1>2 DEF UpdateTelemetry, serverVars
  <2>3. ASSUME NEW i \in Accepted PROVE events'[i].figures.requests <= transferred'[AccessOf(events[i])]
    <3>1. CASE i = runner.next
      <4>1. runner.pc = "write" /\ i <= Len(runner.pending)
        BY <1>2, <2>1, <3>1 DEF UpdateTelemetry, RunnerAt
      <4>2. Counts(runner.pending[i], AccessOf(events[i]))
        BY <4>1 DEF IInv, CollectedCounts, PendingCounts, AwaitsAccepted, Reconciling
      <4> QED
        BY <2>1, <2>2, <3>1, <4>2 DEF Counts
    <3>2. CASE i # runner.next
      BY <2>1, <2>2, <3>2 DEF IInv, EventsAreOrdered, Accepted
    <3> QED
      BY <3>1, <3>2
  <2> QED
    BY <2>1, <2>3, OrderedAlike
<1>3. ASSUME NEW t \in Tools, RejectAccess(t) \/ AppendEvent(t), UNCHANGED serverVars
      PROVE  EventsAreOrdered'
  <2>1. t \in Accessing
    BY <1>3, RejectedIs, AppendedIs, CallType DEF IInv, Accessing, FreeTools
  <2>2. Len(events) < MaxEvents
    BY <2>1, OpenBound
  <2>3. CASE RejectAccess(t)
    BY <1>3, <2>2, <2>3, RejectedIs, OrderedAppend
  <2>4. CASE AppendEvent(t)
    BY <1>3, <2>2, <2>4, AppendedIs, OrderedAppend
  <2> QED
    BY <1>3, <2>3, <2>4
<1> QED
  BY <1>1, <1>2, <1>3, EventGroups
-----------------------------------------------------------------------------
(* The pilot, the workflow and the record.                                 *)

RunnerSteps == {"down", "register", "submit", "bind", "wait", "collect", "await",
                "polling", "write", "fail", "record", "unsaved", "over"}
Running == [pc : RunnerSteps, next : Nat \ {0}, upto : Nat,
            pending : Seq([requests : Nat, full : Nat]), ok : BOOLEAN]

LEMMA NoRunType ==
    /\ NoRun \in Running /\ NoRun.pc = "down" /\ NoRun.next = 1 /\ NoRun.upto = 0
    /\ NoRun.pending = <<>> /\ ~NoRun.ok
BY DEF NoRun, Running, RunnerSteps

LEMMA RunningType == RunnerTypeOK <=> runner \in Running
BY DEF RunnerTypeOK, Running, RunnerSteps

LEMMA RunnerGoes ==
    ASSUME runner \in Running, NEW label \in RunnerSteps, RunnerGoto(label)
    PROVE  /\ runner' \in Running /\ runner'.pc = label
           /\ runner'.next = runner.next /\ runner'.upto = runner.upto
           /\ runner'.pending = runner.pending /\ runner'.ok = runner.ok
BY DEF RunnerGoto, Running

\* Only the pilot moves itself, the session's status and the record; FlowMesh
\* ends a workflow that runs.
LEMMA RunnerGroups ==
    ASSUME IInv, Next
    PROVE  \/ RunnerStep \/ QuiescenceDeadline \/ RunnerFault
           \/ /\ UNCHANGED <<runner, status, recorded, submissions>>
              /\ \/ UNCHANGED <<mesh, due>>
                 \/ mesh = "running" /\ mesh' \in {"done", "failed"} /\ due' = transferred
                    /\ UNCHANGED <<serverVars, events, link>>
<1>1. CASE \E t \in Tools : ToolStep(t) \/ ToolFault(t)
  BY <1>1, ToolMoves
<1>2. CASE (\E rep \in Reps : AgentAccess(rep)) \/ (\E i \in Accepted : AgentFetch(i))
  BY <1>2 DEF AgentAccess, AgentFetch, AgentCalls, runnerVars
<1>3. CASE MeshDone \/ MeshFails
  BY <1>3 DEF MeshDone, MeshFails, MeshEnds, gatewayVars, clientVars
<1>4. CASE \E h \in Handlers : HandlerStep(h) \/ HandlerFault(h)
  BY <1>4 DEF HandlerStep, HandlerFault, gatewayVars, runnerVars
<1>5. CASE GatewayDies \/ DataAgentDies \/ Over
  BY <1>5 DEF GatewayDies, DataAgentDies, Over, vars, gatewayVars, runnerVars
<1> QED
  BY <1>1, <1>2, <1>3, <1>4, <1>5 DEF Next

OutcomeTypeOK ==
    /\ status \in {"NONE", "CREATED", "RUNNING", "DONE", "FAILED"}
    /\ mesh \in {"none", "running", "done", "failed"}
    /\ recorded \in {"none", "success", "failure", "unsaved"}
    /\ submissions \in Nat

RunnerPart == runner \in Running /\ OutcomeTypeOK /\ RunnerAgrees

LEMMA RunnerPartStep ==
    ASSUME IInv, Next
    PROVE  RunnerPart'
<1>0. RunnerPart
  BY RunningType DEF IInv, TypeOK, OutcomeTypeOK, RunnerPart
<1>t. runner \in Running /\ OutcomeTypeOK /\ RunnerAgrees
  BY <1>0 DEF RunnerPart
<1> DEFINE Go(label) == /\ runner' \in Running /\ runner'.pc = label
                        /\ runner'.next = runner.next /\ runner'.upto = runner.upto
                        /\ runner'.pending = runner.pending /\ runner'.ok = runner.ok
<1>g. \A label \in RunnerSteps : RunnerGoto(label) => Go(label)
  BY <1>t, RunnerGoes
<1> HIDE DEF Go
<1>1. CASE UNCHANGED <<runner, status, recorded, submissions>>
           /\ (mesh' = mesh \/ (mesh = "running" /\ mesh' \in {"done", "failed"}))
  BY <1>t, <1>1 DEF RunnerPart, RunnerAgrees, OutcomeTypeOK, RecordAgrees, RunnerAt
<1>2. CASE Recover
  <2>1. /\ UNCHANGED <<status, mesh, recorded, submissions>> /\ runner.pc = "down"
        /\ runner' = [NoRun EXCEPT !.pc =
              IF recorded # "none" THEN "over"
              ELSE CASE status = "NONE" -> "register" [] status = "CREATED" -> "fail"
                     [] status = "RUNNING" -> "wait" [] OTHER -> "record",
            !.ok = (status = "DONE")]
    BY <1>2 DEF Recover, RunnerAt
  <2>2. recorded = "none"
    BY <1>t, <2>1 DEF RunnerAgrees, RunnerAt
  <2>3. \E label \in {"register", "fail", "wait", "record"} :
           /\ runner' = [NoRun EXCEPT !.pc = label, !.ok = (status = "DONE")]
           /\ \/ status = "NONE" /\ label = "register"
              \/ status = "CREATED" /\ label = "fail"
              \/ status = "RUNNING" /\ label = "wait"
              \/ status \in {"DONE", "FAILED"} /\ label = "record"
    BY <1>t, <2>1, <2>2 DEF OutcomeTypeOK
  <2>4. PICK label \in {"register", "fail", "wait", "record"} :
           /\ runner' = [NoRun EXCEPT !.pc = label, !.ok = (status = "DONE")]
           /\ \/ status = "NONE" /\ label = "register"
              \/ status = "CREATED" /\ label = "fail"
              \/ status = "RUNNING" /\ label = "wait"
              \/ status \in {"DONE", "FAILED"} /\ label = "record"
    BY <2>3
  <2>5. /\ runner' \in Running /\ runner'.pc = label /\ runner'.ok = (status = "DONE")
    BY <2>4, NoRunType DEF Running, RunnerSteps
  <2> QED
    BY <1>t, <2>1, <2>2, <2>4, <2>5 DEF RunnerPart, RunnerAgrees, OutcomeTypeOK, RecordAgrees, RunnerAt,
        Reconciling
<1>3. CASE RegisterSession
  <2>1. Go("submit") /\ runner.pc = "register" /\ status' = "CREATED" /\ UNCHANGED <<mesh, recorded, submissions>>
    BY <1>3, <1>g DEF RegisterSession, RunnerSteps, RunnerAt
  <2> QED
    BY <1>t, <2>1 DEF Go, RunnerPart, RunnerAgrees, OutcomeTypeOK, RecordAgrees, RunnerAt, Reconciling
<1>4. CASE PinningFails
  <2>1. Go("record") /\ runner.pc = "register" /\ UNCHANGED <<status, mesh, recorded, submissions>>
    BY <1>4, <1>g DEF PinningFails, RunnerSteps, RunnerAt
  <2> QED
    BY <1>t, <2>1 DEF Go, RunnerPart, RunnerAgrees, OutcomeTypeOK, RecordAgrees, RunnerAt, Reconciling
<1>5. CASE Submit
  <2>1. Go("bind") /\ runner.pc = "submit" /\ mesh' = "running" /\ submissions' = submissions + 1
        /\ UNCHANGED <<status, recorded>>
    BY <1>5, <1>g DEF Submit, RunnerSteps, RunnerAt
  <2> QED
    BY <1>t, <2>1 DEF Go, RunnerPart, RunnerAgrees, OutcomeTypeOK, RecordAgrees, RunnerAt, Reconciling
<1>6. CASE SubmitFails
  <2>1. /\ Go("fail") /\ runner.pc = "submit" /\ UNCHANGED <<status, recorded>>
        /\ \/ UNCHANGED <<mesh, submissions>>
           \/ mesh' = "running" /\ submissions' = submissions + 1
    BY <1>6, <1>g DEF SubmitFails, RunnerSteps, RunnerAt
  <2> QED
    BY <1>t, <2>1 DEF Go, RunnerPart, RunnerAgrees, OutcomeTypeOK, RecordAgrees, RunnerAt, Reconciling
<1>j. CASE RecoverFails
  <2>1. /\ runner.pc = "down" /\ recorded = "none" /\ UNCHANGED <<status, mesh, recorded, submissions>>
        /\ runner' = [NoRun EXCEPT !.pc = "unsaved"]
    BY <1>j DEF RecoverFails, RunnerAt
  <2>2. runner' \in Running /\ runner'.pc = "unsaved" /\ ~runner'.ok
    BY <2>1, NoRunType DEF Running, RunnerSteps
  <2> QED
    BY <1>t, <2>1, <2>2 DEF RunnerPart, RunnerAgrees, OutcomeTypeOK, RecordAgrees, RunnerAt, Reconciling
<1>k. CASE BindFails
  <2>1. Go("fail") /\ runner.pc = "bind" /\ UNCHANGED <<status, mesh, recorded, submissions>>
    BY <1>k, <1>g DEF BindFails, RunnerSteps, RunnerAt
  <2> QED
    BY <1>t, <2>1 DEF Go, RunnerPart, RunnerAgrees, OutcomeTypeOK, RecordAgrees, RunnerAt, Reconciling
<1>7. CASE BindFlowmesh
  <2>1. Go("wait") /\ runner.pc = "bind" /\ status' = "RUNNING" /\ UNCHANGED <<mesh, recorded, submissions>>
    BY <1>7, <1>g DEF BindFlowmesh, RunnerSteps, RunnerAt
  <2> QED
    BY <1>t, <2>1 DEF Go, RunnerPart, RunnerAgrees, OutcomeTypeOK, RecordAgrees, RunnerAt, Reconciling
\* The steps that only move the pilot on.
<1>8. ASSUME UNCHANGED <<status, mesh, recorded, submissions>>, runner' \in Running,
             runner.pc \in {"wait", "collect", "await", "polling", "write"},
             runner'.pc \in Reconciling \cup {"fail"},
             runner'.pc \in Reconciling => mesh = "done", runner'.ok = runner.ok
      PROVE  RunnerPart'
  BY <1>t, <1>8 DEF RunnerPart, RunnerAgrees, OutcomeTypeOK, RecordAgrees, RunnerAt, Reconciling
<1>m. runner.pc \in Reconciling => mesh = "done"
  BY <1>t DEF RunnerAgrees
<1>9. CASE WorkflowEnded
  <2>1. runner' = [runner EXCEPT !.pc = IF mesh = "done" THEN "collect" ELSE "fail", !.upto = Len(events)]
        /\ runner.pc = "wait" /\ UNCHANGED <<status, mesh, recorded, submissions>>
    BY <1>9 DEF WorkflowEnded, RunnerAt
  <2>2. Len(events) \in Nat
    BY SessionTypes DEF IInv
  <2>3. /\ runner' \in Running /\ runner'.ok = runner.ok
        /\ runner'.pc = IF mesh = "done" THEN "collect" ELSE "fail"
    BY <1>t, <2>1, <2>2 DEF Running, RunnerSteps
  <2> QED
    BY <1>8, <2>1, <2>3 DEF Reconciling
<1>a. CASE SkipRefused
  <2>1. runner' = [runner EXCEPT !.next = @ + 1, !.pending = Append(@, NoSummary)]
        /\ runner.pc = "collect" /\ UNCHANGED <<status, mesh, recorded, submissions>>
    BY <1>a DEF SkipRefused, RunnerAt
  <2>2. Append(runner.pending, NoSummary) \in Seq([requests : Nat, full : Nat])
        /\ runner.next + 1 \in Nat \ {0}
    BY <1>t DEF Running, NoSummary
  <2>3. runner' \in Running /\ runner'.ok = runner.ok /\ runner'.pc = "collect"
    BY <1>t, <2>1, <2>2 DEF Running, RunnerSteps
  <2> QED
    BY <1>8, <1>m, <2>1, <2>3 DEF Reconciling
<1>b. CASE TelemetryAnswered
  <2>1. /\ runner' = IF Answer(Runner).response = 0 THEN [runner EXCEPT !.pc = "fail"]
                     ELSE IF Final(Answer(Runner))
                     THEN [runner EXCEPT !.pc = "collect", !.next = @ + 1,
                                         !.pending = Append(@, Answer(Runner).summary)]
                     ELSE [runner EXCEPT !.pc = "polling"]
        /\ runner.pc = "await" /\ UNCHANGED <<status, mesh, recorded, submissions>>
    BY <1>b DEF TelemetryAnswered, RunnerAt, gatewayVars
  <2>2. Answer(Runner).summary \in [requests : Nat, full : Nat]
    BY <1>b, HandlerType DEF TelemetryAnswered, Answered, Answer, IInv, ServerInv, Handling
  <2>3. runner' \in Running /\ runner'.ok = runner.ok /\ runner'.pc \in {"collect", "polling", "fail"}
    <3>1. CASE runner' = [runner EXCEPT !.pc = "fail"] \/ runner' = [runner EXCEPT !.pc = "polling"]
      BY <1>t, <3>1 DEF Running, RunnerSteps
    <3>2. CASE runner' = [runner EXCEPT !.pc = "collect", !.next = @ + 1,
                                        !.pending = Append(@, Answer(Runner).summary)]
      <4>1. Append(runner.pending, Answer(Runner).summary) \in Seq([requests : Nat, full : Nat])
            /\ runner.next + 1 \in Nat \ {0}
        BY <1>t, <2>2 DEF Running
      <4> QED
        BY <1>t, <3>2, <4>1 DEF Running, RunnerSteps
    <3> QED
      BY <2>1, <3>1, <3>2
  <2> QED
    BY <1>8, <1>m, <2>1, <2>3 DEF Reconciling
<1>c. CASE SendTelemetry \/ Poll \/ QuiescenceDeadline \/ TelemetryRetried \/ TelemetryLost
           \/ TelemetryBroken \/ UpdateFails \/ RetrieveFails
  <2>1. /\ UNCHANGED <<status, mesh, recorded, submissions>>
        /\ \/ /\ runner.pc \in Reconciling
              /\ RunnerGoto("await") \/ RunnerGoto("collect") \/ RunnerGoto("fail")
           \/ runner.pc = "wait" /\ RunnerGoto("fail")
    BY <1>c DEF SendTelemetry, Poll, QuiescenceDeadline, TelemetryRetried, TelemetryLost,
        TelemetryBroken, UpdateFails, RetrieveFails, RunnerAt, Reconciling, gatewayVars
  <2>2. /\ UNCHANGED <<status, mesh, recorded, submissions>>
        /\ \/ runner.pc \in Reconciling /\ (Go("await") \/ Go("collect") \/ Go("fail"))
           \/ runner.pc = "wait" /\ Go("fail")
    BY <1>g, <2>1 DEF RunnerSteps
  <2> QED
    BY <1>8, <1>m, <2>2 DEF Go, Reconciling
<1>d. CASE StartWriting \/ UpdateTelemetry
  <2>1. /\ UNCHANGED <<status, mesh, recorded, submissions>> /\ runner.pc \in {"collect", "write"}
        /\ \/ runner' = [runner EXCEPT !.pc = "write", !.next = 1]
           \/ runner' = [runner EXCEPT !.next = runner.next + 1] /\ runner.pc = "write"
    BY <1>d DEF StartWriting, UpdateTelemetry, RunnerAt
  <2>2. runner' \in Running /\ runner'.ok = runner.ok /\ runner'.pc = "write"
    <3>1. CASE runner' = [runner EXCEPT !.pc = "write", !.next = 1]
      <4>1. runner \in Running /\ 1 \in Nat \ {0} /\ "write" \in RunnerSteps
        BY <1>t DEF RunnerSteps
      <4> QED
        BY <3>1, <4>1 DEF Running
    <3>2. CASE runner' = [runner EXCEPT !.next = runner.next + 1] /\ runner.pc = "write"
      <4>1. runner.next + 1 \in Nat \ {0}
        BY <1>t DEF Running
      <4> QED
        BY <1>t, <3>2, <4>1 DEF Running, RunnerSteps
    <3> QED
      BY <2>1, <3>1, <3>2
  <2> QED
    BY <1>8, <1>m, <2>1, <2>2 DEF Reconciling
<1>e. CASE FinishDone
  <2>1. /\ UNCHANGED <<mesh, recorded, submissions>> /\ runner.pc = "write" /\ status' = "DONE"
        /\ runner' = [runner EXCEPT !.pc = "record", !.ok = TRUE]
    BY <1>e DEF FinishDone, RunnerAt
  <2>2. runner' \in Running /\ runner'.ok /\ runner'.pc = "record"
    BY <1>t, <2>1 DEF Running, RunnerSteps
  <2> QED
    BY <1>t, <2>1, <2>2 DEF RunnerPart, RunnerAgrees, OutcomeTypeOK, RecordAgrees, RunnerAt, Reconciling
<1>f. CASE FinishFailed
  <2>1. Go("record") /\ runner.pc = "fail" /\ status' = "FAILED" /\ UNCHANGED <<mesh, recorded, submissions>>
    BY <1>f, <1>g DEF FinishFailed, RunnerSteps, RunnerAt
  <2> QED
    BY <1>t, <2>1 DEF Go, RunnerPart, RunnerAgrees, OutcomeTypeOK, RecordAgrees, RunnerAt, Reconciling
<1>l. CASE FinishDoneFails
  <2>1. /\ Go("fail") /\ runner.pc = "write" /\ status' \in {status, "DONE"}
        /\ UNCHANGED <<mesh, recorded, submissions>>
    BY <1>l, <1>g DEF FinishDoneFails, RunnerSteps, RunnerAt
  <2> QED
    BY <1>t, <2>1 DEF Go, RunnerPart, RunnerAgrees, OutcomeTypeOK, RecordAgrees, RunnerAt, Reconciling
<1>n. CASE FinishFails
  <2>1. Go("unsaved") /\ runner.pc = "fail" /\ UNCHANGED <<status, mesh, recorded, submissions>>
    BY <1>n, <1>g DEF FinishFails, RunnerSteps, RunnerAt
  <2> QED
    BY <1>t, <2>1 DEF Go, RunnerPart, RunnerAgrees, OutcomeTypeOK, RecordAgrees, RunnerAt, Reconciling
<1>h. CASE Record
  <2>1. /\ Go("over") /\ UNCHANGED <<status, mesh, submissions>>
        /\ \/ runner.pc = "record" /\ recorded' = (IF runner.ok THEN "success" ELSE "failure")
           \/ runner.pc = "unsaved" /\ recorded' = "unsaved"
    BY <1>h, <1>g DEF Record, Outcome, RunnerSteps, RunnerAt
  <2> QED
    BY <1>t, <2>1 DEF Go, RunnerPart, RunnerAgrees, OutcomeTypeOK, RecordAgrees, RunnerAt, Reconciling
<1>i. CASE RunnerDies
  <2>1. /\ runner.pc \notin {"down", "over"} /\ runner' = NoRun
        /\ UNCHANGED <<status, mesh, recorded, submissions>>
    BY <1>i DEF RunnerDies, gatewayVars
  <2> QED
    BY <1>t, <2>1, NoRunType DEF RunnerPart, RunnerAgrees, OutcomeTypeOK, RecordAgrees, RunnerAt, Reconciling
<1> QED
  BY <1>1, <1>2, <1>3, <1>4, <1>5, <1>6, <1>7, <1>9, <1>a, <1>b, <1>c, <1>d, <1>e, <1>f, <1>h, <1>i,
     <1>j, <1>k, <1>l, <1>n, RunnerGroups DEF RunnerStep, RunnerFault
-----------------------------------------------------------------------------
(* What the pilot collects.                                                *)

Figures == [requests : Nat, full : Nat]

LEMMA RunnerFrame ==
    ASSUME RunnerStep \/ QuiescenceDeadline \/ RunnerFault
    PROVE  UNCHANGED due /\ (events' = events \/ UpdateTelemetry)
<1>1. CASE SendTelemetry \/ TelemetryAnswered \/ TelemetryRetried \/ TelemetryLost
           \/ TelemetryBroken \/ RunnerDies \/ UpdateTelemetry
  BY <1>1 DEF SendTelemetry, TelemetryAnswered, TelemetryRetried, TelemetryLost,
      TelemetryBroken, RunnerDies, gatewayVars, UpdateTelemetry
<1>2. CASE Recover \/ RegisterSession \/ Submit \/ BindFlowmesh \/ WorkflowEnded \/ SkipRefused \/ Poll
           \/ StartWriting \/ FinishDone \/ FinishFailed \/ Record \/ QuiescenceDeadline
           \/ PinningFails \/ SubmitFails \/ RetrieveFails \/ UpdateFails
           \/ BindFails \/ FinishDoneFails \/ FinishFails \/ RecoverFails
  BY <1>2 DEF Recover, RegisterSession, Submit, BindFlowmesh, WorkflowEnded, SkipRefused, Poll,
      StartWriting, FinishDone, FinishFailed, Record, QuiescenceDeadline,
      PinningFails, SubmitFails, RetrieveFails, UpdateFails,
      BindFails, FinishDoneFails, FinishFails, RecoverFails, RunnerUnchanged
<1> QED
  BY <1>1, <1>2 DEF RunnerStep, RunnerFault

\* The counters of an access in this state and the next.
LEMMA CounterTypes ==
    ASSUME IInv, Next, NEW a \in Accesses
    PROVE  /\ transferred[a] \in Nat /\ transferred'[a] \in Nat /\ transferred[a] <= transferred'[a]
           /\ forgotten[a] \in Nat /\ forgotten'[a] \in Nat /\ forgotten[a] <= forgotten'[a]
           /\ due[a] \in Nat /\ due[a] <= transferred[a]
<1>1. ServerTypeOK /\ ServerTypeOK'
  BY ServerStepKeeps, SessionIsServer DEF IInv, ServerInv
<1>2. transferred[a] <= transferred'[a] /\ forgotten[a] <= forgotten'[a]
  BY ServerGrows, SessionIsServer DEF IInv
<1>3. due[a] \in Nat /\ due[a] <= transferred[a]
  BY SessionTypes DEF IInv, CollectedCounts, DueTransferred
<1> QED
  BY <1>1, <1>2, <1>3 DEF ServerTypeOK

LEMMA DueStep ==
    ASSUME IInv, Next
    PROVE  due' \in [Accesses -> Nat] /\ DueTransferred'
<1>0. due \in [Accesses -> Nat] /\ transferred \in [Accesses -> Nat]
  BY SessionTypes DEF IInv, ServerInv, ServerTypeOK
<1>1. CASE due' = due
  <2>1. \A a \in Accesses : due'[a] <= transferred'[a]
    BY <1>1, CounterTypes
  <2> QED
    BY <1>0, <1>1, <2>1 DEF DueTransferred
<1>2. CASE due' = transferred /\ UNCHANGED serverVars
  <2>1. \A a \in Accesses : due'[a] <= transferred'[a]
    BY <1>0, <1>2 DEF serverVars
  <2> QED
    BY <1>0, <1>2, <2>1 DEF DueTransferred
<1>3. due' = due \/ (due' = transferred /\ UNCHANGED serverVars)
  BY RunnerGroups, RunnerFrame
<1> QED
  BY <1>1, <1>2, <1>3

LEMMA CountsGrow ==
    ASSUME IInv, Next, UNCHANGED due, NEW a \in Accesses, NEW f \in Figures,
           f.requests + forgotten[a] >= due[a], f.requests <= transferred[a]
    PROVE  f.requests + forgotten'[a] >= due'[a] /\ f.requests <= transferred'[a]
<1>1. /\ transferred[a] \in Nat /\ transferred'[a] \in Nat /\ transferred[a] <= transferred'[a]
      /\ forgotten[a] \in Nat /\ forgotten'[a] \in Nat /\ forgotten[a] <= forgotten'[a]
      /\ due[a] \in Nat /\ due'[a] = due[a] /\ f.requests \in Nat
  BY CounterTypes DEF Figures
<1> QED
  BY <1>1

\* A complete answer stays as it is until it is taken.
LEMMA CompleteKept ==
    ASSUME IInv, Next, NEW h \in Handlers, thread[h].complete, thread'[h].complete
    PROVE  thread'[h].summary = thread[h].summary /\ thread'[h].access = thread[h].access
<1>0. thread \in [Handlers -> Handling] /\ ServerTypeOK /\ thread[h].pc = "answer" /\ thread[h] \in Handling
  BY ThreadType, HandlerType DEF IInv, ServerInv, CompleteIsAnswered, At
<1>1. thread'[h] # Idle
  BY IdleType
<1>2. CASE UNCHANGED <<link, thread, attempt>>
  BY <1>2
<1>3. ASSUME NEW c, NEW label, NEW a, Send(c, label, a) PROVE thread'[h] = thread[h]
  <2>1. FreeHandler \in Handlers /\ thread[FreeHandler].pc = "idle"
    BY <1>3 DEF Send, FreeHandler, At
  <2>2. FreeHandler # h
    BY <1>0, <2>1
  <2> QED
    BY <1>0, <1>3, <2>1, <2>2 DEF Send, Receive
<1>4. CASE \E t \in Tools : SendAccess(t) \/ SendDownload(t)
  BY <1>3, <1>4 DEF SendAccess, SendDownload
<1>5. CASE SendTelemetry
  BY <1>3, <1>5 DEF SendTelemetry
<1>6. ASSUME NEW c \in Callers, Gone(c)
      PROVE  thread'[h].summary = thread[h].summary /\ thread'[h].access = thread[h].access
  <2>1. thread'[h] = thread[h] \/ thread'[h] = [thread[h] EXCEPT !.open = FALSE]
    BY <1>1, <1>6 DEF Gone
  <2> QED
    BY <1>0, <2>1 DEF Handling
<1>7. ASSUME NEW g \in Handlers, ServerStep(g) \/ ServerFault(g) PROVE thread'[h] = thread[h]
  <2>1. g # h
    BY <1>0, <1>7, Effects
  <2> QED
    BY <1>0, <1>7, <2>1, OnlyOne
<1>8. CASE DataAgentDies
  BY <1>1, <1>8 DEF DataAgentDies, ServerDies
<1> QED
  BY <1>2, <1>4, <1>5, <1>6, <1>7, <1>8, LinkGroups

\* The pilot's call is the one of before, unless it is sent in this step.
LEMMA RunnerLink ==
    ASSUME IInv, Next, ~SendTelemetry, link'[Runner] \in Handlers
    PROVE  link'[Runner] = link[Runner]
<1>0. link \in [Callers -> Handlers \cup {None, Broken}] /\ Runner \in Callers
  BY SessionTypes DEF IInv
<1>1. CASE \E t \in Tools : SendAccess(t) \/ SendDownload(t)
  BY <1>0, <1>1, Named DEF SendAccess, SendDownload, Send
<1>2. ASSUME NEW c \in Callers, Gone(c) PROVE link'[Runner] = link[Runner]
  BY <1>0, <1>2, Named DEF Gone
<1>3. CASE DataAgentDies
  BY <1>0, <1>3, Named DEF DataAgentDies
<1> QED
  BY <1>1, <1>2, <1>3, LinkGroups

\* So its answer goes on to count, and one that becomes complete does.
LEMMA AnswerCountsStill ==
    ASSUME IInv, Next, UNCHANGED due
    PROVE  AnswerCounts'
<1> SUFFICES ASSUME link'[Runner] \in Handlers, thread'[link'[Runner]].complete
             PROVE  Counts(thread[link[Runner]].summary, thread[link[Runner]].access)'
  BY DEF AnswerCounts
<1>t. ServerTypeOK /\ ServerTypeOK' /\ ServerInv
  BY ServerStepKeeps, SessionIsServer DEF IInv, ServerInv
<1>1. ~SendTelemetry
  <2> SUFFICES ASSUME SendTelemetry PROVE FALSE
    OBVIOUS
  <2>1. /\ Send(Runner, "before", Asks(Runner)) /\ Runner \in Callers
        /\ FreeHandler \in Handlers
    BY SendTelemetryIs, SendIsReceive
  <2>2. /\ link'[Runner] = FreeHandler
        /\ thread'[FreeHandler] = [Idle EXCEPT !.pc = "before", !.open = TRUE, !.access = Asks(Runner)]
    BY <2>1, SessionTypes, ThreadType, <1>t DEF Send, Receive, IInv
  <2> QED
    BY <2>2, IdleType DEF Handling
<1>2. PICK h \in Handlers : h = link[Runner] /\ link'[Runner] = h
  BY <1>1, RunnerLink
<1>3. thread'[h].complete
  BY <1>2
<1>h. thread[h].access \in Accesses /\ thread[h].summary \in Figures
  BY <1>t, HandlerType DEF Handling, Figures
<1>4. CASE thread[h].complete
  <2>1. thread'[h].summary = thread[h].summary /\ thread'[h].access = thread[h].access
    BY <1>3, <1>4, CompleteKept
  <2>2. Counts(thread[h].summary, thread[h].access)
    BY <1>2, <1>4 DEF IInv, CollectedCounts, AnswerCounts
  <2>3. PICK a \in Accesses, f \in Figures : a = thread[h].access /\ f = thread[h].summary
    BY <1>h
  <2>4. f.requests + forgotten'[a] >= due'[a] /\ f.requests <= transferred'[a]
    BY <2>2, <2>3, CountsGrow DEF Counts
  <2>5. thread'[link'[Runner]].summary = f /\ thread'[link'[Runner]].access = a
    BY <1>2, <2>1, <2>3
  <2> QED
    BY <2>4, <2>5 DEF Counts
<1>5. CASE ~thread[h].complete
  <2>1. /\ thread[h].summary.requests + forgotten[thread[h].access] = transferred[thread[h].access]
        /\ thread'[h].summary = thread[h].summary /\ thread'[h].access = thread[h].access
        /\ UNCHANGED <<transferred, forgotten>>
    BY <1>t, <1>3, <1>5, CompleteStep, SessionIsServer
  <2>2. PICK a \in Accesses, f \in Figures : a = thread[h].access /\ f = thread[h].summary
    BY <1>h
  <2>3. f.requests + forgotten[a] >= due[a] /\ f.requests <= transferred[a]
    <3>1. /\ f.requests \in Nat /\ forgotten[a] \in Nat /\ transferred[a] \in Nat /\ due[a] \in Nat
          /\ due[a] <= transferred[a] /\ f.requests + forgotten[a] = transferred[a]
      BY <2>1, <2>2, CounterTypes DEF Figures
    <3> QED
      BY <3>1
  <2>4. f.requests + forgotten'[a] >= due'[a] /\ f.requests <= transferred'[a]
    BY <2>3, CountsGrow
  <2>5. thread'[link'[Runner]].summary = f /\ thread'[link'[Runner]].access = a
    BY <1>2, <2>1, <2>2
  <2> QED
    BY <2>4, <2>5 DEF Counts
<1> QED
  BY <1>4, <1>5

LEMMA DueBound ==
    ASSUME IInv, NEW a \in Accesses, due[a] > 0
    PROVE  a[1] < Len(events) /\ a[1] \in Nat
<1>1. due[a] \in Nat /\ due[a] <= transferred[a] /\ transferred[a] \in Nat
  BY SessionTypes DEF IInv, CollectedCounts, DueTransferred, ServerInv, ServerTypeOK
<1>2. transferred[a] > 0 /\ a[1] \in Nat
  BY <1>1, PilotAssumption
<1> QED
  BY <1>2 DEF IInv, EventsAreOrdered

\* The events of before are kept, and an accepted one that is new has no figures.
Extends ==
    /\ Len(events') \in Nat /\ Len(events) <= Len(events')
    /\ \A i \in 1 .. Len(events) : events'[i] = events[i]
    /\ Accepted \subseteq Accepted'
    /\ \A i \in Accepted' \ Accepted :
          /\ i > Len(events) /\ events'[i].figures = NoSummary
          /\ AccessOf(events'[i]) \in Accesses /\ AccessOf(events'[i])[1] = Len(events)

LEMMA SameExtends ==
    ASSUME IInv, events' = events
    PROVE  Extends
BY SessionTypes DEF IInv, Extends, Accepted

LEMMA AppendExtends ==
    ASSUME IInv, Next, NEW t \in Tools, RejectAccess(t) \/ AppendEvent(t)
    PROVE  Extends
<1>0. events \in Seq(Event) /\ Len(events) \in Nat /\ TypeOK /\ MaxEvents \in Nat
  BY SessionTypes DEF IInv
<1>1. t \in Accessing
  BY RejectedIs, AppendedIs, CallType DEF IInv, Accessing, FreeTools
<1>2. PICK e \in Event :
         /\ events' = Append(events, e) /\ e.index = Len(events)
         /\ e.accepted => e.figures = NoSummary
  BY RejectedIs, AppendedIs
<1>3. /\ Len(events') = Len(events) + 1 /\ events'[Len(events) + 1] = e
      /\ \A i \in 1 .. Len(events) : events'[i] = events[i]
  BY <1>0, <1>1, <1>2, AppendEvents, OpenBound
<1>4. Accepted' = IF e.accepted THEN Accepted \cup {Len(events) + 1} ELSE Accepted
  <2>1. AcceptedIn(Append(events, e))
          = IF e.accepted THEN AcceptedIn(events) \cup {Len(events) + 1} ELSE AcceptedIn(events)
    BY <1>0, AcceptedAppend
  <2> QED
    BY <1>2, <2>1, AcceptedIs
<1>5. AccessOf(e) \in Accesses /\ AccessOf(e)[1] = Len(events)
  <2>1. Len(events) \in 0 .. MaxEvents - 1 /\ e.rep \in Reps
    BY <1>0, <1>1, OpenBound DEF Event
  <2> QED
    BY <1>2, <2>1, PilotAssumption DEF AccessOf
<1>6. \A i \in Accepted' \ Accepted :
          /\ i > Len(events) /\ events'[i].figures = NoSummary
          /\ AccessOf(events'[i]) \in Accesses /\ AccessOf(events'[i])[1] = Len(events)
  <2> SUFFICES ASSUME NEW i \in Accepted', i \notin Accepted
               PROVE  /\ i > Len(events) /\ events'[i].figures = NoSummary
                      /\ AccessOf(events'[i]) \in Accesses /\ AccessOf(events'[i])[1] = Len(events)
    OBVIOUS
  <2>1. i = Len(events) + 1 /\ e.accepted
    BY <1>4
  <2> QED
    BY <1>0, <1>2, <1>3, <1>5, <2>1
<1> QED
  BY <1>0, <1>3, <1>4, <1>6 DEF Extends

\* The steps of everybody but the pilot and the workflow's end.
LEMMA StillCounts ==
    ASSUME IInv, Next, UNCHANGED <<runner, status, due>>, Extends
    PROVE  CollectedCounts'
<1>0. /\ Len(events) \in Nat /\ Len(events') \in Nat /\ Len(events) <= Len(events')
      /\ runner \in Running /\ CollectedCounts
      /\ \A i \in 1 .. Len(events) : events'[i] = events[i]
      /\ Accepted \subseteq 1 .. Len(events)
  BY SessionTypes, RunningType DEF IInv, Extends, Accepted
<1>d. DueTransferred'
  BY DueStep
<1>f. StartsAfresh'
  BY <1>0 DEF CollectedCounts, StartsAfresh
<1>a. AnswerCounts'
  BY AnswerCountsStill
<1>o. \A i \in Accepted : AccessOf(events[i]) \in Accesses /\ events[i] \in Event
  BY <1>0, AccessInAccesses, SessionTypes DEF IInv
<1>p. PendingCounts'
  <2> SUFFICES ASSUME runner.pc \in Reconciling
               PROVE  /\ runner.upto <= Len(events') /\ runner.next <= runner.upto + 1
                      /\ Len(runner.pending) = IF RunnerAt("write") THEN runner.upto ELSE runner.next - 1
                      /\ \A a \in Accesses : due[a] > 0 => a[1] < runner.upto
                      /\ \A i \in Accepted' : i <= Len(runner.pending) =>
                            Counts(runner.pending[i], AccessOf(events[i]))'
    BY DEF PendingCounts, RunnerAt
  <2>1. /\ runner.upto <= Len(events) /\ runner.next <= runner.upto + 1
        /\ Len(runner.pending) = IF RunnerAt("write") THEN runner.upto ELSE runner.next - 1
        /\ \A a \in Accesses : due[a] > 0 => a[1] < runner.upto
        /\ \A i \in Accepted : i <= Len(runner.pending) =>
              Counts(runner.pending[i], AccessOf(events[i]))
    BY <1>0 DEF CollectedCounts, PendingCounts
  <2>2. runner.upto \in Nat /\ runner.next \in Nat /\ Len(runner.pending) \in Nat
        /\ runner.pending \in Seq(Figures)
    BY <1>0 DEF Running, Figures
  <2>3. runner.upto <= Len(events')
    BY <1>0, <2>1, <2>2
  <2>4. Len(runner.pending) <= Len(events)
    BY <1>0, <2>1, <2>2
  <2>5. ASSUME NEW i \in Accepted', i <= Len(runner.pending)
        PROVE  Counts(runner.pending[i], AccessOf(events[i]))'
    <3>1. i \in Accepted
      <4>1. i \in Accepted \/ i > Len(events)
        BY DEF Extends
      <4>2. i \in Nat
        BY DEF Accepted
      <4> QED
        BY <1>0, <2>2, <2>4, <2>5, <4>1, <4>2
    <3>2. i \in 1 .. Len(runner.pending) /\ events'[i] = events[i]
      BY <1>0, <2>2, <2>5, <3>1
    <3>3. PICK a \in Accesses, f \in Figures : a = AccessOf(events[i]) /\ f = runner.pending[i]
      BY <1>o, <2>2, <3>1, <3>2, ElementOf
    <3>4. f.requests + forgotten[a] >= due[a] /\ f.requests <= transferred[a]
      BY <2>1, <2>5, <3>1, <3>3 DEF Counts
    <3>5. f.requests + forgotten'[a] >= due'[a] /\ f.requests <= transferred'[a]
      BY <3>4, CountsGrow
    <3>6. AccessOf(events'[i]) = a /\ runner'.pending[i] = f
      BY <3>2, <3>3 DEF AccessOf
    <3> QED
      BY <3>5, <3>6 DEF Counts
  <2> QED
    BY <2>1, <2>3, <2>5
<1>w. AwaitsAccepted'
  <2> SUFFICES ASSUME RunnerAt("await") PROVE runner.next <= runner.upto /\ events'[runner.next].accepted
    BY DEF AwaitsAccepted, RunnerAt
  <2>1. runner.next <= runner.upto /\ events[runner.next].accepted
    BY <1>0 DEF CollectedCounts, AwaitsAccepted
  <2>2. runner.upto <= Len(events) /\ runner.upto \in Nat /\ runner.next \in Nat \ {0}
    BY <1>0 DEF CollectedCounts, PendingCounts, Running, Reconciling, RunnerAt
  <2>3. runner.next \in 1 .. Len(events)
    BY <1>0, <2>1, <2>2
  <2> QED
    BY <1>0, <2>1, <2>3
<1>v. WrittenIsPending'
  <2> SUFFICES ASSUME RunnerAt("write"), NEW i \in Accepted', i < runner.next
               PROVE  events'[i].figures = runner.pending[i]
    BY DEF WrittenIsPending, RunnerAt
  <2>1. /\ runner.upto <= Len(events) /\ runner.upto \in Nat /\ runner.next \in Nat
        /\ runner.next <= runner.upto + 1
    BY <1>0 DEF CollectedCounts, PendingCounts, Running, Reconciling, RunnerAt
  <2>2. i \in Accepted
    <3>1. i \in Accepted \/ i > Len(events)
      BY DEF Extends
    <3>2. i \in Nat
      BY DEF Accepted
    <3> QED
      BY <1>0, <2>1, <3>1, <3>2
  <2>3. events'[i] = events[i] /\ events[i].figures = runner.pending[i]
    BY <1>0, <2>2 DEF CollectedCounts, WrittenIsPending
  <2> QED
    BY <2>3
<1>s. SuccessIsCounted'
  <2> SUFFICES ASSUME status = "DONE", NEW i \in Accepted'
               PROVE  LET a == AccessOf(events'[i])
                      IN  /\ events'[i].figures.requests + forgotten'[a] >= due'[a]
                          /\ events'[i].figures.requests <= transferred'[a]
    BY DEF SuccessIsCounted
  <2>1. CASE i \in Accepted
    <3>1. events'[i] = events[i] /\ events[i] \in Event
      BY <1>0, <1>o, <2>1
    <3>2. PICK a \in Accesses, f \in Figures : a = AccessOf(events[i]) /\ f = events[i].figures
      BY <1>o, <2>1, <3>1 DEF Event, Figures
    <3>3. f.requests + forgotten[a] >= due[a] /\ f.requests <= transferred[a]
      BY <1>0, <2>1, <3>2 DEF CollectedCounts, SuccessIsCounted
    <3>4. f.requests + forgotten'[a] >= due'[a] /\ f.requests <= transferred'[a]
      BY <3>3, CountsGrow
    <3> QED
      BY <3>1, <3>2, <3>4
  <2>2. CASE i \notin Accepted
    <3>1. /\ events'[i].figures.requests = 0
          /\ AccessOf(events'[i]) \in Accesses /\ AccessOf(events'[i])[1] = Len(events)
      BY <2>2 DEF Extends, NoSummary
    <3>2. PICK a \in Accesses : a = AccessOf(events'[i])
      BY <3>1
    <3>3. ~(due[a] > 0)
      BY <1>0, <3>1, <3>2, DueBound
    <3>4. due[a] \in Nat /\ forgotten'[a] \in Nat /\ transferred'[a] \in Nat /\ due'[a] = due[a]
      BY CounterTypes
    <3>5. 0 + forgotten'[a] >= due'[a] /\ 0 <= transferred'[a]
      BY <3>3, <3>4
    <3> QED
      BY <3>1, <3>2, <3>5
  <2> QED
    BY <2>1, <2>2
<1> QED
  BY <1>d, <1>f, <1>a, <1>p, <1>w, <1>v, <1>s DEF CollectedCounts

\* The end of the workflow: what is due now was not asked for before.
LEMMA EndCounts ==
    ASSUME IInv, Next, UNCHANGED <<runner, status, serverVars, events, link>>,
           mesh = "running"
    PROVE  CollectedCounts'
<1>1. runner.pc \notin Reconciling /\ status # "DONE"
  BY DEF IInv, RunnerAgrees
<1>2. link[Runner] = None
  BY <1>1 DEF IInv, LinksAreServed, RunnerAt, Reconciling
<1>3. AnswerCounts'
  BY <1>2, Named DEF AnswerCounts
<1>4. StartsAfresh'
  BY DEF StartsAfresh, IInv, CollectedCounts
<1> QED
  BY <1>1, <1>3, <1>4, DueStep DEF CollectedCounts, PendingCounts, AwaitsAccepted, WrittenIsPending,
      SuccessIsCounted, RunnerAt, Reconciling

\* What was collected goes on to count.
LEMMA CollectedGrow ==
    ASSUME IInv, Next, UNCHANGED due, runner.pc \in Reconciling,
           NEW i \in Accepted, i <= Len(runner.pending)
    PROVE  LET a == AccessOf(events[i])
           IN  /\ runner.pending[i].requests + forgotten'[a] >= due'[a]
               /\ runner.pending[i].requests <= transferred'[a]
<1>1. /\ runner \in Running /\ i \in 1 .. Len(events)
      /\ Counts(runner.pending[i], AccessOf(events[i]))
  BY RunningType DEF IInv, CollectedCounts, PendingCounts, Accepted
<1>2. runner.pending \in Seq(Figures) /\ i \in 1 .. Len(runner.pending)
  BY <1>1 DEF Running, Figures
<1>3. PICK a \in Accesses, f \in Figures : a = AccessOf(events[i]) /\ f = runner.pending[i]
  BY <1>1, <1>2, AccessInAccesses, ElementOf
<1>4. f.requests + forgotten[a] >= due[a] /\ f.requests <= transferred[a]
  BY <1>1, <1>3 DEF Counts
<1>5. f.requests + forgotten'[a] >= due'[a] /\ f.requests <= transferred'[a]
  BY <1>4, CountsGrow
<1> QED
  BY <1>3, <1>5

\* The pilot's progress while it reconciles.
LEMMA Progress ==
    ASSUME IInv, runner.pc \in Reconciling
    PROVE  /\ runner.next \in Nat \ {0} /\ runner.upto \in Nat /\ Len(events) \in Nat
           /\ runner.pending \in Seq(Figures) /\ Len(runner.pending) \in Nat
           /\ runner.upto <= Len(events) /\ runner.next <= runner.upto + 1
           /\ Len(runner.pending) = IF runner.pc = "write" THEN runner.upto ELSE runner.next - 1
           /\ \A a \in Accesses : due[a] > 0 => a[1] < runner.upto
           /\ status # "DONE"
<1>1. runner \in Running
  BY RunningType DEF IInv
<1> QED
  BY <1>1, SessionTypes DEF IInv, CollectedCounts, PendingCounts, RunnerAgrees, Running, Figures, RunnerAt,
      Reconciling

\* The pilot goes on with what it has.
LEMMA PendingStays ==
    ASSUME IInv, Next, UNCHANGED <<due, events>>, runner.pc \in Reconciling, runner.pc # "write",
           runner'.pc \in {"collect", "await", "polling"},
           runner'.next = runner.next, runner'.upto = runner.upto, runner'.pending = runner.pending
    PROVE  PendingCounts'
<1>1. ASSUME NEW i \in Accepted, i <= Len(runner'.pending)
      PROVE  Counts(runner.pending[i], AccessOf(events[i]))'
  <2>1. LET a == AccessOf(events[i])
        IN  /\ runner.pending[i].requests + forgotten'[a] >= due'[a]
            /\ runner.pending[i].requests <= transferred'[a]
    BY <1>1, CollectedGrow
  <2> QED
    BY <2>1 DEF Counts, AccessOf
<1>2. Accepted' = Accepted
  BY DEF Accepted
<1>3. /\ runner'.next <= runner'.upto + 1 /\ runner'.upto <= Len(events')
      /\ Len(runner'.pending) = runner'.next - 1
      /\ \A a \in Accesses : due'[a] > 0 => a[1] < runner'.upto
  BY Progress
<1> QED
  BY <1>1, <1>2, <1>3 DEF PendingCounts, RunnerAt

\* One more summary is collected.
LEMMA PendingAdds ==
    ASSUME IInv, Next, UNCHANGED <<due, events>>, runner.pc \in {"collect", "await"},
           runner.next <= runner.upto, NEW f \in Figures,
           runner'.pc = "collect", runner'.next = runner.next + 1, runner'.upto = runner.upto,
           runner'.pending = Append(runner.pending, f),
           runner.next \in Accepted =>
              LET a == AccessOf(events[runner.next])
              IN  f.requests + forgotten'[a] >= due'[a] /\ f.requests <= transferred'[a]
    PROVE  PendingCounts'
<1>1. /\ runner.next \in Nat \ {0} /\ runner.upto \in Nat /\ Len(events) \in Nat
      /\ runner.pending \in Seq(Figures) /\ Len(runner.pending) = runner.next - 1
      /\ runner.upto <= Len(events)
      /\ \A a \in Accesses : due[a] > 0 => a[1] < runner.upto
  BY Progress DEF Reconciling
<1>2. /\ Len(runner'.pending) = runner.next
      /\ runner'.pending[runner.next] = f
      /\ \A i \in 1 .. runner.next - 1 : runner'.pending[i] = runner.pending[i]
  BY <1>1
<1>3. Accepted' = Accepted /\ Accepted \subseteq 1 .. Len(events)
  BY DEF Accepted
<1>4. ASSUME NEW i \in Accepted, i <= Len(runner'.pending)
      PROVE  LET a == AccessOf(events[i])
             IN  /\ runner'.pending[i].requests + forgotten'[a] >= due'[a]
                 /\ runner'.pending[i].requests <= transferred'[a]
  <2>1. CASE i = runner.next
    BY <1>2, <2>1
  <2>2. CASE i # runner.next
    <3>1. i \in 1 .. runner.next - 1 /\ i <= Len(runner.pending)
      BY <1>1, <1>2, <1>3, <1>4, <2>2
    <3>2. LET a == AccessOf(events[i])
          IN  /\ runner.pending[i].requests + forgotten'[a] >= due'[a]
              /\ runner.pending[i].requests <= transferred'[a]
      BY <3>1, CollectedGrow DEF Reconciling
    <3> QED
      BY <1>2, <3>1, <3>2
  <2> QED
    BY <2>1, <2>2
<1>5. \A i \in Accepted' : i <= Len(runner'.pending) => Counts(runner.pending[i], AccessOf(events[i]))'
  BY <1>3, <1>4 DEF Counts, AccessOf
<1>6. runner'.next <= runner'.upto + 1 /\ runner'.upto <= Len(events')
      /\ Len(runner'.pending) = runner'.next - 1
  BY <1>1, <1>2
<1> QED
  BY <1>1, <1>5, <1>6 DEF PendingCounts, RunnerAt

\* The session that was not done goes on to be none.
LEMMA SuccessStill ==
    ASSUME IInv, Next, UNCHANGED <<due, events>>, status' = "DONE" => status = "DONE"
    PROVE  SuccessIsCounted'
<1> SUFFICES ASSUME status = "DONE", NEW i \in Accepted
             PROVE  LET a == AccessOf(events[i])
                    IN  /\ events[i].figures.requests + forgotten'[a] >= due'[a]
                        /\ events[i].figures.requests <= transferred'[a]
  BY DEF SuccessIsCounted, Accepted, AccessOf
<1>1. i \in 1 .. Len(events) /\ events[i] \in Event
  BY SessionTypes DEF Accepted, IInv
<1>2. PICK a \in Accesses, f \in Figures : a = AccessOf(events[i]) /\ f = events[i].figures
  BY <1>1, AccessInAccesses DEF Event, Figures
<1>3. f.requests + forgotten[a] >= due[a] /\ f.requests <= transferred[a]
  BY <1>2 DEF IInv, CollectedCounts, SuccessIsCounted
<1>4. f.requests + forgotten'[a] >= due'[a] /\ f.requests <= transferred'[a]
  BY <1>3, CountsGrow
<1> QED
  BY <1>2, <1>4

\* The pilot stops reconciling, or has not begun to.
LEMMA ElsewhereCounts ==
    ASSUME IInv, Next, UNCHANGED <<due, events>>, status' = "DONE" => status = "DONE",
           runner'.pc \notin Reconciling, StartsAfresh'
    PROVE  CollectedCounts'
BY DueStep, AnswerCountsStill, SuccessStill
   DEF CollectedCounts, PendingCounts, AwaitsAccepted, WrittenIsPending, RunnerAt, Reconciling

\* It goes on with the collection.
LEMMA CollectingCounts ==
    ASSUME IInv, Next, UNCHANGED <<due, events, status>>,
           runner'.pc \in {"collect", "await", "polling"}, PendingCounts',
           runner'.pc = "await" => runner'.next <= runner'.upto /\ events[runner'.next].accepted
    PROVE  CollectedCounts'
BY DueStep, AnswerCountsStill, SuccessStill
   DEF CollectedCounts, StartsAfresh, AwaitsAccepted, WrittenIsPending, RunnerAt

\* The events are listed: every transfer that is due is of one of them.
LEMMA EndedCounts ==
    ASSUME IInv, Next, WorkflowEnded
    PROVE  CollectedCounts'
<1>0. /\ UNCHANGED <<due, events, status>> /\ runner.pc = "wait" /\ runner \in Running
      /\ runner' = [runner EXCEPT !.pc = IF mesh = "done" THEN "collect" ELSE "fail", !.upto = Len(events)]
      /\ Len(events) \in Nat /\ runner.next = 1 /\ runner.pending = <<>>
  BY RunningType, SessionTypes DEF WorkflowEnded, RunnerUnchanged, RunnerAt, IInv, CollectedCounts, StartsAfresh
<1>1. /\ runner'.pc = IF mesh = "done" THEN "collect" ELSE "fail"
      /\ runner'.next = 1 /\ runner'.pending = <<>> /\ runner'.upto = Len(events)
  BY <1>0 DEF Running
<1>2. CASE runner'.pc = "fail"
  BY <1>0, <1>2, ElsewhereCounts DEF Reconciling, StartsAfresh
<1>3. CASE runner'.pc = "collect"
  <2>1. \A a \in Accesses : due'[a] > 0 => a[1] < runner'.upto
    BY <1>0, <1>1, DueBound
  <2>2. \A i \in Accepted' : ~(i <= Len(runner'.pending))
    BY <1>1 DEF Accepted
  <2>3. PendingCounts'
    BY <1>0, <1>1, <1>3, <2>1, <2>2 DEF PendingCounts, RunnerAt
  <2> QED
    BY <1>0, <1>3, <2>3, CollectingCounts
<1> QED
  BY <1>1, <1>2, <1>3

LEMMA SkipCounts ==
    ASSUME IInv, Next, SkipRefused
    PROVE  CollectedCounts'
<1>0. /\ UNCHANGED <<due, events, status>> /\ runner.pc = "collect" /\ runner \in Running
      /\ runner' = [runner EXCEPT !.next = @ + 1, !.pending = Append(@, NoSummary)]
      /\ ~(runner.next > runner.upto) /\ ~events[runner.next].accepted
  BY RunningType DEF SkipRefused, RunnerUnchanged, RunnerAt, IInv, Collected
<1>1. /\ runner'.pc = "collect" /\ runner'.next = runner.next + 1 /\ runner'.upto = runner.upto
      /\ runner'.pending = Append(runner.pending, NoSummary)
  BY <1>0 DEF Running
<1>2. NoSummary \in Figures /\ runner.next \notin Accepted
  BY <1>0 DEF NoSummary, Figures, Accepted
<1>3. runner.next <= runner.upto
  BY <1>0, Progress DEF Reconciling
<1>4. PendingCounts'
  BY <1>0, <1>1, <1>2, <1>3, PendingAdds
<1> QED
  BY <1>0, <1>1, <1>4, CollectingCounts

\* A complete answer counts, and what it is about is the event it is taken for.
LEMMA AnsweredCounts ==
    ASSUME IInv, Next, TelemetryAnswered
    PROVE  CollectedCounts'
<1>0. /\ UNCHANGED <<due, events, status>> /\ runner.pc = "await" /\ runner \in Running
      /\ runner' = IF Answer(Runner).response = 0 THEN [runner EXCEPT !.pc = "fail"]
                   ELSE IF Answer(Runner).complete
                   THEN [runner EXCEPT !.pc = "collect", !.next = @ + 1,
                                       !.pending = Append(@, Answer(Runner).summary)]
                   ELSE [runner EXCEPT !.pc = "polling"]
      /\ link[Runner] \in Handlers
  BY RunningType DEF TelemetryAnswered, RunnerAt, IInv, Final, Answered, gatewayVars
<1>1. CASE runner' = [runner EXCEPT !.pc = "fail"]
  <2>1. runner'.pc = "fail"
    BY <1>0, <1>1 DEF Running
  <2> QED
    BY <1>0, <2>1, ElsewhereCounts DEF Reconciling, StartsAfresh
<1>2. CASE runner' = [runner EXCEPT !.pc = "polling"]
  <2>1. /\ runner'.pc = "polling" /\ runner'.next = runner.next /\ runner'.upto = runner.upto
        /\ runner'.pending = runner.pending
    BY <1>0, <1>2 DEF Running
  <2>2. PendingCounts'
    BY <1>0, <2>1, PendingStays DEF Reconciling
  <2> QED
    BY <1>0, <2>1, <2>2, CollectingCounts
<1>3. CASE Answer(Runner).complete /\
           runner' = [runner EXCEPT !.pc = "collect", !.next = @ + 1,
                                    !.pending = Append(@, Answer(Runner).summary)]
  <2>1. /\ runner'.pc = "collect" /\ runner'.next = runner.next + 1 /\ runner'.upto = runner.upto
        /\ runner'.pending = Append(runner.pending, Answer(Runner).summary)
    BY <1>0, <1>3 DEF Running
  <2>2. runner.next <= runner.upto
    BY <1>0 DEF IInv, CollectedCounts, AwaitsAccepted, RunnerAt
  <2>3. thread[link[Runner]].access = AccessOf(events[runner.next])
    BY <1>0, SessionTypes DEF IInv, LinksAreServed, IsServed, Asks
  <2>4. Counts(thread[link[Runner]].summary, thread[link[Runner]].access)
    BY <1>0, <1>3 DEF IInv, CollectedCounts, AnswerCounts, Answer
  <2>5. runner.next \in 1 .. Len(events)
    BY <1>0, <2>2, Progress DEF Reconciling
  <2>6. PICK a \in Accesses, f \in Figures :
           a = AccessOf(events[runner.next]) /\ f = thread[link[Runner]].summary
    BY <1>0, <2>5, AccessInAccesses, HandlerType DEF IInv, ServerInv, Handling, Figures
  <2>7. f.requests + forgotten[a] >= due[a] /\ f.requests <= transferred[a]
    BY <2>3, <2>4, <2>6 DEF Counts
  <2>8. f.requests + forgotten'[a] >= due'[a] /\ f.requests <= transferred'[a]
    BY <1>0, <2>7, CountsGrow
  <2>9. runner'.pending = Append(runner.pending, f)
    BY <2>1, <2>6 DEF Answer
  <2>a. PendingCounts'
    BY <1>0, <2>1, <2>2, <2>6, <2>8, <2>9, PendingAdds
  <2> QED
    BY <1>0, <2>1, <2>a, CollectingCounts
<1> QED
  BY <1>0, <1>1, <1>2, <1>3

LEMMA StartCounts ==
    ASSUME IInv, Next, StartWriting
    PROVE  CollectedCounts'
<1>0. /\ UNCHANGED <<due, events, status>> /\ runner.pc = "collect" /\ runner \in Running
      /\ runner' = [runner EXCEPT !.pc = "write", !.next = 1] /\ runner.next > runner.upto
  BY RunningType DEF StartWriting, RunnerUnchanged, RunnerAt, IInv, Collected
<1>1. /\ runner'.pc = "write" /\ runner'.next = 1 /\ runner'.upto = runner.upto
      /\ runner'.pending = runner.pending
  BY <1>0 DEF Running
<1>2. /\ runner.next \in Nat \ {0} /\ runner.upto \in Nat /\ Len(events) \in Nat
      /\ runner.upto <= Len(events) /\ runner.next <= runner.upto + 1
      /\ Len(runner.pending) = runner.next - 1
      /\ \A a \in Accesses : due[a] > 0 => a[1] < runner.upto
  BY <1>0, Progress DEF Reconciling
<1>3. Len(runner'.pending) = runner'.upto /\ runner'.next <= runner'.upto + 1 /\ runner'.upto <= Len(events')
  BY <1>0, <1>1, <1>2
<1>4. ASSUME NEW i \in Accepted, i <= Len(runner'.pending)
      PROVE  Counts(runner.pending[i], AccessOf(events[i]))'
  <2>1. LET a == AccessOf(events[i])
        IN  /\ runner.pending[i].requests + forgotten'[a] >= due'[a]
            /\ runner.pending[i].requests <= transferred'[a]
    BY <1>0, <1>1, <1>4, CollectedGrow DEF Reconciling
  <2> QED
    BY <1>0, <1>1, <2>1 DEF Counts, AccessOf
<1>5. Accepted' = Accepted
  BY <1>0 DEF Accepted
<1>6. PendingCounts'
  BY <1>0, <1>1, <1>2, <1>3, <1>4, <1>5 DEF PendingCounts, RunnerAt
<1>7. WrittenIsPending'
  <2>1. \A i \in Accepted' : ~(i < runner'.next)
    BY <1>1 DEF Accepted
  <2> QED
    BY <2>1 DEF WrittenIsPending
<1> QED
  BY <1>0, <1>1, <1>6, <1>7, DueStep, AnswerCountsStill, SuccessStill
     DEF CollectedCounts, StartsAfresh, AwaitsAccepted, RunnerAt

\* One more event gets its figures.
LEMMA UpdateCounts ==
    ASSUME IInv, Next, UpdateTelemetry
    PROVE  CollectedCounts'
<1>0. /\ UNCHANGED <<due, status>> /\ runner.pc = "write" /\ runner \in Running
      /\ runner' = [runner EXCEPT !.next = @ + 1] /\ ~(runner.next > runner.upto)
  BY RunningType DEF UpdateTelemetry, RunnerAt, IInv, Written
<1>1. /\ runner'.pc = "write" /\ runner'.next = runner.next + 1 /\ runner'.upto = runner.upto
      /\ runner'.pending = runner.pending
  BY <1>0 DEF Running
<1>2. /\ runner.next \in Nat \ {0} /\ runner.upto \in Nat /\ Len(events) \in Nat
      /\ runner.upto <= Len(events) /\ Len(runner.pending) = runner.upto
      /\ \A a \in Accesses : due[a] > 0 => a[1] < runner.upto
      /\ status # "DONE"
  BY <1>0, Progress DEF Reconciling
<1>3. /\ Alike /\ events'[runner.next].figures = runner.pending[runner.next]
      /\ \A i \in 1 .. Len(events) : i # runner.next => events'[i] = events[i]
  BY UpdateIsAlike
<1>4. Accepted' = Accepted /\ Len(events') = Len(events) /\ Accepted \subseteq 1 .. Len(events)
  BY <1>3, AlikeSame DEF IInv, Accepted
<1>5. \A i \in Accepted : AccessOf(events'[i]) = AccessOf(events[i])
  BY <1>3, <1>4 DEF Alike, AccessOf
<1>6. ASSUME NEW i \in Accepted, i <= Len(runner'.pending)
      PROVE  Counts(runner.pending[i], AccessOf(events[i]))'
  <2>1. LET a == AccessOf(events[i])
        IN  /\ runner.pending[i].requests + forgotten'[a] >= due'[a]
            /\ runner.pending[i].requests <= transferred'[a]
    BY <1>0, <1>1, <1>6, CollectedGrow DEF Reconciling
  <2>2. AccessOf(events'[i]) = AccessOf(events[i])
    BY <1>5
  <2> QED
    BY <1>1, <2>1, <2>2 DEF Counts, AccessOf
<1>7. /\ Len(runner'.pending) = runner'.upto /\ runner'.next <= runner'.upto + 1
      /\ runner'.upto <= Len(events')
  BY <1>0, <1>1, <1>2, <1>4
<1>8. PendingCounts'
  BY <1>0, <1>1, <1>2, <1>4, <1>6, <1>7 DEF PendingCounts, RunnerAt
<1>9. WrittenIsPending'
  <2> SUFFICES ASSUME NEW i \in Accepted, i < runner.next + 1
               PROVE  events'[i].figures = runner.pending[i]
    BY <1>1, <1>4 DEF WrittenIsPending
  <2>1. CASE i = runner.next
    BY <1>3, <2>1
  <2>2. CASE i # runner.next
    <3>1. i < runner.next
      BY <1>2, <1>4, <2>2
    <3>2. events[i].figures = runner.pending[i]
      BY <1>0, <3>1 DEF IInv, CollectedCounts, WrittenIsPending, RunnerAt
    <3> QED
      BY <1>3, <1>4, <2>2, <3>2
  <2> QED
    BY <2>1, <2>2
<1> QED
  BY <1>0, <1>1, <1>2, <1>8, <1>9, DueStep, AnswerCountsStill
     DEF CollectedCounts, StartsAfresh, AwaitsAccepted, SuccessIsCounted, RunnerAt

\* A session is done when every event that was listed has its figures, whether the
\* pilot learns of it or not; one that came later has nothing due.
LEMMA DoneCounts ==
    ASSUME IInv, Next, FinishDone \/ FinishDoneFails
    PROVE  CollectedCounts'
<1>0. /\ UNCHANGED <<due, events>> /\ runner.pc = "write" /\ runner \in Running
      /\ runner.next > runner.upto
      /\ \/ runner' = [runner EXCEPT !.pc = "record", !.ok = TRUE]
         \/ runner' = [runner EXCEPT !.pc = "fail"]
  BY RunningType DEF FinishDone, FinishDoneFails, RunnerGoto, RunnerUnchanged, RunnerAt, IInv, Written
<1>1. runner'.pc \in {"record", "fail"}
  BY <1>0 DEF Running
<1>2. /\ runner.next \in Nat \ {0} /\ runner.upto \in Nat
      /\ Len(runner.pending) = runner.upto
      /\ \A a \in Accesses : due[a] > 0 => a[1] < runner.upto
  BY <1>0, Progress DEF Reconciling
<1>3. SuccessIsCounted'
  <2> SUFFICES ASSUME NEW i \in Accepted
               PROVE  LET a == AccessOf(events[i])
                      IN  /\ events[i].figures.requests + forgotten'[a] >= due'[a]
                          /\ events[i].figures.requests <= transferred'[a]
    BY <1>0 DEF SuccessIsCounted, Accepted, AccessOf
  <2>1. i \in 1 .. Len(events) /\ AccessOf(events[i]) \in Accesses /\ AccessOf(events[i])[1] = i - 1
        /\ events[i] \in Event /\ i \in Nat
    BY AccessInAccesses, SessionTypes DEF Accepted, IInv
  <2>2. CASE i <= runner.upto
    <3>1. LET a == AccessOf(events[i])
          IN  /\ runner.pending[i].requests + forgotten'[a] >= due'[a]
              /\ runner.pending[i].requests <= transferred'[a]
      BY <1>0, <1>2, <2>2, CollectedGrow DEF Reconciling
    <3>2. i < runner.next
      BY <1>0, <1>2, <2>1, <2>2
    <3>3. events[i].figures = runner.pending[i]
      BY <1>0, <3>2 DEF IInv, CollectedCounts, WrittenIsPending, RunnerAt
    <3> QED
      BY <3>1, <3>3
  <2>3. CASE ~(i <= runner.upto)
    <3>1. PICK a \in Accesses, f \in Figures : a = AccessOf(events[i]) /\ f = events[i].figures
      BY <2>1 DEF Event, Figures
    <3>2. ~(due[a] > 0)
      BY <1>2, <2>1, <2>3, <3>1
    <3>3. f.requests <= transferred[a]
      BY <3>1 DEF IInv, EventsAreOrdered
    <3>4. f.requests + forgotten[a] >= due[a]
      BY <3>2, CounterTypes DEF Figures
    <3>5. f.requests + forgotten'[a] >= due'[a] /\ f.requests <= transferred'[a]
      BY <1>0, <3>3, <3>4, CountsGrow
    <3> QED
      BY <3>1, <3>5
  <2> QED
    BY <2>2, <2>3
<1> QED
  BY <1>0, <1>1, <1>3, DueStep, AnswerCountsStill
     DEF CollectedCounts, StartsAfresh, PendingCounts, AwaitsAccepted, WrittenIsPending, RunnerAt, Reconciling

LEMMA CollectStep ==
    ASSUME IInv, Next
    PROVE  CollectedCounts'
<1>t. runner \in Running /\ status \in {"NONE", "CREATED", "RUNNING", "DONE", "FAILED"}
  BY RunningType, SessionTypes DEF IInv
<1>1. CASE UNCHANGED <<runner, status>> /\ UNCHANGED due /\ ~UpdateTelemetry
  <2>1. CASE events' = events
    BY <1>1, <2>1, SameExtends, StillCounts
  <2>2. CASE \E t \in Tools : RejectAccess(t) \/ AppendEvent(t)
    BY <1>1, <2>2, AppendExtends, StillCounts
  <2> QED
    BY <1>1, <2>1, <2>2, EventGroups
<1>2. CASE UNCHANGED <<runner, status, serverVars, events, link>> /\ mesh = "running"
  BY <1>2, EndCounts
<1>3. CASE WorkflowEnded
  BY <1>3, EndedCounts
<1>4. CASE SkipRefused
  BY <1>4, SkipCounts
<1>5. CASE TelemetryAnswered
  BY <1>5, AnsweredCounts
<1>6. CASE StartWriting
  BY <1>6, StartCounts
<1>7. CASE UpdateTelemetry
  BY <1>7, UpdateCounts
<1>8. CASE FinishDone \/ FinishDoneFails
  BY <1>8, DoneCounts
\* The steps that leave the events and the status of a session that is not done.
<1>f. CASE RecoverFails
  <2>1. UNCHANGED <<due, events, status>> /\ runner'.pc = "unsaved"
    BY <1>f, NoRunType DEF RecoverFails, RunnerUnchanged, Running
  <2> QED
    BY <2>1, ElsewhereCounts DEF StartsAfresh, Reconciling
<1>a. CASE Recover
  <2>1. /\ UNCHANGED <<due, events, status>>
        /\ \E label \in RunnerSteps : runner' = [NoRun EXCEPT !.pc = label, !.ok = (status = "DONE")]
                                   /\ label \notin Reconciling
    BY <1>a, <1>t DEF Recover, RunnerUnchanged, RunnerSteps, Reconciling
  <2>2. runner'.next = 1 /\ runner'.pending = <<>> /\ runner'.pc \notin Reconciling
    BY <2>1, NoRunType DEF Running
  <2> QED
    BY <2>1, <2>2, ElsewhereCounts DEF StartsAfresh
<1>b. CASE RegisterSession \/ Submit \/ SubmitFails \/ BindFlowmesh
  <2>1. /\ UNCHANGED <<due, events>> /\ runner.pc \in {"register", "submit", "bind"}
        /\ status' # "DONE" \/ status' = status
        /\ RunnerGoto("submit") \/ RunnerGoto("bind") \/ RunnerGoto("fail") \/ RunnerGoto("wait")
    BY <1>b DEF RegisterSession, Submit, SubmitFails, BindFlowmesh, RunnerUnchanged, RunnerAt
  <2>2. /\ runner'.next = runner.next /\ runner'.pending = runner.pending
        /\ runner'.pc \in {"submit", "bind", "fail", "wait"}
    BY <1>t, <2>1, RunnerGoes DEF RunnerSteps
  <2>3. runner.next = 1 /\ runner.pending = <<>>
    BY <2>1 DEF IInv, CollectedCounts, StartsAfresh
  <2> QED
    BY <2>1, <2>2, <2>3, ElsewhereCounts DEF StartsAfresh, Reconciling
<1>c. CASE PinningFails \/ QuiescenceDeadline \/ TelemetryLost \/ TelemetryBroken \/ UpdateFails
           \/ RetrieveFails \/ FinishFailed \/ Record \/ BindFails \/ FinishFails
  <2>1. /\ UNCHANGED <<due, events>>
        /\ status' # "DONE" \/ status' = status
        /\ RunnerGoto("fail") \/ RunnerGoto("record") \/ RunnerGoto("unsaved") \/ RunnerGoto("over")
    BY <1>c DEF PinningFails, QuiescenceDeadline, TelemetryLost, TelemetryBroken, UpdateFails,
        RetrieveFails, FinishFailed, Record, BindFails, FinishFails, RunnerUnchanged, gatewayVars
  <2>2. runner'.pc \in {"fail", "record", "unsaved", "over"}
    BY <1>t, <2>1, RunnerGoes DEF RunnerSteps
  <2> QED
    BY <2>1, <2>2, ElsewhereCounts DEF StartsAfresh, Reconciling
<1>d. CASE RunnerDies
  <2>1. UNCHANGED <<due, events, status>> /\ runner'.pc = "down"
    BY <1>d, NoRunType DEF RunnerDies, gatewayVars
  <2> QED
    BY <2>1, ElsewhereCounts DEF StartsAfresh, Reconciling
<1>e. CASE SendTelemetry \/ Poll \/ TelemetryRetried
  <2>1. /\ UNCHANGED <<due, events, status>> /\ runner.pc \in {"collect", "await", "polling"}
        /\ (RunnerGoto("await") /\ SendTelemetry) \/ RunnerGoto("collect")
    BY <1>e DEF SendTelemetry, Poll, TelemetryRetried, RunnerUnchanged, RunnerAt, gatewayVars
  <2>2. /\ runner'.next = runner.next /\ runner'.pending = runner.pending /\ runner'.upto = runner.upto
        /\ runner'.pc = "collect" \/ (runner'.pc = "await" /\ SendTelemetry)
    BY <1>t, <2>1, RunnerGoes DEF RunnerSteps
  <2>3. PendingCounts'
    BY <2>1, <2>2, PendingStays DEF Reconciling
  <2>4. SendTelemetry => runner.next <= runner.upto /\ events[runner.next].accepted
    <3> SUFFICES ASSUME SendTelemetry PROVE runner.next <= runner.upto /\ events[runner.next].accepted
      OBVIOUS
    <3>1. ~(runner.next > runner.upto) /\ events[runner.next].accepted /\ runner.pc = "collect"
      BY DEF SendTelemetry, Collected, RunnerAt
    <3> QED
      BY <3>1, Progress DEF Reconciling
  <2> QED
    BY <2>1, <2>2, <2>3, <2>4, CollectingCounts
<1>9. CASE RunnerStep \/ QuiescenceDeadline \/ RunnerFault
  BY <1>3, <1>4, <1>5, <1>6, <1>7, <1>8, <1>9, <1>a, <1>b, <1>c, <1>d, <1>e, <1>f DEF RunnerStep, RunnerFault
<1> QED
  BY <1>1, <1>2, <1>7, <1>9, RunnerGroups
-----------------------------------------------------------------------------
(* The invariant, and what follows from it.                                *)

LEMMA FaultStep ==
    ASSUME TypeOK, Next
    PROVE  faults' \in 0 .. MaxFaults
<1>0. faults \in 0 .. MaxFaults /\ MaxFaults \in Nat
  BY SessionTypes DEF TypeOK
<1>f. Fault \/ UNCHANGED faults
  <2>1. ASSUME NEW t \in Tools, ToolStep(t) \/ ToolFault(t) PROVE Fault \/ UNCHANGED faults
    BY <2>1 DEF ToolStep, ToolFault, AdmitAccess, RejectAccess, AdmitFetch, RejectFetch, SendAccess,
        AccessAnswered, AppendEvent, SendDownload, BodyReceived, ConnectionBroken, Break,
        AccessRetried, AccessLost, DownloadLost, StoreFails, Retry, GiveUp, TimesOut
  <2>2. CASE (\E rep \in Reps : AgentAccess(rep)) \/ (\E i \in Accepted : AgentFetch(i))
    BY <2>2 DEF AgentAccess, AgentFetch, AgentCalls
  <2>3. CASE MeshDone \/ MeshFails \/ GatewayDies \/ DataAgentDies \/ Over
    BY <2>3 DEF MeshDone, MeshFails, GatewayDies, DataAgentDies, Over, vars
  <2>4. CASE \E h \in Handlers : HandlerStep(h) \/ HandlerFault(h)
    BY <2>4 DEF HandlerStep, HandlerFault
  <2>5. CASE RunnerStep \/ QuiescenceDeadline
    BY <2>5 DEF RunnerStep, QuiescenceDeadline, Recover, RegisterSession, Submit, BindFlowmesh,
        WorkflowEnded, SkipRefused, SendTelemetry, TelemetryAnswered, Poll, StartWriting,
        UpdateTelemetry, FinishDone, FinishFailed, Record, TelemetryBroken, Break
  <2>6. CASE RunnerFault
    BY <2>6 DEF RunnerFault, PinningFails, SubmitFails, BindFails, RetrieveFails, TelemetryRetried,
        TelemetryLost, UpdateFails, FinishDoneFails, FinishFails, RecoverFails, RunnerDies,
        Retry, GiveUp, TimesOut
  <2> QED
    BY <2>1, <2>2, <2>3, <2>4, <2>5, <2>6 DEF Next
<1> QED
  BY <1>0, <1>f DEF Fault

\* The parts of the types are the types.
LEMMA TypeParts ==
    ASSUME ServerTypeOK', GateTypeOK', LinkTypeOK', RunnerPart', faults' \in 0 .. MaxFaults,
           due' \in [Accesses -> Nat]
    PROVE  TypeOK' /\ RunnerTypeOK' /\ RunnerAgrees'
<1>1. runner' \in Running /\ OutcomeTypeOK' /\ RunnerAgrees'
  BY DEF RunnerPart
<1>2. RunnerTypeOK'
  BY <1>1 DEF RunnerTypeOK, Running, RunnerSteps
<1>3. runner'.pc \in RunnerSteps
  BY <1>1 DEF Running
<1> QED
  BY <1>1, <1>2, <1>3 DEF TypeOK, GateTypeOK, LinkTypeOK, OutcomeTypeOK, Calling, RunnerSteps

LEMMA IInvStep ==
    ASSUME IInv, Next
    PROVE  IInv'
<1>1. ServerInv' /\ ServerTypeOK'
  BY ServerStepKeeps, SessionIsServer DEF IInv, ServerInv
<1>2. GateTypeOK' /\ GateIsHeld'
  BY GateStep
<1>3. LinkTypeOK' /\ LinksAreServed'
  BY LinkTypeStep, LinkStep
<1>4. RunnerPart' /\ due' \in [Accesses -> Nat] /\ CollectedCounts'
  BY RunnerPartStep, DueStep, CollectStep
<1>5. TypeOK' /\ RunnerTypeOK' /\ RunnerAgrees'
  BY <1>1, <1>2, <1>3, <1>4, FaultStep, TypeParts DEF IInv
<1> QED
  BY <1>1, <1>2, <1>3, <1>4, <1>5, EventStep DEF IInv

LEMMA IInvStill ==
    ASSUME IInv, UNCHANGED vars
    PROVE  IInv'
<1>0. /\ UNCHANGED serverVars
      /\ UNCHANGED <<status, events, gateLock, tool, link, attempt, mesh, runner, recorded,
                     submissions, due, faults>>
  BY DEF vars, gatewayVars, clientVars, runnerVars
<1>1. UNCHANGED <<operations, rows, inFlight, generation, entries, references, locked, thread,
                  executions, transferred, forgotten>>
  BY <1>0 DEF serverVars
<1>2. ServerInv' /\ ServerTypeOK'
  BY <1>0, ServerStepKeeps DEF IInv, ServerInv, ServerNext
<1>3. TypeOK' /\ RunnerTypeOK'
  BY <1>0, <1>2 DEF IInv, TypeOK, RunnerTypeOK
<1>4. LinksAreServed'
  BY <1>0, <1>1 DEF IInv, LinksAreServed, IsServed, At, Asks, AccessOf, RequestOf, RunnerAt
<1>5. Accepted' = Accepted /\ Spent' = Spent /\ Open(FALSE)' = Open(FALSE)
  BY <1>0, SpentIs DEF Accepted, Open, FreeTools
<1>6. GateIsHeld'
  <2>1. \A t \in Tools : GateFits(t)'
    BY <1>0, <1>1, <1>5 DEF IInv, GateIsHeld, GateFits, Affordable, RequestOf
  <2>2. Len(events') + Open(FALSE)' <= MaxEvents
    BY <1>0, <1>5 DEF IInv, GateIsHeld
  <2> QED
    BY <2>1, <2>2 DEF GateIsHeld
<1>7. EventsAreOrdered'
  BY <1>0, <1>1, <1>5 DEF IInv, EventsAreOrdered, EventsAreOperations, AccessOf, At
<1>8. RunnerAgrees'
  BY <1>0 DEF IInv, RunnerAgrees, RecordAgrees, RunnerAt
<1>9. CollectedCounts'
  BY <1>0, <1>1, <1>5 DEF IInv, CollectedCounts, DueTransferred, StartsAfresh, PendingCounts,
      AwaitsAccepted, AnswerCounts, WrittenIsPending, SuccessIsCounted, Counts, AccessOf, RunnerAt
<1> QED
  BY <1>2, <1>3, <1>4, <1>6, <1>7, <1>8, <1>9 DEF IInv

LEMMA IInvInit == Init => IInv
<1> SUFFICES ASSUME Init PROVE IInv
  OBVIOUS
<1>0. /\ ServerInit /\ status = "NONE" /\ events = <<>> /\ gateLock = None
      /\ tool = [t \in Tools |-> NoCall] /\ link = [c \in Callers |-> None]
      /\ attempt = [c \in Callers |-> 0] /\ mesh = "none" /\ runner = NoRun /\ recorded = "none"
      /\ faults = 0 /\ submissions = 0 /\ due = [a \in Accesses |-> 0]
      /\ Len(events) = 0 /\ Accepted = {}
  <2>1. Len(<<>>) = 0 /\ 1 .. 0 = {}
    OBVIOUS
  <2> QED
    BY <2>1 DEF Init, Accepted
<1>i. Idle.pc = "idle" /\ Idle \in Handling /\ ~Idle.complete /\ Idle.response = 0
  BY IdleType DEF Idle
<1>1. ServerInv
  <2>0. /\ thread = [h \in Handlers |-> Idle] /\ entries = [a \in Accesses |-> 0]
        /\ references = [e \in EntryIds |-> 0] /\ rows = [a \in Accesses |-> NoSummary]
        /\ inFlight = [a \in Accesses |-> 0] /\ forgotten = [a \in Accesses |-> 0]
        /\ transferred = [a \in Accesses |-> 0]
    BY <1>0 DEF ServerInit
  <2>h. \A h \in Handlers : thread[h] = Idle
    BY <2>0
  <2>1. ServerTypeOK
    BY <1>0, <1>i DEF ServerInit, ServerTypeOK, Handling, NoSummary
  <2>2. PoolIsExact
    <3>1. \A e \in EntryIds : Sharing(e) = {}
      BY <1>i, <2>h DEF Sharing, Pooled, PooledSteps
    <3>2. \A e \in EntryIds : references[e] = Cardinality(Sharing(e))
      BY <2>0, <3>1, FS_EmptySet
    <3> QED
      BY <1>i, <2>0, <2>h, <3>2 DEF PoolIsExact, Pooled, PooledSteps, Holding, HoldingSteps
  <2>3. TransfersReserved
    <3>1. \A a \in Accesses : Releasing(a) = {} /\ Transferring(a) = {}
      BY <1>i, <2>h DEF Releasing, Transferring, TransferSteps, At
    <3>2. \A a \in Accesses : Cardinality(Releasing(a)) = 0 /\ Cardinality(Transferring(a)) = 0
      BY <3>1, FS_EmptySet
    <3>3. \A a \in Accesses : rows[a].requests = 0 /\ inFlight[a] = 0 /\ forgotten[a] = 0 /\ transferred[a] = 0
      BY <2>0 DEF NoSummary
    <3> QED
      BY <3>2, <3>3 DEF TransfersReserved, TransfersAccounted
  <2>4. AnswersAreStored /\ CompleteIsAnswered /\ MarksHold
    BY <1>i, <2>h DEF AnswersAreStored, IsStored, CompleteIsAnswered, MarksHold, MarkHolds
  <2> QED
    BY <2>1, <2>2, <2>3, <2>4 DEF ServerInv
<1>n. /\ {Budget, MaxAccesses, MaxRetries, MaxEvents, MaxFaults} \subseteq Nat
  BY PilotAssumption
<1>2. TypeOK /\ RunnerTypeOK
  <2>1. RunnerTypeOK /\ runner.pc \in RunnerSteps
    BY <1>0, NoRunType, RunningType DEF Running
  <2>2. tool \in [Tools -> Calling]
    BY <1>0, NoCallType
  <2>3. events \in Seq(Event) /\ Len(events) <= MaxEvents
    BY <1>0, <1>n
  <2>4. /\ link \in [Callers -> Handlers \cup {None, Broken}] /\ attempt \in [Callers -> 0 .. MaxRetries]
        /\ faults \in 0 .. MaxFaults /\ due \in [Accesses -> Nat] /\ submissions \in Nat
    BY <1>0, <1>n
  <2> QED
    BY <1>0, <1>1, <2>1, <2>2, <2>3, <2>4 DEF TypeOK, ServerInv, Calling, RunnerSteps
<1>3. LinksAreServed
  BY <1>0, Named DEF LinksAreServed, IsServed, Callers
<1>4. GateIsHeld
  <2>1. \A t \in Tools : GateFits(t)
    BY <1>0, NoCallType DEF GateFits
  <2>2. Accessing = {}
    BY <1>0, NoCallType DEF Accessing, FreeTools
  <2>3. Open(FALSE) = 0
    BY <2>2, AccessingSize, FS_EmptySet
  <2> DEFINE o == Open(FALSE)
  <2>4. o = 0
    BY <2>3
  <2> HIDE DEF o
  <2>5. Len(events) + o <= MaxEvents
    BY <1>0, <1>n, <2>4
  <2> QED
    BY <2>1, <2>5 DEF GateIsHeld, o
<1>5. EventsAreOrdered
  <2>1. Spent = 0
    <3>1. events \in Seq(Event)
      BY <1>0
    <3>2. PICK f \in [0 .. Len(events) -> Nat] :
             Sums(f, Costs(events), Len(events)) /\ SpentOn(events) = f[Len(events)]
      BY <3>1, SpentSums
    <3>3. f[0] = 0
      BY <3>2 DEF Sums
    <3> QED
      BY <1>0, <3>2, <3>3, SpentIs
  <2>2. Cardinality(Accepted) = 0
    BY <1>0, FS_EmptySet
  <2>3. \A a \in Accesses : transferred[a] = 0
    BY <1>0 DEF ServerInit
  <2>4. \A h \in Handlers : ~At(h, "begin")
    BY <1>0, <1>i DEF ServerInit, At
  <2> QED
    BY <1>0, <1>n, <2>1, <2>2, <2>3, <2>4 DEF EventsAreOrdered, EventsAreOperations
<1>6. RunnerAgrees
  BY <1>0, NoRunType DEF RunnerAgrees, RecordAgrees, RunnerAt, Reconciling
<1>7. CollectedCounts
  <2>1. DueTransferred
    BY <1>0 DEF DueTransferred, ServerInit
  <2>2. link[Runner] = None
    BY <1>0 DEF Callers
  <2> QED
    BY <1>0, <2>1, <2>2, NoRunType, Named
       DEF CollectedCounts, StartsAfresh, PendingCounts, AwaitsAccepted, AnswerCounts,
           WrittenIsPending, SuccessIsCounted, RunnerAt, Reconciling
<1> QED
  BY <1>1, <1>2, <1>3, <1>4, <1>5, <1>6, <1>7 DEF IInv

\* The invariant holds in every state (AccessGateway, DataAgentServer, the
\* adapter and the pilot together).
THEOREM AlwaysInvariant == Spec => []IInv
<1>1. IInv /\ [Next]_vars => IInv'
  BY IInvStep, IInvStill
<1> QED
  BY IInvInit, <1>1, PTL DEF Spec

LEMMA InvariantIsExact ==
    ASSUME IInv
    PROVE  AccessesAreExact
<1>1. ExecutesAlone
  <2> SUFFICES ASSUME NEW g \in Handlers, NEW h \in Handlers,
                      thread[g].pc \in {"execute", "put"}, thread[h].pc \in {"execute", "put"},
                      thread[g].access = thread[h].access
               PROVE  g = h
    BY DEF ExecutesAlone
  <2>1. Holding(g) /\ Holding(h) /\ Pooled(g) /\ Pooled(h)
    BY DEF Holding, HoldingSteps, Pooled, PooledSteps
  <2>2. thread[g].entry = thread[h].entry
    BY <2>1 DEF IInv, ServerInv, PoolIsExact
  <2> QED
    BY <2>1, <2>2 DEF IInv, ServerInv, PoolIsExact
<1>2. WithinLimits
  <2>1. \A i, j \in 1 .. Len(events) : events[i].index = events[j].index => i = j
    <3> SUFFICES ASSUME NEW i \in 1 .. Len(events), NEW j \in 1 .. Len(events),
                        events[i].index = events[j].index
                 PROVE  i = j
      OBVIOUS
    <3>1. events[i].index = i - 1 /\ events[j].index = j - 1
      BY DEF IInv, EventsAreOrdered
    <3>2. Len(events) \in Nat
      BY SessionTypes DEF IInv
    <3>3. i \in Int /\ j \in Int
      BY <3>2
    <3>4. i - 1 = j - 1
      BY <3>1
    <3> QED
      BY <3>3, <3>4
  <2> QED
    BY <2>1 DEF IInv, EventsAreOrdered, WithinLimits
<1> QED
  BY <1>1, <1>2 DEF AccessesAreExact, IInv, ServerInv, TransfersReserved, EventsAreOrdered

\* Accesses are exact on both sides of the HTTP calls: one handler at a time
\* executes an access id, every event says what the Data Agent stored, the
\* session stays within its limits, and every transfer is recorded, reserved or
\* forgotten by a restart (access_representation, execute, begin_artifact_download).
THEOREM AccessesAlwaysExact == Spec => []AccessesAreExact
<1>1. IInv => AccessesAreExact
  BY InvariantIsExact
<1> QED
  BY AlwaysInvariant, <1>1, PTL

\* The workflow is submitted once, a session that is done counts every transfer
\* that was due, and the recorded outcome is the session's (recover, run,
\* reconcile_artifact_telemetry).
THEOREM OutcomeAlwaysCounted == Spec => []OutcomeIsCounted
<1>1. IInv => OutcomeIsCounted
  BY DEF IInv, RunnerAgrees, CollectedCounts, OutcomeIsCounted, SubmittedOnce
<1> QED
  BY AlwaysInvariant, <1>1, PTL

\* A summary that is called complete counts every transfer reserved until that
\* moment, except those a restart has forgotten (access_telemetry).
THEOREM CompleteAlwaysExact == Spec => CompleteIsExact
<1>1. IInv /\ [Next]_vars =>
         [\A h \in Handlers :
             (~thread[h].complete /\ thread'[h].complete) =>
                 thread[h].summary.requests + forgotten[thread[h].access]
                     = transferred[thread[h].access]]_serverVars
  <2>1. CASE IInv /\ Next
    BY <2>1, SessionIsServer, CompleteStep DEF IInv
  <2>2. CASE UNCHANGED vars
    BY <2>2 DEF vars
  <2> QED
    BY <2>1, <2>2
<1> QED
  BY AlwaysInvariant, <1>1, PTL DEF Spec, CompleteIsExact

=============================================================================
