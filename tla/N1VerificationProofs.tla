------------------------ MODULE N1VerificationProofs -------------------------
(***************************************************************************)
(* Proofs about the N1 oracle and its remote verifier, for every set of    *)
(* handlers, requests, label packages and challenges, any capacity and any *)
(* number of deaths and restarts.                                          *)
(***************************************************************************)
EXTENDS N1Verification, FiniteSetTheorems, TLAPS

\* The running service has mounted the package the database is bound to, and
\* no handler works while it is down.
MountInv ==
    /\ mounted \in {NoPackage, bound}
    /\ mounted = NoPackage => \A h \in Handlers : pc[h] = "idle"

\* A stored row is filed under its request's id and was scored with the bound
\* package, which labels its task.
RowInv ==
    \A i \in RequestIds :
        scores[i] # NoRow =>
            /\ bound # NoPackage
            /\ scores[i].request.id = i
            /\ scores[i] = Row(bound, scores[i].request)

\* What makes an answer true of the table t: a score is the stored one of the
\* request, a conflict has its reason, and any other answer names no row.
Justified(t, r, status, row) ==
    /\ status \in {"scored", "replay"} => t[r.id] = row /\ row.request = r
    /\ row = NoRow <=> status \notin {"scored", "replay"}
    /\ status = "conflict" =>
          \/ t[r.id] # NoRow /\ t[r.id].request # r
          \/ \E i \in RequestIds : t[i] # NoRow /\ t[i].request.unit = r.unit

\* What a handler knows between its steps: the row it saw is still the row of
\* its id, the request it is about to store has a label, and its answer is
\* justified.
HandlerInv ==
    \A h \in Handlers :
        /\ seen[h] # NoRow => pc[h] = "byUnit" /\ seen[h] = scores[req[h].id]
        /\ pc[h] = "execute" => Labelled(mounted, req[h])
        /\ pc[h] # "reply" => reply[h] = NoReply
        /\ pc[h] = "reply" => Justified(scores, req[h], reply[h].status, reply[h].row)

EvidenceInv == \A e \in evidence : scores[e.request.id] = e

IInv ==
    /\ TypeOK
    /\ MountInv
    /\ RowInv
    /\ HandlerInv
    /\ EvidenceInv

-----------------------------------------------------------------------------
\* A score is a row of the table and differs from the empty one.
LEMMA RowTyped ==
    ASSUME NEW p \in Packages, NEW r \in Requests
    PROVE  /\ Row(p, r) \in RowType /\ Row(p, r) # NoRow
           /\ Row(p, r).request = r /\ Row(p, r).package = p
<1>1. ScoreAnswer(r.answer, p[r.task]) \in BOOLEAN
  BY DEF ScoreAnswer
<1> QED
  BY <1>1, ScoreDataAssumption DEF Row, RowType

\* The request of a handler that works on one names a request id.
LEMMA RequestId == \A r \in Requests : r.id \in RequestIds
BY ScoreDataAssumption

\* An answer touches one handler only.
LEMMA AnswerTyped ==
    ASSUME TypeOK, NEW h \in Handlers, NEW status \in Statuses,
           NEW row \in RowType \cup {NoRow}, Answer(h, status, row)
    PROVE  /\ pc' \in [Handlers -> {"idle", "byId", "byUnit", "execute", "reply"}]
           /\ reply' \in [Handlers -> [status : Statuses, row : RowType \cup {NoRow}]]
           /\ pc'[h] = "reply" /\ reply'[h] = [status |-> status, row |-> row]
           /\ \A x \in Handlers : x # h => pc'[x] = pc[x] /\ reply'[x] = reply[x]
BY DEF Answer, TypeOK

\* An answer from a stored row is its replay or a conflict.
LEMMA AnswerFromTyped ==
    ASSUME TypeOK, NEW h \in Handlers, NEW row \in RowType, AnswerFrom(h, row)
    PROVE  \/ row.request = req[h] /\ Answer(h, "replay", row)
           \/ row.request # req[h] /\ Answer(h, "conflict", NoRow)
BY DEF AnswerFrom

\* The new oracle is well typed.
LEMMA TypeInit == Init => TypeOK
BY LedgerAssumption DEF Init, TypeOK, NoReply, Statuses

\* Every step of the oracle keeps the types, given that a service that works
\* has mounted labels.
LEMMA TypeStep == TypeOK /\ MountInv /\ [Next]_vars => TypeOK'
<1> SUFFICES ASSUME TypeOK, MountInv, [Next]_vars PROVE TypeOK'
  OBVIOUS
<1> USE DEF disk, bounds
<1>st. {"none", "scored", "replay", "conflict", "invalid", "failed"} = Statuses
  BY DEF Statuses
<1>1. ASSUME NEW p \in Packages, Start(p) PROVE TypeOK'
  BY <1>1 DEF Start, TypeOK
<1>2. CASE Crash
  BY <1>2, <1>st DEF Crash, TypeOK, NoReply
<1>3. ASSUME NEW h \in Handlers, NEW r \in Requests, Receive(h, r) PROVE TypeOK'
  BY <1>3 DEF Receive, TypeOK
<1>4. ASSUME NEW h \in Handlers, SelectById(h) PROVE TypeOK'
  BY <1>4, RequestId DEF SelectById, TypeOK
<1>5. ASSUME NEW h \in Handlers, SelectByUnit(h) PROVE TypeOK'
  <2>1. req[h] \in Requests /\ seen[h] \in RowType \cup {NoRow}
    BY <1>5 DEF SelectByUnit, TypeOK
  <2>2. CASE \E status \in Statuses, row \in RowType \cup {NoRow} : Answer(h, status, row)
    BY <1>5, <2>1, <2>2, AnswerTyped DEF SelectByUnit, TypeOK
  <2>3. CASE pc' = [pc EXCEPT ![h] = "execute"] /\ UNCHANGED reply
    BY <1>5, <2>1, <2>3 DEF SelectByUnit, TypeOK
  <2> QED
    BY <1>5, <1>st, <2>1, <2>2, <2>3, AnswerFromTyped DEF SelectByUnit
<1>6. ASSUME NEW h \in Handlers, ExecuteOnce(h) PROVE TypeOK'
  <2>1. /\ req[h] \in Requests /\ scores[req[h].id] \in RowType \cup {NoRow}
        /\ mounted \in Packages
    BY <1>6, RequestId DEF ExecuteOnce, TypeOK, MountInv
  <2>2. Row(mounted, req[h]) \in RowType
    BY <2>1, RowTyped
  <2>3. /\ \E status \in Statuses, row \in RowType \cup {NoRow} : Answer(h, status, row)
        /\ scores' \in [RequestIds -> RowType \cup {NoRow}]
    <3>1. CASE scores[req[h].id] # NoRow
      BY <1>6, <1>st, <2>1, <3>1, AnswerFromTyped DEF ExecuteOnce, TypeOK
    <3>2. CASE scores[req[h].id] = NoRow
      BY <1>6, <1>st, <2>1, <2>2, <3>2 DEF ExecuteOnce, Insert, TypeOK
    <3> QED
      BY <3>1, <3>2
  <2> QED
    BY <1>6, <2>1, <2>3, AnswerTyped DEF ExecuteOnce, TypeOK
<1>7. ASSUME NEW h \in Handlers, StoreFails(h) PROVE TypeOK'
  <2>1. req[h] \in Requests
    BY <1>7 DEF StoreFails, TypeOK
  <2>2. "failed" \in Statuses /\ Answer(h, "failed", NoRow)
    BY <1>7, <1>st DEF StoreFails
  <2>3. /\ pc' \in [Handlers -> {"idle", "byId", "byUnit", "execute", "reply"}]
        /\ reply' \in [Handlers -> [status : Statuses, row : RowType \cup {NoRow}]]
        /\ \A x \in Handlers : x # h => pc'[x] = pc[x]
    BY <2>2, AnswerTyped
  <2>4. seen' \in [Handlers -> RowType \cup {NoRow}] /\ failures' \in Nat
    BY <1>7 DEF StoreFails, TypeOK
  <2>5. /\ req' \in [Handlers -> Requests \cup {NoRequest}]
        /\ \A x \in Handlers : pc'[x] # "idle" => req'[x] \in Requests
    BY <1>7, <2>1, <2>3 DEF StoreFails, TypeOK
  <2> QED
    BY <1>7, <2>3, <2>4, <2>5 DEF StoreFails, TypeOK
<1>8. ASSUME NEW h \in Handlers, SendReply(h) PROVE TypeOK'
  BY <1>8, <1>st DEF SendReply, TypeOK, NoReply
<1>9. CASE UNCHANGED vars
  BY <1>9 DEF vars, TypeOK
<1> QED
  BY <1>1, <1>2, <1>3, <1>4, <1>5, <1>6, <1>7, <1>8, <1>9 DEF Next, Step

-----------------------------------------------------------------------------
\* The oracle starts with nothing stored and nobody working.
LEMMA InvInit == Init => IInv
<1> SUFFICES ASSUME Init PROVE IInv
  OBVIOUS
<1>1. TypeOK
  BY TypeInit
<1>2. MountInv /\ RowInv /\ HandlerInv /\ EvidenceInv
  BY DEF Init, MountInv, RowInv, HandlerInv, EvidenceInv, NoReply
<1> QED
  BY <1>1, <1>2 DEF IInv

\* Handlers and evidence survive a step that leaves every stored row alone:
\* what each of them says of the table stays true when the table only grows.
Grows ==
    \A i \in RequestIds : scores[i] # NoRow => scores'[i] = scores[i]

\* No step of the oracle removes or changes a stored row.
LEMMA RowsStay == IInv /\ [Next]_vars => Grows
<1> SUFFICES ASSUME IInv, [Next]_vars, scores' # scores PROVE Grows
  BY DEF Grows
<1>1. PICK h \in Handlers : ExecuteOnce(h) /\ Insert(h) /\ scores[req[h].id] = NoRow
  BY DEF Next, Step, vars, disk, Start, Crash, Receive, SelectById, SelectByUnit,
         StoreFails, SendReply, ExecuteOnce
<1> QED
  BY <1>1 DEF Insert, Grows, IInv, TypeOK

\* A consumed unit stays consumed.
LEMMA ConsumedStays ==
    ASSUME IInv, Grows, NEW u, Consumed(u)
    PROVE  Consumed(u)'
BY DEF Grows, Consumed, IInv, TypeOK

\* Handlers that a step leaves alone keep what they know of the table.
LEMMA OthersStay ==
    ASSUME IInv, Grows, req' = req, mounted' = mounted,
           NEW x \in Handlers, pc'[x] = pc[x], reply'[x] = reply[x], seen'[x] = seen[x]
    PROVE  /\ seen'[x] # NoRow => pc'[x] = "byUnit" /\ seen'[x] = scores'[req'[x].id]
           /\ pc'[x] = "execute" => Labelled(mounted', req'[x])
           /\ pc'[x] # "reply" => reply'[x] = NoReply
           /\ pc'[x] = "reply" => Justified(scores', req'[x], reply'[x].status, reply'[x].row)
<1>1. pc[x] # "idle" => req[x] \in Requests /\ req[x].id \in RequestIds
  BY RequestId DEF IInv, TypeOK
<1>2. /\ seen[x] # NoRow => pc[x] = "byUnit" /\ seen[x] = scores[req[x].id]
      /\ pc[x] = "execute" => Labelled(mounted, req[x])
      /\ pc[x] # "reply" => reply[x] = NoReply
      /\ pc[x] = "reply" => Justified(scores, req[x], reply[x].status, reply[x].row)
  BY DEF IInv, HandlerInv
<1>3. ASSUME pc[x] = "reply"
      PROVE Justified(scores', req[x], reply[x].status, reply[x].row)
  BY <1>1, <1>2, <1>3 DEF Justified, Grows
<1> QED
  BY <1>1, <1>2, <1>3 DEF Grows

\* Evidence stays durable while rows stay.
LEMMA EvidenceStays ==
    ASSUME IInv, Grows, NEW e \in evidence
    PROVE  scores'[e.request.id] = e
<1>1. e \in RowType /\ scores[e.request.id] = e
  BY DEF IInv, TypeOK, EvidenceInv
<1>2. e.request.id \in RequestIds /\ e # NoRow
  BY <1>1, RequestId, ScoreDataAssumption DEF RowType
<1> QED
  BY <1>1, <1>2 DEF Grows

\* One step of a handler: the handlers it leaves alone keep what they know, so
\* only the one that takes it is to be looked at.
LEMMA HandlerStep ==
    ASSUME IInv, Grows, req' = req, mounted' = mounted, evidence' = evidence,
           NEW h \in Handlers,
           \A x \in Handlers : x # h =>
               pc'[x] = pc[x] /\ reply'[x] = reply[x] /\ seen'[x] = seen[x],
           seen'[h] # NoRow => pc'[h] = "byUnit" /\ seen'[h] = scores'[req[h].id],
           pc'[h] = "execute" => Labelled(mounted, req[h]),
           pc'[h] # "reply" => reply'[h] = NoReply,
           pc'[h] = "reply" => Justified(scores', req[h], reply'[h].status, reply'[h].row)
    PROVE  HandlerInv' /\ EvidenceInv'
<1>1. ASSUME NEW x \in Handlers
      PROVE  /\ seen'[x] # NoRow => pc'[x] = "byUnit" /\ seen'[x] = scores'[req'[x].id]
             /\ pc'[x] = "execute" => Labelled(mounted', req'[x])
             /\ pc'[x] # "reply" => reply'[x] = NoReply
             /\ pc'[x] = "reply" => Justified(scores', req'[x], reply'[x].status, reply'[x].row)
  <2>1. CASE x = h
    BY <2>1
  <2>2. CASE x # h
    BY <2>2, OthersStay
  <2> QED
    BY <2>1, <2>2
<1>2. EvidenceInv'
  BY EvidenceStays DEF EvidenceInv
<1> QED
  BY <1>1, <1>2 DEF HandlerInv, Justified

-----------------------------------------------------------------------------
\* Every step of the oracle keeps the inductive invariant.
LEMMA InvStep == IInv /\ [Next]_vars => IInv'
<1> SUFFICES ASSUME IInv, [Next]_vars PROVE IInv'
  OBVIOUS
<1>ty. TypeOK /\ TypeOK' /\ MountInv /\ RowInv /\ HandlerInv /\ EvidenceInv
  BY TypeStep DEF IInv
<1>gr. Grows
  BY RowsStay
<1> USE DEF disk, bounds
<1>1. ASSUME NEW p \in Packages, Start(p) PROVE IInv'
  <2>1. MountInv' /\ RowInv'
    BY <1>ty, <1>1, ScoreDataAssumption DEF Start, MountInv, RowInv, TypeOK
  <2>2. HandlerInv' /\ EvidenceInv'
    BY <1>ty, <1>1, ScoreDataAssumption
    DEF Start, MountInv, HandlerInv, EvidenceInv, Justified
  <2> QED
    BY <1>ty, <2>1, <2>2 DEF IInv
<1>2. CASE Crash
  <2>1. MountInv' /\ RowInv' /\ EvidenceInv'
    BY <1>ty, <1>2 DEF Crash, MountInv, RowInv, EvidenceInv
  <2>2. HandlerInv'
    BY <1>ty, <1>2 DEF Crash, HandlerInv, NoReply
  <2> QED
    BY <1>ty, <2>1, <2>2 DEF IInv
<1>3. ASSUME NEW h \in Handlers, NEW r \in Requests, Receive(h, r) PROVE IInv'
  <2>1. MountInv' /\ RowInv' /\ EvidenceInv'
    BY <1>ty, <1>3 DEF Receive, MountInv, RowInv, EvidenceInv, TypeOK
  <2>2. HandlerInv'
    BY <1>ty, <1>3 DEF Receive, HandlerInv, Justified, TypeOK
  <2> QED
    BY <1>ty, <2>1, <2>2 DEF IInv
<1>4. ASSUME NEW h \in Handlers, SelectById(h) PROVE IInv'
  <2>1. MountInv' /\ RowInv'
    BY <1>ty, <1>4 DEF SelectById, MountInv, RowInv, TypeOK
  <2>2. HandlerInv' /\ EvidenceInv'
    <3>1. /\ pc'[h] = "byUnit" /\ seen'[h] = scores[req[h].id]
          /\ reply'[h] = NoReply
          /\ \A x \in Handlers : x # h =>
                pc'[x] = pc[x] /\ reply'[x] = reply[x] /\ seen'[x] = seen[x]
      BY <1>ty, <1>4 DEF SelectById, HandlerInv, TypeOK
    <3> QED
      BY <1>gr, <1>4, <3>1, HandlerStep DEF SelectById
  <2> QED
    BY <1>ty, <2>1, <2>2 DEF IInv
<1>5. ASSUME NEW h \in Handlers, SelectByUnit(h) PROVE IInv'
  <2>1. req[h] \in Requests /\ req[h].id \in RequestIds /\ mounted # NoPackage
    BY <1>ty, <1>5, RequestId DEF SelectByUnit, TypeOK, MountInv
  <2>2. MountInv' /\ RowInv'
    BY <1>ty, <1>5, <2>1 DEF SelectByUnit, MountInv, RowInv, TypeOK
  <2>3. /\ seen'[h] = NoRow
        /\ \A x \in Handlers : x # h => seen'[x] = seen[x]
    BY <1>ty, <1>5 DEF SelectByUnit, TypeOK
  <2>4. HandlerInv' /\ EvidenceInv'
    <3>1. CASE pc' = [pc EXCEPT ![h] = "execute"] /\ UNCHANGED reply /\ Labelled(mounted, req[h])
      <4>1. /\ pc'[h] = "execute" /\ reply'[h] = NoReply
            /\ \A x \in Handlers : x # h => pc'[x] = pc[x] /\ reply'[x] = reply[x]
        BY <1>ty, <1>5, <3>1 DEF SelectByUnit, HandlerInv, TypeOK
      <4> QED
        BY <1>gr, <1>5, <2>3, <3>1, <4>1, HandlerStep DEF SelectByUnit
    <3>2. ASSUME NEW status \in Statuses, NEW row \in RowType \cup {NoRow},
                 Answer(h, status, row), Justified(scores, req[h], status, row)
          PROVE HandlerInv' /\ EvidenceInv'
      <4>1. /\ pc'[h] = "reply" /\ reply'[h] = [status |-> status, row |-> row]
            /\ \A x \in Handlers : x # h => pc'[x] = pc[x] /\ reply'[x] = reply[x]
        BY <1>ty, <3>2, AnswerTyped
      <4>2. Justified(scores', req[h], reply'[h].status, reply'[h].row)
        BY <1>5, <3>2, <4>1 DEF SelectByUnit
      <4> QED
        BY <1>gr, <1>5, <2>3, <4>1, <4>2, HandlerStep DEF SelectByUnit
    <3>3. CASE seen[h] # NoRow
      <4>1. seen[h] = scores[req[h].id] /\ seen[h] \in RowType
        BY <1>ty, <3>3 DEF HandlerInv, TypeOK
      <4>2. CASE seen[h].request = req[h] /\ Answer(h, "replay", seen[h])
        BY <3>2, <3>3, <4>1, <4>2 DEF Justified, Statuses
      <4>3. CASE seen[h].request # req[h] /\ Answer(h, "conflict", NoRow)
        BY <3>2, <3>3, <4>1, <4>3 DEF Justified, Statuses
      <4> QED
        BY <1>ty, <1>5, <3>3, <4>1, <4>2, <4>3, AnswerFromTyped DEF SelectByUnit
    <3>4. CASE seen[h] = NoRow /\ Consumed(req[h].unit) /\ Answer(h, "conflict", NoRow)
      BY <3>2, <3>4 DEF Justified, Statuses, Consumed
    <3>5. CASE Answer(h, "invalid", NoRow)
      BY <3>2, <3>5 DEF Justified, Statuses
    <3> QED
      BY <1>5, <3>1, <3>3, <3>4, <3>5 DEF SelectByUnit
  <2> QED
    BY <1>ty, <2>2, <2>4 DEF IInv
<1>6. ASSUME NEW h \in Handlers, ExecuteOnce(h) PROVE IInv'
  <2>1. /\ req[h] \in Requests /\ req[h].id \in RequestIds
        /\ mounted = bound /\ bound \in Packages
        /\ scores[req[h].id] \in RowType \cup {NoRow}
        /\ reply[h] = NoReply /\ seen[h] = NoRow
    BY <1>ty, <1>6, RequestId DEF ExecuteOnce, TypeOK, MountInv, HandlerInv
  <2>2. ASSUME NEW status \in Statuses, NEW row \in RowType \cup {NoRow},
               Answer(h, status, row), Justified(scores', req[h], status, row)
        PROVE MountInv' /\ HandlerInv' /\ EvidenceInv'
    <3>1. /\ pc'[h] = "reply" /\ reply'[h] = [status |-> status, row |-> row]
          /\ \A x \in Handlers : x # h => pc'[x] = pc[x] /\ reply'[x] = reply[x]
      BY <1>ty, <2>2, AnswerTyped
    <3>2. Justified(scores', req[h], reply'[h].status, reply'[h].row)
      BY <2>2, <3>1
    <3>3. HandlerInv' /\ EvidenceInv'
      BY <1>gr, <1>6, <2>1, <3>1, <3>2, HandlerStep DEF ExecuteOnce
    <3>4. MountInv'
      BY <1>ty, <1>6, <2>1, ScoreDataAssumption DEF ExecuteOnce, MountInv
    <3> QED
      BY <3>3, <3>4
  <2>3. CASE scores[req[h].id] # NoRow
    <3>1. scores' = scores
      BY <1>6, <2>3 DEF ExecuteOnce
    <3>2. ASSUME scores[req[h].id].request = req[h],
                 Answer(h, "replay", scores[req[h].id])
          PROVE MountInv' /\ HandlerInv' /\ EvidenceInv'
      BY <2>1, <2>2, <2>3, <3>1, <3>2 DEF Justified, Statuses
    <3>3. ASSUME scores[req[h].id].request # req[h],
                 Answer(h, "conflict", NoRow)
          PROVE MountInv' /\ HandlerInv' /\ EvidenceInv'
      BY <2>1, <2>2, <2>3, <3>1, <3>3 DEF Justified, Statuses
    <3>4. MountInv' /\ HandlerInv' /\ EvidenceInv'
      BY <1>ty, <1>6, <2>1, <2>3, <3>2, <3>3, AnswerFromTyped DEF ExecuteOnce
    <3>5. RowInv'
      BY <1>ty, <1>6, <3>1 DEF ExecuteOnce, RowInv
    <3> QED
      BY <1>ty, <3>4, <3>5 DEF IInv
  <2>4. CASE Consumed(req[h].unit) /\ Answer(h, "conflict", NoRow) /\ UNCHANGED scores
    <3>1. MountInv' /\ HandlerInv' /\ EvidenceInv'
      BY <2>2, <2>4 DEF Justified, Statuses, Consumed
    <3>2. RowInv'
      BY <1>ty, <1>6, <2>4 DEF ExecuteOnce, RowInv
    <3> QED
      BY <1>ty, <3>1, <3>2 DEF IInv
  <2>5. CASE scores[req[h].id] = NoRow /\ Insert(h)
    <3> DEFINE row == Row(mounted, req[h])
    <3>1. row \in RowType /\ row # NoRow /\ row.request = req[h]
      BY <2>1, RowTyped
    <3> HIDE DEF row
    <3>2. scores' = [scores EXCEPT ![req[h].id] = row] /\ Answer(h, "scored", row)
      BY <2>5 DEF Insert, row
    <3>3. scores'[req[h].id] = row
      BY <1>ty, <2>1, <3>2 DEF TypeOK
    <3>4. MountInv' /\ HandlerInv' /\ EvidenceInv'
      BY <2>2, <3>1, <3>2, <3>3 DEF Justified, Statuses
    <3>5. RowInv'
      <4> SUFFICES ASSUME NEW i \in RequestIds, scores'[i] # NoRow
                   PROVE /\ bound # NoPackage /\ scores'[i].request.id = i
                         /\ scores'[i] = Row(bound, scores'[i].request)
        BY <1>6 DEF RowInv, ExecuteOnce
      <4>1. CASE i = req[h].id
        BY <2>1, <3>1, <3>3, <4>1, ScoreDataAssumption DEF row
      <4>2. CASE i # req[h].id
        BY <1>ty, <3>2, <4>2 DEF RowInv, TypeOK
      <4> QED
        BY <4>1, <4>2
    <3> QED
      BY <1>ty, <3>4, <3>5 DEF IInv
  <2> QED
    BY <1>6, <2>3, <2>4, <2>5 DEF ExecuteOnce
<1>7. ASSUME NEW h \in Handlers, StoreFails(h) PROVE IInv'
  <2>1. mounted # NoPackage /\ reply[h] = NoReply
    BY <1>ty, <1>7 DEF StoreFails, MountInv, HandlerInv
  <2>2. MountInv' /\ RowInv'
    BY <1>ty, <1>7, <2>1 DEF StoreFails, MountInv, RowInv
  <2>3. /\ pc'[h] = "reply" /\ reply'[h] = [status |-> "failed", row |-> NoRow]
        /\ seen'[h] = NoRow
        /\ \A x \in Handlers : x # h =>
              pc'[x] = pc[x] /\ reply'[x] = reply[x] /\ seen'[x] = seen[x]
    BY <1>ty, <1>7 DEF StoreFails, Answer, TypeOK
  <2>4. HandlerInv' /\ EvidenceInv'
    <3>1. Justified(scores', req[h], reply'[h].status, reply'[h].row)
      BY <2>3 DEF Justified
    <3> QED
      BY <1>gr, <1>7, <2>3, <3>1, HandlerStep DEF StoreFails
  <2> QED
    BY <1>ty, <2>2, <2>4 DEF IInv
<1>8. ASSUME NEW h \in Handlers, SendReply(h) PROVE IInv'
  <2>1. mounted # NoPackage
    BY <1>ty, <1>8 DEF SendReply, MountInv
  <2>2. MountInv' /\ RowInv'
    BY <1>ty, <1>8, <2>1 DEF SendReply, MountInv, RowInv
  <2>3. HandlerInv'
    BY <1>ty, <1>8 DEF SendReply, HandlerInv, Justified, TypeOK, NoReply
  <2>4. EvidenceInv'
    <3>1. reply[h].row # NoRow =>
              reply[h].row.request = req[h] /\ scores[req[h].id] = reply[h].row
      BY <1>ty, <1>8 DEF SendReply, HandlerInv, Justified
    <3> QED
      BY <1>ty, <1>8, <3>1 DEF SendReply, EvidenceInv
  <2> QED
    BY <1>ty, <2>2, <2>3, <2>4 DEF IInv
<1>9. CASE UNCHANGED vars
  BY <1>ty, <1>9
  DEF vars, IInv, MountInv, RowInv, HandlerInv, EvidenceInv, Justified
<1> QED
  BY <1>1, <1>2, <1>3, <1>4, <1>5, <1>6, <1>7, <1>8, <1>9 DEF Next, Step

\* The oracle's part of the composed system: its steps, or none.
LEMMA OracleStep == [NextSystem]_<<oracle, verifier>> => [Next]_vars
BY DEF NextSystem, oracle

\* The oracle's invariant holds in the composed system.
LEMMA OracleInv == SystemSpec => []IInv
<1>1. InitSystem => IInv
  BY InvInit DEF InitSystem
<1>2. IInv /\ [NextSystem]_<<oracle, verifier>> => IInv'
  BY OracleStep, InvStep
<1> QED
  BY <1>1, <1>2, PTL DEF SystemSpec

\* The answers of the N1 oracle are true: a score told to a client is the
\* durable score of that very request, a conflict has its reason, and every
\* stored score agrees with the mounted labels, whatever threads race, fail or
\* die, and whichever package the next process mounts (score, execute_once,
\* _initialize).
THEOREM TrueAnswers == SystemSpec => []AnswersAreTrue
<1>1. IInv => AnswersAreTrue
  <2> SUFFICES ASSUME IInv PROVE AnswersAreTrue
    OBVIOUS
  <2> USE DEF IInv
  <2>1. \A h \in Handlers : reply[h].status # "none" => pc[h] = "reply"
    BY DEF HandlerInv, NoReply
  <2>2. ReplyIsStored
    BY <2>1 DEF HandlerInv, EvidenceInv, ReplyIsStored, Justified
  <2>3. ConflictIsJustified
    BY <2>1 DEF HandlerInv, ConflictIsJustified, Justified, Consumed
  <2>4. ScoresMatchLabels
    <3> SUFFICES ASSUME NEW i \in RequestIds, scores[i] # NoRow
                 PROVE /\ mounted \in {NoPackage, scores[i].package}
                       /\ scores[i] = Row(bound, scores[i].request)
      BY DEF ScoresMatchLabels
    <3>1. scores[i] = Row(bound, scores[i].request) /\ bound # NoPackage
      BY DEF RowInv
    <3>2. bound = scores[i].package
      BY <3>1 DEF Row
    <3> QED
      BY <3>1, <3>2 DEF MountInv
  <2> QED
    BY <2>2, <2>3, <2>4 DEF AnswersAreTrue
<1> QED
  BY <1>1, OracleInv, PTL

-----------------------------------------------------------------------------
\* A step of the oracle is a step of the one-shot ledger or leaves it alone: a
\* new database opens the book, an insert scores a unit that is still open,
\* and every other step changes neither the binding nor a row.
LEMMA LedgerStep ==
    IInv /\ [Next]_vars =>
        [OneShot!Next]_<<bound, {scores[i] : i \in RequestIds} \ {NoRow}>>
<1> SUFFICES ASSUME IInv, [Next]_vars
             PROVE OneShot!Next \/ UNCHANGED <<bound, scores>>
  OBVIOUS
<1> USE DEF disk, bounds
<1> DEFINE Ledger == {scores[i] : i \in RequestIds} \ {NoRow}
<1>1. ASSUME NEW p \in Packages, Start(p)
      PROVE OneShot!Next \/ UNCHANGED <<bound, scores>>
  BY <1>1 DEF Start, OneShot!Next, OneShot!Open
<1>2. ASSUME NEW h \in Handlers, ExecuteOnce(h), scores' # scores
      PROVE OneShot!Next
  <2>1. /\ req[h] \in Requests /\ req[h].id \in RequestIds
        /\ mounted = bound /\ bound \in Packages /\ bound # NoPackage
        /\ Labelled(bound, req[h])
    BY <1>2, RequestId, ScoreDataAssumption
    DEF ExecuteOnce, IInv, TypeOK, MountInv, HandlerInv
  <2> DEFINE row == Row(bound, req[h])
  <2>2. row \in RowType /\ row # NoRow
    BY <2>1, RowTyped
  <2>3. /\ scores[req[h].id] = NoRow /\ ~Consumed(req[h].unit)
        /\ scores' = [scores EXCEPT ![req[h].id] = row]
        /\ bound' = bound
    BY <1>2, <2>1 DEF ExecuteOnce, Insert
  <2> HIDE DEF row
  <2>4. ASSUME NEW e \in Ledger
        PROVE e.request.unit # req[h].unit /\ e.request.id # req[h].id
    <3>1. PICK i \in RequestIds : e = scores[i] /\ scores[i] # NoRow
      OBVIOUS
    <3>2. scores[i].request.id = i
      BY <3>1 DEF IInv, RowInv
    <3> QED
      BY <2>3, <3>1, <3>2 DEF Consumed
  <2>5. Ledger' = Ledger \cup {row}
    <3>1. \A i \in RequestIds :
              scores'[i] = IF i = req[h].id THEN row ELSE scores[i]
      BY <2>1, <2>3 DEF IInv, TypeOK
    <3>2. Ledger' \subseteq Ledger \cup {row}
      BY <3>1
    <3>3. row \in Ledger'
      BY <2>1, <2>2, <3>1
    <3>4. Ledger \subseteq Ledger'
      BY <2>3, <3>1
    <3> QED
      BY <3>2, <3>3, <3>4
  <2>6. OneShot!ScoreUnit(req[h])
    <3>1. bound # NoPackage /\ Labelled(bound, req[h]) /\ UNCHANGED bound
      BY <2>1, <2>3
    <3>2. Ledger' = Ledger \cup {Row(bound, req[h])}
      BY <2>5 DEF row
    <3> HIDE DEF Ledger
    <3>3. /\ bound # NoPackage /\ Labelled(bound, req[h])
          /\ \A e \in Ledger : e.request.unit # req[h].unit /\ e.request.id # req[h].id
          /\ Ledger' = Ledger \cup {Row(bound, req[h])}
          /\ UNCHANGED bound
      BY <2>4, <3>1, <3>2
    <3> QED
      BY <3>3 DEF Ledger, OneShot!ScoreUnit, OneShot!Labelled, OneShot!Row,
             OneShot!ScoreAnswer, Labelled, Row, ScoreAnswer
  <2> QED
    <3>1. \E r \in Requests : OneShot!ScoreUnit(r)
      BY <2>1, <2>6, Zenon DEF OneShot!ScoreUnit
    <3> QED
      BY <3>1, Zenon DEF OneShot!Next
<1>3. CASE ~(\E p \in Packages : Start(p)) /\ ~(\E h \in Handlers : ExecuteOnce(h))
  BY <1>3 DEF Next, Step, vars, Crash, Receive, SelectById, SelectByUnit,
              StoreFails, SendReply
<1>4. ASSUME NEW h \in Handlers, ExecuteOnce(h), scores' = scores
      PROVE UNCHANGED <<bound, scores>>
  BY <1>4 DEF ExecuteOnce
<1> QED
  BY <1>1, <1>2, <1>3, <1>4

\* The oracle's database implements the one-shot ledger: it is bound to one
\* package, each evaluation unit and each request id is scored at most once,
\* and no score is ever removed or replaced (execute_once, _initialize).
THEOREM ImplementsOneShotLedger == SystemSpec => OneShotSpec
<1>1. InitSystem => OneShot!Init
  BY DEF InitSystem, Init, OneShot!Init
<1>2. IInv /\ [NextSystem]_<<oracle, verifier>> =>
          [OneShot!Next]_<<bound, {scores[i] : i \in RequestIds} \ {NoRow}>>
  BY OracleStep, LedgerStep
<1> QED
  BY <1>1, <1>2, OracleInv, PTL DEF SystemSpec, OneShotSpec, OneShot!Spec

-----------------------------------------------------------------------------
ConsumedChallenges == {c \in Challenges : consumed[c] # NoRow}

\* The verifier's replay ledger holds finitely many results within its
\* capacity, each of them the durable score of its request; an attestation at a
\* client is a consumed challenge with its result.
VerifierInv ==
    /\ labels \in Packages
    /\ consumed \in [Challenges -> RowType \cup {NoRow}]
    /\ IsFiniteSet(ConsumedChallenges) /\ Slots <= MaxVerifications
    /\ \A c \in Challenges : consumed[c] # NoRow =>
          consumed[c].request.id \in RequestIds
          /\ scores[consumed[c].request.id] = consumed[c]
    /\ \A a \in attested : \E c \in ConsumedChallenges :
          a = [challenge |-> c, row |-> consumed[c]]

\* A new verifier has consumed no challenge.
LEMMA VerifierInit == InitSystem => VerifierInv
<1> SUFFICES ASSUME InitSystem PROVE VerifierInv
  OBVIOUS
<1>1. ConsumedChallenges = {}
  BY DEF InitSystem, InitV, ConsumedChallenges
<1>2. IsFiniteSet(ConsumedChallenges) /\ Slots = 0
  BY <1>1, FS_EmptySet DEF Slots, ConsumedChallenges
<1> QED
  BY <1>2, VerifierAssumption DEF InitSystem, InitV, VerifierInv

\* A step of either service keeps the verifier's invariant: an accepted
\* verification takes one free slot for a result some client was given, and
\* the oracle never changes the row it stands for.
LEMMA VerifierStep ==
    IInv /\ VerifierInv /\ [NextSystem]_<<oracle, verifier>> => VerifierInv'
<1> SUFFICES ASSUME IInv, VerifierInv, [NextSystem]_<<oracle, verifier>>
             PROVE VerifierInv'
  OBVIOUS
<1>1. CASE UNCHANGED verifier
  <2>1. Grows
    BY OracleStep, RowsStay
  <2>2. UNCHANGED <<labels, consumed, attested, ConsumedChallenges, Slots>>
    BY <1>1 DEF verifier, ConsumedChallenges, Slots
  <2>3. \A c \in Challenges : consumed[c] # NoRow =>
            scores'[consumed[c].request.id] = consumed[c]
    BY <2>1 DEF VerifierInv, Grows
  <2> QED
    BY <2>2, <2>3 DEF VerifierInv
<1>2. ASSUME NEW c \in Challenges, NEW row \in evidence, Verify(c, row), UNCHANGED oracle
      PROVE VerifierInv'
  <2>1. /\ row \in RowType /\ row # NoRow /\ row.request.id \in RequestIds
        /\ scores[row.request.id] = row
    BY RequestId, ScoreDataAssumption DEF IInv, TypeOK, EvidenceInv, RowType
  <2>2. /\ consumed' = [consumed EXCEPT ![c] = row] /\ consumed[c] = NoRow
        /\ Slots < MaxVerifications /\ labels' = labels
        /\ attested' \in {attested, attested \cup {[challenge |-> c, row |-> row]}}
    BY <1>2 DEF Verify, Unused
  <2>3. scores' = scores
    BY <1>2 DEF oracle, vars, disk
  <2>4. consumed' \in [Challenges -> RowType \cup {NoRow}]
    BY <2>1, <2>2 DEF VerifierInv
  <2>5. \A d \in Challenges : consumed'[d] = IF d = c THEN row ELSE consumed[d]
    BY <2>2 DEF VerifierInv
  <2>6. ConsumedChallenges' = ConsumedChallenges \cup {c} /\ c \notin ConsumedChallenges
    BY <2>1, <2>2, <2>5 DEF ConsumedChallenges
  <2>7. IsFiniteSet(ConsumedChallenges)' /\ (Slots <= MaxVerifications)'
    <3>1. IsFiniteSet(ConsumedChallenges) /\ Slots = Cardinality(ConsumedChallenges)
      BY DEF VerifierInv, Slots, ConsumedChallenges
    <3>2. /\ IsFiniteSet(ConsumedChallenges \cup {c})
          /\ Cardinality(ConsumedChallenges \cup {c}) = Cardinality(ConsumedChallenges) + 1
          /\ Cardinality(ConsumedChallenges) \in Nat
      BY <2>6, <3>1, FS_AddElement, FS_CardinalityType
    <3>3. Slots' = Cardinality(ConsumedChallenges')
      BY DEF Slots, ConsumedChallenges
    <3> QED
      BY <2>2, <2>6, <3>1, <3>2, <3>3, VerifierAssumption
  <2>8. \A d \in Challenges : consumed'[d] # NoRow =>
            consumed'[d].request.id \in RequestIds
            /\ scores'[consumed'[d].request.id] = consumed'[d]
    BY <2>1, <2>3, <2>5 DEF VerifierInv
  <2>9. ASSUME NEW a \in attested'
        PROVE \E d \in ConsumedChallenges' : a = [challenge |-> d, row |-> consumed'[d]]
    <3>1. CASE a = [challenge |-> c, row |-> row]
      BY <2>5, <2>6, <3>1
    <3>2. CASE a \in attested
      <4>1. PICK d \in ConsumedChallenges : a = [challenge |-> d, row |-> consumed[d]]
        BY <3>2 DEF VerifierInv
      <4>2. d \in ConsumedChallenges' /\ consumed'[d] = consumed[d]
        BY <2>5, <2>6 DEF ConsumedChallenges
      <4> QED
        BY <4>1, <4>2
    <3> QED
      BY <2>2, <3>1, <3>2
  <2> QED
    BY <2>2, <2>4, <2>7, <2>8, <2>9 DEF VerifierInv
<1>3. ASSUME NEW p \in Packages, Remount(p), UNCHANGED oracle PROVE VerifierInv'
  <2>1. UNCHANGED <<consumed, attested, scores, ConsumedChallenges, Slots>> /\ labels' = p
    BY <1>3 DEF Remount, oracle, vars, disk, ConsumedChallenges, Slots
  <2> QED
    BY <2>1 DEF VerifierInv
<1> QED
  BY <1>1, <1>2, <1>3 DEF NextSystem, NextV

\* Whatever the verifier attested is the durable score of its evaluation unit,
\* attested once for each challenge and within max_verifications, although it
\* never sees the oracle's table and both services lose answers and restart
\* with any labels (verify, consume).
THEOREM AttestsDurableScores == SystemSpec => []AttestedOnce
<1>1. VerifierInv => AttestedOnce
  <2> SUFFICES ASSUME VerifierInv PROVE AttestedOnce
    OBVIOUS
  <2>1. AttestationIsDurable
    BY DEF VerifierInv, AttestationIsDurable
  <2>2. \A a \in attested : a.challenge \in ConsumedChallenges
            /\ a = [challenge |-> a.challenge, row |-> consumed[a.challenge]]
    BY DEF VerifierInv
  <2>3. \A a, b \in attested : a.challenge = b.challenge => a = b
    BY <2>2
  <2>4. Cardinality(attested) <= MaxVerifications
    <3> DEFINE f == [a \in attested |-> a.challenge]
    <3>1. f \in Injection(attested, ConsumedChallenges)
      <4>1. f \in [attested -> ConsumedChallenges]
        BY <2>2
      <4>2. \A a, b \in attested : f[a] = f[b] => a = b
        BY <2>3
      <4> QED
        BY <4>1, <4>2 DEF Injection, IsInjective
    <3>2. IsFiniteSet(ConsumedChallenges)
      BY DEF VerifierInv
    <3>3. /\ IsFiniteSet(attested)
          /\ Cardinality(attested) <= Cardinality(ConsumedChallenges)
      BY <3>1, <3>2, FS_Injection
    <3>4. Cardinality(attested) \in Nat /\ Cardinality(ConsumedChallenges) \in Nat
      BY <3>2, <3>3, FS_CardinalityType
    <3>5. Cardinality(ConsumedChallenges) <= MaxVerifications
      BY DEF VerifierInv, Slots, ConsumedChallenges
    <3> QED
      BY <3>3, <3>4, <3>5, VerifierAssumption
  <2> QED
    BY <2>1, <2>3, <2>4 DEF AttestedOnce, AttestedWithinCapacity
<1> QED
  BY <1>1, VerifierInit, VerifierStep, OracleInv, PTL DEF SystemSpec

===========================================================================
