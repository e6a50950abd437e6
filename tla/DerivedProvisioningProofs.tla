---------------------- MODULE DerivedProvisioningProofs ----------------------
(***************************************************************************)
(* Proofs about the N4 store, about the N5 services and about the two      *)
(* together, for every set of threads, handlers, plans, registries, keys,  *)
(* labels and publications and any number of failures and deaths.          *)
(***************************************************************************)
EXTENDS DerivedProvisioning, FiniteSetTheorems, TLAPS

-----------------------------------------------------------------------------
(* The N4 store.                                                           *)

Working == {"build", "install", "commit"}

\* What a stored row says of itself: it is filed under its request's id, its
\* generation carries the request's label and serves the request's artifacts.
RowInv ==
    \A i \in PublicationIds :
        publications[i] # NoRow =>
            /\ publications[i].request.id = i
            /\ publications[i].generation.version = publications[i].request.version
            /\ \A k \in Keys :
                  publications[i].request.artifacts[k] # Absent =>
                      publications[i].generation.artifacts[k] =
                          publications[i].request.artifacts[k]

Committed(rows, g) ==
    \E i \in PublicationIds : rows[i] # NoRow /\ rows[i].generation = g

\* What a handler knows between its steps: the snapshot it builds from was
\* committed and had the expected version, and the package it is about to
\* commit is already in its generation directory.
HandlerInv ==
    \A h \in Handlers :
        /\ pc[h] \in Working =>
              /\ VersionOf(base[h]) = req[h].expect
              /\ base[h] # NoGeneration => Committed(publications, base[h])
        /\ pc[h] = "install" => candidate[h] = Combined(base[h], req[h])
        /\ pc[h] = "commit" => Combined(base[h], req[h]) \in generations

ReplyInv ==
    \A h \in Handlers :
        /\ pc[h] # "reply" => reply[h] = NoReply
        /\ reply[h].status \in {"created", "replay"} =>
              /\ reply[h].row # NoRow
              /\ publications[req[h].id] = reply[h].row
              /\ reply[h].row.request = req[h]

IInv ==
    /\ TypeOK
    /\ CommittedIsServable
    /\ RowInv
    /\ HandlerInv
    /\ ReplyInv

-----------------------------------------------------------------------------
\* The package of a publication is a generation with the request's label that
\* serves the request's artifacts.
LEMMA CombinedType ==
    ASSUME NEW g \in GenerationType \cup {NoGeneration}, NEW r \in Requests
    PROVE  /\ Combined(g, r) \in GenerationType
           /\ Combined(g, r).version = r.version
           /\ \A k \in Keys : r.artifacts[k] # Absent =>
                  Combined(g, r).artifacts[k] = r.artifacts[k]
<1>1. r \in RequestType
  BY DataAssumption
<1>2. ArtifactsOf(g) \in ArtifactMaps
  BY DEF ArtifactsOf, ArtifactMaps, GenerationType
<1> QED
  BY <1>1, <1>2 DEF Combined, GenerationType, RequestType, ArtifactMaps

\* A new row is a row.
LEMMA RowTyped ==
    ASSUME NEW r \in Requests, NEW g \in GenerationType,
           NEW c \in GenerationType \cup {NoGeneration}
    PROVE  /\ Row(r, g, VersionOf(c)) \in RowType
           /\ Row(r, g, VersionOf(c)) # NoRow
BY DataAssumption DEF Row, RowType, VersionOf, GenerationType

\* Every request names a publication id.
LEMMA RequestId == \A r \in Requests : r.id \in PublicationIds
BY DataAssumption DEF RequestType

\* An answer touches one handler only.
LEMMA AnswerTyped ==
    ASSUME TypeOK, NEW h \in Handlers, NEW status \in Statuses,
           NEW row \in RowType \cup {NoRow}, Answer(h, status, row)
    PROVE  /\ pc' \in [Handlers -> {"idle", "read", "build", "install", "commit", "reply"}]
           /\ reply' \in [Handlers -> [status : Statuses, row : RowType \cup {NoRow}]]
           /\ pc'[h] = "reply"
           /\ \A x \in Handlers : x # h => pc'[x] = pc[x]
BY DEF Answer, TypeOK

\* A stored publication answers with a replay or a conflict.
LEMMA StoredTyped ==
    ASSUME TypeOK, NEW h \in Handlers, NEW r \in Requests,
           StoredPublication(h, r)
    PROVE  \E status \in Statuses, row \in RowType \cup {NoRow} :
               Answer(h, status, row)
<1>1. publications[r.id] \in RowType \cup {NoRow}
  BY RequestId DEF TypeOK
<1>2. {"replay", "conflict"} \subseteq Statuses
  BY DEF Statuses
<1> QED
  BY <1>1, <1>2, Zenon DEF StoredPublication

\* The empty store is well typed.
LEMMA TypeInit == Init => TypeOK
BY HandlerAssumption DEF Init, TypeOK, NoReply, Statuses

\* Every step keeps the types.
LEMMA TypeStep == TypeOK /\ [Next]_vars => TypeOK'
<1> SUFFICES ASSUME TypeOK, [Next]_vars PROVE TypeOK'
  OBVIOUS
<1> USE DEF TypeOK, disk
<1>1. ASSUME NEW h \in Handlers, NEW r \in Requests, Receive(h, r)
      PROVE TypeOK'
  <2> USE <1>1
  <2>1. CASE StoredPublication(h, r)
    BY <2>1, StoredTyped, AnswerTyped DEF Receive
  <2>2. CASE pc' = [pc EXCEPT ![h] = "read"] /\ UNCHANGED reply
    BY <2>2 DEF Receive
  <2> QED
    BY <2>1, <2>2 DEF Receive
<1>2. ASSUME NEW h \in Handlers, ReadCurrent(h) PROVE TypeOK'
  BY <1>2 DEF ReadCurrent, Answer, Statuses
<1>3. ASSUME NEW h \in Handlers, BuildCandidate(h) PROVE TypeOK'
  BY <1>3, CombinedType, DataAssumption DEF BuildCandidate
<1>4. ASSUME NEW h \in Handlers, BuildFails(h) PROVE TypeOK'
  BY <1>4 DEF BuildFails, Answer, Statuses
<1>5. ASSUME NEW h \in Handlers, InstallGeneration(h) PROVE TypeOK'
  BY <1>5 DEF InstallGeneration
<1>6. ASSUME NEW h \in Handlers, Commit(h) PROVE TypeOK'
  <2> USE <1>6
  <2> DEFINE r == req[h]
             g == Combined(base[h], r)
             row == Row(r, g, VersionOf(current))
  <2>1. r \in Requests /\ g \in GenerationType /\ row \in RowType
    BY CombinedType, RowTyped DEF Commit
  <2>2. CASE StoredPublication(h, r) /\ UNCHANGED <<current, publications>>
    BY <2>1, <2>2, StoredTyped, AnswerTyped DEF Commit
  <2>3. CASE Answer(h, "conflict", NoRow) /\ UNCHANGED <<current, publications>>
    BY <2>1, <2>3, AnswerTyped DEF Commit, Statuses
  <2>4. CASE /\ publications' = [publications EXCEPT ![r.id] = row]
             /\ current' = g
             /\ Answer(h, "created", row)
    BY <2>1, <2>4, AnswerTyped DEF Commit, Statuses
  <2> QED
    BY <2>2, <2>3, <2>4 DEF Commit, WriteTables
<1>7. ASSUME NEW h \in Handlers, PublishFails(h) PROVE TypeOK'
  BY <1>7 DEF PublishFails, Answer, Statuses
<1>8. ASSUME NEW h \in Handlers, SendReply(h) PROVE TypeOK'
  BY <1>8 DEF SendReply, NoReply, Statuses
<1>9. CASE Crash
  BY <1>9, HandlerAssumption DEF Crash, NoReply, Statuses
<1>10. CASE UNCHANGED vars
  BY <1>10 DEF vars
<1> QED
  BY <1>1, <1>2, <1>3, <1>4, <1>5, <1>6, <1>7, <1>8, <1>9, <1>10 DEF Next, Step

\* The type invariant holds of every reachable state.
THEOREM TypeCorrect == Spec => []TypeOK
BY TypeInit, TypeStep, PTL DEF Spec

-----------------------------------------------------------------------------
\* The empty store satisfies the invariant.
LEMMA IInvInit == Init => IInv
<1> SUFFICES ASSUME Init PROVE IInv
  OBVIOUS
<1>1. TypeOK
  BY TypeInit
<1>2. CommittedIsServable /\ RowInv
  BY DEF Init, CommittedIsServable, RowInv
<1>3. HandlerInv /\ ReplyInv
  BY DEF Init, HandlerInv, ReplyInv, NoReply, Working
<1> QED
  BY <1>1, <1>2, <1>3 DEF IInv

\* A step that leaves the disk alone keeps what is said of the disk.
LEMMA DiskKept ==
    ASSUME CommittedIsServable, RowInv, UNCHANGED disk
    PROVE  /\ CommittedIsServable' /\ RowInv'
           /\ \A g : Committed(publications, g) => Committed(publications', g)
BY DEF disk, CommittedIsServable, RowInv, Committed

\* An answer that reports no row, or the stored row of the handler's request.
LEMMA AnswerKept ==
    ASSUME TypeOK, ReplyInv, NEW h \in Handlers, NEW r \in Requests,
           NEW status \in Statuses, NEW row \in RowType \cup {NoRow},
           Answer(h, status, row), req' = [req EXCEPT ![h] = r],
           \A i \in PublicationIds :
               publications[i] # NoRow => publications'[i] = publications[i],
           status \in {"created", "replay"} =>
               row # NoRow /\ publications'[r.id] = row /\ row.request = r
    PROVE  ReplyInv'
<1> SUFFICES ASSUME NEW x \in Handlers
             PROVE /\ pc'[x] # "reply" => reply'[x] = NoReply
                   /\ reply'[x].status \in {"created", "replay"} =>
                        /\ reply'[x].row # NoRow
                        /\ publications'[req'[x].id] = reply'[x].row
                        /\ reply'[x].row.request = req'[x]
  BY DEF ReplyInv, NoReply
<1>1. CASE x = h
  BY <1>1 DEF Answer, TypeOK
<1>2. CASE x # h
  <2>1. pc'[x] = pc[x] /\ reply'[x] = reply[x] /\ req'[x] = req[x]
    BY <1>2 DEF Answer, TypeOK
  <2>2. CASE reply[x].status \in {"created", "replay"}
    <3>1. pc[x] = "reply"
      BY <2>2 DEF ReplyInv, NoReply
    <3>2. req[x].id \in PublicationIds
      BY <3>1, RequestId DEF TypeOK
    <3> QED
      BY <2>1, <2>2, <3>1, <3>2 DEF ReplyInv
  <2> QED
    BY <2>1, <2>2 DEF ReplyInv
<1> QED
  BY <1>1, <1>2

\* A step of handler h that answers nothing and leaves its request alone
\* disturbs no answer.
LEMMA ReplyKept ==
    ASSUME TypeOK, ReplyInv, NEW h \in Handlers, NEW step, pc[h] # "reply",
           step # "reply", pc' = [pc EXCEPT ![h] = step],
           UNCHANGED <<publications, reply>>,
           \A x \in Handlers : x # h => req'[x] = req[x]
    PROVE  ReplyInv'
<1> SUFFICES ASSUME NEW x \in Handlers
             PROVE /\ pc'[x] # "reply" => reply'[x] = NoReply
                   /\ reply'[x].status \in {"created", "replay"} =>
                        /\ reply'[x].row # NoRow
                        /\ publications'[req'[x].id] = reply'[x].row
                        /\ reply'[x].row.request = req'[x]
  BY DEF ReplyInv, NoReply
<1>1. CASE x = h
  BY <1>1 DEF ReplyInv, NoReply, TypeOK
<1>2. CASE x # h
  BY <1>2 DEF ReplyInv, TypeOK
<1> QED
  BY <1>1, <1>2

\* The other handlers keep what they know when generations and rows only grow.
LEMMA OthersKept ==
    ASSUME TypeOK, HandlerInv, NEW h \in Handlers,
           \A g : Committed(publications, g) => Committed(publications', g),
           generations \subseteq generations',
           \A x \in Handlers : x # h =>
               /\ pc'[x] = pc[x] /\ req'[x] = req[x]
               /\ base'[x] = base[x] /\ candidate'[x] = candidate[x],
           /\ pc'[h] \in Working =>
                 /\ VersionOf(base'[h]) = req'[h].expect
                 /\ base'[h] # NoGeneration => Committed(publications', base'[h])
           /\ pc'[h] = "install" => candidate'[h] = Combined(base'[h], req'[h])
           /\ pc'[h] = "commit" => Combined(base'[h], req'[h]) \in generations'
    PROVE  HandlerInv'
<1> SUFFICES ASSUME NEW x \in Handlers
             PROVE /\ pc'[x] \in Working =>
                         /\ VersionOf(base'[x]) = req'[x].expect
                         /\ base'[x] # NoGeneration => Committed(publications', base'[x])
                   /\ pc'[x] = "install" => candidate'[x] = Combined(base'[x], req'[x])
                   /\ pc'[x] = "commit" => Combined(base'[x], req'[x]) \in generations'
  BY DEF HandlerInv, VersionOf, Combined, ArtifactsOf, Committed, Working
<1>1. CASE x = h
  BY <1>1
<1>2. CASE x # h
  <2>1. /\ pc'[x] = pc[x] /\ req'[x] = req[x]
        /\ base'[x] = base[x] /\ candidate'[x] = candidate[x]
    BY <1>2
  <2>2. base[x] # NoGeneration /\ pc[x] \in Working => Committed(publications', base[x])
    BY DEF HandlerInv
  <2>3. base[x] # NoGeneration /\ pc[x] \in Working => Committed(publications', base'[x])
    BY <2>1, <2>2 DEF Committed
  <2> QED
    BY <2>1, <2>3 DEF HandlerInv
<1> QED
  BY <1>1, <1>2

\* The transaction keeps the invariant: the directory it refers to was
\* installed before.
LEMMA CommitKeeps ==
    ASSUME IInv, TypeOK', NEW h \in Handlers, Commit(h)
    PROVE  IInv'
<1> DEFINE r == req[h]
           g == Combined(base[h], r)
           row == Row(r, g, VersionOf(current))
<1> USE DEF IInv
<1>1. /\ pc[h] = "commit" /\ r \in Requests /\ r.id \in PublicationIds
      /\ req' = [req EXCEPT ![h] = r]
      /\ UNCHANGED <<generations, req, base, candidate, crashes>>
  BY RequestId DEF Commit, TypeOK
<1>2. g \in generations /\ g \in GenerationType /\ g.version = r.version
  BY <1>1, CombinedType DEF HandlerInv, TypeOK
<1>3. \A x \in Handlers : x # h => pc'[x] = pc[x]
  BY DEF Commit, WriteTables, StoredPublication, Answer, TypeOK
<1>4. pc'[h] = "reply"
  BY <1>1 DEF Commit, WriteTables, StoredPublication, Answer, TypeOK
<1>5. CASE StoredPublication(h, r) /\ UNCHANGED <<current, publications>>
  <2>1. CommittedIsServable' /\ RowInv' /\ \A c : Committed(publications, c) => Committed(publications', c)
    BY <1>1, <1>5, DiskKept DEF disk
  <2>2. HandlerInv'
    BY <1>1, <1>3, <1>4, <2>1, OthersKept DEF Working
  <2>3. publications[r.id] \in RowType \cup {NoRow} /\ {"replay", "conflict"} \subseteq Statuses
    BY <1>1 DEF TypeOK, Statuses
  <2>4. ReplyInv'
    BY <1>1, <1>5, <2>3, AnswerKept DEF StoredPublication
  <2> QED
    BY <2>1, <2>2, <2>4
<1>6. CASE Answer(h, "conflict", NoRow) /\ UNCHANGED <<current, publications>>
  <2>1. CommittedIsServable' /\ RowInv' /\ \A c : Committed(publications, c) => Committed(publications', c)
    BY <1>1, <1>6, DiskKept DEF disk
  <2>2. HandlerInv'
    BY <1>1, <1>3, <1>4, <2>1, OthersKept DEF Working
  <2>3. ReplyInv'
    BY <1>1, <1>6, AnswerKept DEF Statuses
  <2> QED
    BY <2>1, <2>2, <2>3
<1>7. CASE /\ publications[r.id] = NoRow
           /\ publications' = [publications EXCEPT ![r.id] = row]
           /\ current' = g
           /\ Answer(h, "created", row)
  <2>1. row \in RowType /\ row # NoRow
    BY <1>1, <1>2, RowTyped DEF TypeOK
  <2>2. row.request = r /\ row.generation = g
    BY DEF Row
  <2>3. /\ publications'[r.id] = row
        /\ \A i \in PublicationIds : i # r.id => publications'[i] = publications[i]
    BY <1>1, <1>7 DEF TypeOK
  <2>4. CommittedIsServable'
    BY <1>1, <1>2, <1>7, <2>1, <2>2, <2>3 DEF CommittedIsServable
  <2>5. RowInv'
    <3>0. base[h] \in GenerationType \cup {NoGeneration}
      BY DEF TypeOK
    <3>1. \A k \in Keys : r.artifacts[k] # Absent => g.artifacts[k] = r.artifacts[k]
      BY <1>1, <3>0, CombinedType, Zenon
    <3>2. /\ row.request.id = r.id
          /\ row.generation.version = row.request.version
          /\ \A k \in Keys : row.request.artifacts[k] # Absent =>
                row.generation.artifacts[k] = row.request.artifacts[k]
      BY <1>2, <2>2, <3>1
    <3> HIDE DEF r, g, row
    <3> QED
      BY <2>3, <3>2 DEF RowInv
  <2>6. \A c : Committed(publications, c) => Committed(publications', c)
    BY <1>7, <2>3 DEF Committed
  <2>7. HandlerInv'
    BY <1>1, <1>3, <1>4, <2>6, OthersKept DEF Working
  <2>8. ReplyInv'
    BY <1>1, <1>7, <2>1, <2>2, <2>3, AnswerKept DEF Statuses
  <2> QED
    BY <2>4, <2>5, <2>7, <2>8
<1> QED
  BY <1>5, <1>6, <1>7 DEF Commit, WriteTables

\* Every step keeps the invariant, one case for each action.
LEMMA IInvStep == IInv /\ [Next]_vars => IInv'
<1> SUFFICES ASSUME IInv, [Next]_vars PROVE IInv'
  OBVIOUS
<1> USE DEF IInv
<1>1. TypeOK'
  BY TypeStep
<1>2. ASSUME NEW h \in Handlers, NEW r \in Requests, Receive(h, r) PROVE IInv'
  <2> USE <1>2
  <2>1. CommittedIsServable' /\ RowInv' /\ \A c : Committed(publications, c) => Committed(publications', c)
    BY DiskKept DEF Receive
  <2>2. pc'[h] \notin Working /\ \A x \in Handlers : x # h => pc'[x] = pc[x]
    BY DEF Receive, StoredPublication, Answer, TypeOK, Working
  <2>3. HandlerInv'
    BY <2>1, <2>2, OthersKept DEF Receive, disk, TypeOK, Working
  <2>4. CASE StoredPublication(h, r)
    <3>1. publications[r.id] \in RowType \cup {NoRow} /\ {"replay", "conflict"} \subseteq Statuses
      BY RequestId DEF TypeOK, Statuses
    <3>2. ReplyInv'
      BY <2>4, <3>1, AnswerKept DEF StoredPublication, Receive, disk
    <3> QED
      BY <1>1, <2>1, <2>3, <3>2
  <2>5. CASE pc' = [pc EXCEPT ![h] = "read"] /\ UNCHANGED reply
    BY <1>1, <2>1, <2>3, <2>5, ReplyKept DEF Receive, disk, TypeOK
  <2> QED
    BY <2>4, <2>5 DEF Receive
<1>3. ASSUME NEW h \in Handlers, ReadCurrent(h) PROVE IInv'
  <2> USE <1>3
  <2>1. CommittedIsServable' /\ RowInv' /\ \A c : Committed(publications, c) => Committed(publications', c)
    BY DiskKept DEF ReadCurrent
  <2>2. pc[h] = "read" /\ req[h] \in Requests /\ req' = [req EXCEPT ![h] = req[h]]
    BY DEF ReadCurrent, TypeOK
  <2>3. CASE VersionOf(current) = req[h].expect
    <3>1. /\ base' = [base EXCEPT ![h] = current]
          /\ pc' = [pc EXCEPT ![h] = "build"]
          /\ UNCHANGED <<disk, req, candidate, reply>>
      BY <2>3 DEF ReadCurrent
    <3>2. current # NoGeneration => Committed(publications', current)
      BY <3>1 DEF CommittedIsServable, Committed, disk
    <3>3. HandlerInv'
      BY <2>1, <2>3, <3>1, <3>2, OthersKept DEF disk, TypeOK, Working
    <3>4. ReplyInv'
      BY <2>2, <3>1, ReplyKept DEF disk
    <3> QED
      BY <1>1, <2>1, <3>3, <3>4
  <2>4. CASE Answer(h, "conflict", NoRow) /\ UNCHANGED base
    <3>1. HandlerInv'
      BY <2>1, <2>4, OthersKept DEF ReadCurrent, Answer, disk, TypeOK, Working
    <3>2. ReplyInv'
      BY <2>2, <2>4, AnswerKept DEF ReadCurrent, disk, Statuses
    <3> QED
      BY <1>1, <2>1, <3>1, <3>2
  <2> QED
    BY <2>3, <2>4 DEF ReadCurrent
<1>4. ASSUME NEW h \in Handlers, BuildCandidate(h) PROVE IInv'
  <2> USE <1>4
  <2>1. CommittedIsServable' /\ RowInv' /\ \A c : Committed(publications, c) => Committed(publications', c)
    BY DiskKept DEF BuildCandidate
  <2>2. /\ VersionOf(base[h]) = req[h].expect
        /\ base[h] # NoGeneration => Committed(publications', base[h])
    BY <2>1 DEF BuildCandidate, HandlerInv, Working
  <2>3. HandlerInv'
    BY <2>1, <2>2, OthersKept DEF BuildCandidate, disk, TypeOK, Working
  <2>4. ReplyInv'
    BY ReplyKept DEF BuildCandidate, disk
  <2> QED
    BY <1>1, <2>1, <2>3, <2>4
<1>5. ASSUME NEW h \in Handlers, InstallGeneration(h) PROVE IInv'
  <2> USE <1>5
  <2>1. CommittedIsServable' /\ RowInv'
    BY DEF InstallGeneration, CommittedIsServable, RowInv
  <2>2. \A c : Committed(publications, c) => Committed(publications', c)
    BY DEF InstallGeneration
  <2>3. /\ VersionOf(base[h]) = req[h].expect
        /\ base[h] # NoGeneration => Committed(publications', base[h])
        /\ Combined(base[h], req[h]) \in generations'
    BY <2>2 DEF InstallGeneration, HandlerInv, Working
  <2>4. HandlerInv'
    BY <2>2, <2>3, OthersKept DEF InstallGeneration, TypeOK, Working
  <2>5. ReplyInv'
    BY ReplyKept DEF InstallGeneration
  <2> QED
    BY <1>1, <2>1, <2>4, <2>5
<1>6. ASSUME NEW h \in Handlers, Commit(h) PROVE IInv'
  BY <1>1, <1>6, CommitKeeps
<1>7. ASSUME NEW h \in Handlers, BuildFails(h) \/ PublishFails(h) PROVE IInv'
  <2>1. /\ pc[h] # "idle" /\ Answer(h, "failed", NoRow)
        /\ \A x \in Handlers : x # h => candidate'[x] = candidate[x]
        /\ UNCHANGED <<disk, req, base>>
    BY <1>7 DEF BuildFails, PublishFails, TypeOK
  <2>2. CommittedIsServable' /\ RowInv' /\ \A c : Committed(publications, c) => Committed(publications', c)
    BY <2>1, DiskKept
  <2>3. HandlerInv'
    BY <2>1, <2>2, OthersKept DEF Answer, disk, TypeOK, Working
  <2>4. ReplyInv'
    BY <2>1, AnswerKept DEF disk, Statuses, TypeOK
  <2> QED
    BY <1>1, <2>2, <2>3, <2>4
<1>8. ASSUME NEW h \in Handlers, SendReply(h) PROVE IInv'
  <2> USE <1>8
  <2>1. CommittedIsServable' /\ RowInv' /\ \A c : Committed(publications, c) => Committed(publications', c)
    BY DiskKept DEF SendReply
  <2>2. HandlerInv'
    BY <2>1, OthersKept DEF SendReply, disk, TypeOK, Working
  <2>3. ReplyInv'
    BY DEF SendReply, disk, TypeOK, ReplyInv, NoReply
  <2> QED
    BY <1>1, <2>1, <2>2, <2>3
<1>9. CASE Crash
  <2>1. CommittedIsServable' /\ RowInv'
    BY <1>9, DiskKept DEF Crash
  <2>2. HandlerInv' /\ ReplyInv'
    BY <1>9 DEF Crash, HandlerInv, ReplyInv, NoReply, Working
  <2> QED
    BY <1>1, <2>1, <2>2
<1>10. CASE UNCHANGED vars
  <2>1. CommittedIsServable' /\ RowInv'
    BY <1>10, DiskKept DEF vars
  <2>2. HandlerInv' /\ ReplyInv'
    BY <1>10 DEF vars, disk, HandlerInv, ReplyInv, Working
  <2> QED
    BY <1>1, <2>1, <2>2
<1> QED
  BY <1>2, <1>3, <1>4, <1>5, <1>6, <1>7, <1>8, <1>9, <1>10 DEF Next, Step

\* The inductive invariant holds of every reachable state.
THEOREM Invariance == Spec => []IInv
BY IInvInit, IInvStep, PTL DEF Spec

\* Whatever handlers and crashes interleave, the current pointer and every
\* stored row name a complete generation directory.
THEOREM Servable == Spec => []CommittedIsServable
<1>1. IInv => CommittedIsServable
  BY DEF IInv
<1> QED
  BY <1>1, Invariance, PTL

\* An answer "created" or "replay" is backed by the durable row of the very
\* request it answers.
THEOREM DurableReplies == Spec => []ReplyIsDurable
<1>1. IInv => ReplyIsDurable
  <2> SUFFICES ASSUME IInv, NEW h \in Handlers,
                      reply[h].status \in {"created", "replay"}
               PROVE  /\ publications[req[h].id] = reply[h].row
                      /\ reply[h].row.request = req[h]
                      /\ \A k \in Keys : req[h].artifacts[k] # Absent =>
                            reply[h].row.generation.artifacts[k] = req[h].artifacts[k]
    BY DEF ReplyIsDurable
  <2>1. pc[h] = "reply"
    BY DEF IInv, ReplyInv, NoReply
  <2>2. req[h].id \in PublicationIds
    BY <2>1, RequestId DEF IInv, TypeOK
  <2> QED
    BY <2>2 DEF IInv, ReplyInv, RowInv
<1> QED
  BY <1>1, Invariance, PTL

-----------------------------------------------------------------------------
(* With labels that name one request each, the version comparison of the   *)
(* commit transaction identifies the generation, not only its label.       *)

\* A version that was replaced never becomes current again.
ChainInv ==
    \A i \in PublicationIds :
        publications[i] # NoRow =>
            /\ publications[i].previous # VersionOf(current)
            /\ publications[i].previous # NoVersion =>
                  \E j \in PublicationIds :
                      /\ publications[j] # NoRow
                      /\ publications[j].request.version = publications[i].previous

\* A generation has a label.
LEMMA VersionsDiffer == ASSUME NEW g \in GenerationType PROVE VersionOf(g) = g.version /\ g.version # NoVersion
BY DataAssumption DEF VersionOf, GenerationType

\* A committed label belongs to one row, so equal labels mean equal
\* generations.
LEMMA LabelNamesGeneration ==
    ASSUME IInv, UniqueLabels,
           NEW a, NEW b, Committed(publications, a), Committed(publications, b),
           a.version = b.version
    PROVE  a = b
<1>1. PICK i \in PublicationIds : publications[i] # NoRow /\ publications[i].generation = a
  BY DEF Committed
<1>2. PICK j \in PublicationIds : publications[j] # NoRow /\ publications[j].generation = b
  BY DEF Committed
<1>3. publications[i].request \in Requests /\ publications[j].request \in Requests
  BY <1>1, <1>2 DEF IInv, TypeOK, RowType
<1>4. publications[i].request.version = publications[j].request.version
  BY <1>1, <1>2 DEF IInv, RowInv
<1>5. i = j
  BY <1>1, <1>2, <1>3, <1>4 DEF IInv, RowInv, UniqueLabels
<1> QED
  BY <1>1, <1>2, <1>5

\* What a successful commit does under unique labels: it replaces the very
\* generation its package was built from.
LEMMA CommitReplacesBase ==
    ASSUME IInv, UniqueLabels, NEW h \in Handlers, pc[h] = "commit",
           VersionOf(current) = req[h].expect
    PROVE  base[h] = current
<1>1. VersionOf(base[h]) = VersionOf(current)
  BY DEF IInv, HandlerInv, Working
<1>2. /\ base[h] \in GenerationType \cup {NoGeneration}
      /\ current \in GenerationType \cup {NoGeneration}
  BY DEF IInv, TypeOK
<1>3. base[h] = NoGeneration <=> current = NoGeneration
  BY <1>1, <1>2, VersionsDiffer DEF VersionOf
<1>4. CASE base[h] # NoGeneration
  <2>1. Committed(publications, base[h]) /\ Committed(publications, current)
    BY <1>3, <1>4 DEF IInv, HandlerInv, Working, CommittedIsServable, Committed
  <2>2. base[h].version = current.version
    BY <1>1, <1>3, <1>4 DEF VersionOf
  <2> QED
    BY <2>1, <2>2, LabelNamesGeneration
<1> QED
  BY <1>3, <1>4

\* Every step that changes the two tables commits one request.
LEMMA TableStep ==
    ASSUME IInv, [Next]_vars
    PROVE  \/ UNCHANGED <<current, publications>>
           \/ \E h \in Handlers :
                 /\ pc[h] = "commit" /\ req[h] \in Requests
                 /\ publications[req[h].id] = NoRow
                 /\ VersionOf(current) = req[h].expect
                 /\ current' = Combined(base[h], req[h])
                 /\ publications' = [publications EXCEPT ![req[h].id] =
                        Row(req[h], Combined(base[h], req[h]), VersionOf(current))]
<1>1. ASSUME NEW h \in Handlers, Commit(h)
      PROVE  \/ UNCHANGED <<current, publications>>
             \/ /\ pc[h] = "commit" /\ req[h] \in Requests
                /\ publications[req[h].id] = NoRow
                /\ VersionOf(current) = req[h].expect
                /\ current' = Combined(base[h], req[h])
                /\ publications' = [publications EXCEPT ![req[h].id] =
                       Row(req[h], Combined(base[h], req[h]), VersionOf(current))]
  <2>1. pc[h] = "commit" /\ req[h] \in Requests
    BY <1>1 DEF Commit, IInv, TypeOK
  <2> QED
    BY <1>1, <2>1, Zenon DEF Commit, WriteTables
<1>2. CASE \E h \in Handlers : \E r \in Requests : Receive(h, r)
  BY <1>2 DEF Receive, disk
<1>3. ASSUME NEW h \in Handlers,
             \/ ReadCurrent(h) \/ BuildCandidate(h) \/ BuildFails(h)
             \/ InstallGeneration(h) \/ PublishFails(h) \/ SendReply(h)
      PROVE  UNCHANGED <<current, publications>>
  BY <1>3 DEF ReadCurrent, BuildCandidate, BuildFails, InstallGeneration, PublishFails, SendReply, disk
<1>4. CASE Crash \/ UNCHANGED vars
  BY <1>4 DEF Crash, vars, disk
<1> QED
  BY <1>1, <1>2, <1>3, <1>4 DEF Next, Step

\* A stored receipt is never rewritten, whatever the labels.
THEOREM FinalReceipts == Spec => ReceiptsAreFinal
<1>1. IInv /\ [Next]_vars =>
        [\A i \in PublicationIds : publications[i] # NoRow => publications'[i] = publications[i]]_vars
  <2> SUFFICES ASSUME IInv, [Next]_vars, NEW i \in PublicationIds, publications[i] # NoRow
               PROVE  publications'[i] = publications[i]
    OBVIOUS
  <2> QED
    BY TableStep DEF IInv, TypeOK
<1> QED
  BY <1>1, Invariance, PTL DEF Spec, ReceiptsAreFinal

\* The store implements the atomic catalog when labels are unique: every
\* commit applies its request to exactly the catalog it replaces, so no
\* update is lost.
THEOREM ImplementsCatalog == ASSUME UniqueLabels PROVE Spec => CatalogSpec
<1> USE DEF Catalog!Combined, Catalog!ArtifactsOf, Catalog!VersionOf, Catalog!Row
<1>1. Init => Catalog!Init
  BY DEF Init, Catalog!Init
<1>2. IInv /\ [Next]_vars => [Catalog!Next]_<<current, publications>>
  <2> SUFFICES ASSUME IInv, [Next]_vars, ~UNCHANGED <<current, publications>>
               PROVE  Catalog!Next
    BY Zenon
  <2>1. PICK h \in Handlers :
            /\ pc[h] = "commit" /\ req[h] \in Requests
            /\ publications[req[h].id] = NoRow
            /\ VersionOf(current) = req[h].expect
            /\ current' = Combined(base[h], req[h])
            /\ publications' = [publications EXCEPT ![req[h].id] =
                   Row(req[h], Combined(base[h], req[h]), VersionOf(current))]
    BY TableStep
  <2>2. base[h] = current
    BY <2>1, CommitReplacesBase
  <2>3. Catalog!Publish(req[h])
    BY <2>1, <2>2 DEF Catalog!Publish, Combined, ArtifactsOf, VersionOf, Row
  <2> QED
    BY <2>1, <2>3 DEF Catalog!Next
<1> QED
  BY <1>1, <1>2, Invariance, PTL DEF Spec, CatalogSpec, Catalog!Spec

\* Every step keeps the chain of versions.
LEMMA ChainStep == IInv /\ UniqueLabels /\ ChainInv /\ [Next]_vars => ChainInv'
<1> SUFFICES ASSUME IInv, UniqueLabels, ChainInv, [Next]_vars PROVE ChainInv'
  OBVIOUS
<1>1. CASE UNCHANGED <<current, publications>>
  BY <1>1 DEF ChainInv
<1>2. ASSUME NEW h \in Handlers,
             pc[h] = "commit", req[h] \in Requests,
             publications[req[h].id] = NoRow,
             VersionOf(current) = req[h].expect,
             current' = Combined(base[h], req[h]),
             publications' = [publications EXCEPT ![req[h].id] =
                 Row(req[h], Combined(base[h], req[h]), VersionOf(current))]
      PROVE  ChainInv'
  <2> DEFINE r == req[h]
             g == Combined(base[h], r)
             row == Row(r, g, VersionOf(current))
  <2>1. /\ base[h] \in GenerationType \cup {NoGeneration}
        /\ current \in GenerationType \cup {NoGeneration}
        /\ publications \in [PublicationIds -> RowType \cup {NoRow}]
    BY DEF IInv, TypeOK
  <2>2. g \in GenerationType /\ g.version = r.version /\ VersionOf(g) = r.version /\ r.version # NoVersion
    BY <1>2, <2>1, CombinedType, VersionsDiffer
  <2>3. r.id \in PublicationIds /\ row # NoRow
    BY <1>2, <2>1, <2>2, RequestId, RowTyped
  <2>4. row.request = r /\ row.previous = VersionOf(current)
    BY DEF Row
  <2>5. /\ publications'[r.id] = row
        /\ \A i \in PublicationIds : i # r.id => publications'[i] = publications[i]
    BY <1>2, <2>1, <2>3
  <2>6. \A j \in PublicationIds :
            publications[j] # NoRow => publications[j].request.version # r.version
    BY <1>2, <2>1 DEF UniqueLabels, IInv, RowInv, RowType
  <2>7. VersionOf(current) # r.version
    <3>1. CASE current = NoGeneration
      BY <2>2, <3>1 DEF VersionOf
    <3>2. CASE current # NoGeneration
      <4>1. PICK j \in PublicationIds : publications[j] # NoRow /\ publications[j].generation = current
        BY <3>2 DEF IInv, CommittedIsServable
      <4> QED
        BY <2>6, <3>2, <4>1 DEF IInv, RowInv, VersionOf
    <3> QED
      BY <3>1, <3>2
  <2>8. VersionOf(current) # NoVersion =>
            \E j \in PublicationIds :
                publications[j] # NoRow /\ publications[j].request.version = VersionOf(current)
    BY DEF IInv, CommittedIsServable, RowInv, VersionOf
  <2>9. VersionOf(current') = r.version
    BY <1>2, <2>2
  <2> SUFFICES ASSUME NEW i \in PublicationIds, publications'[i] # NoRow
               PROVE  /\ publications'[i].previous # VersionOf(current')
                      /\ publications'[i].previous # NoVersion =>
                            \E j \in PublicationIds :
                                /\ publications'[j] # NoRow
                                /\ publications'[j].request.version = publications'[i].previous
    BY DEF ChainInv, VersionOf
  <2>10. CASE i = r.id
    <3> HIDE DEF row, r
    <3> QED
      BY <1>2, <2>3, <2>4, <2>5, <2>7, <2>8, <2>9, <2>10
  <2>11. CASE i # r.id
    <3>1. /\ publications'[i] = publications[i] /\ publications[i] # NoRow
      BY <2>5, <2>11
    <3>2. publications[i].previous # NoVersion =>
            \E j \in PublicationIds :
                /\ publications[j] # NoRow
                /\ publications[j].request.version = publications[i].previous
      BY <3>1 DEF ChainInv
    <3>3. publications[i].previous # r.version
      BY <2>2, <2>6, <3>2
    <3> HIDE DEF row, r
    <3>4. \A j \in PublicationIds : publications[j] # NoRow => publications'[j] = publications[j]
      BY <1>2, <2>5 DEF r
    <3> QED
      BY <2>9, <3>1, <3>2, <3>3, <3>4
  <2> QED
    BY <2>10, <2>11
<1> QED
  BY <1>1, <1>2, TableStep

\* On one chain no version has two successors.
LEMMA SuccessorStep ==
    IInv /\ ChainInv /\ OneSuccessor /\ [Next]_vars => OneSuccessor'
<1> SUFFICES ASSUME IInv, ChainInv, OneSuccessor, [Next]_vars PROVE OneSuccessor'
  OBVIOUS
<1>1. CASE UNCHANGED <<current, publications>>
  BY <1>1 DEF OneSuccessor
<1>2. ASSUME NEW h \in Handlers,
             req[h] \in Requests, publications[req[h].id] = NoRow,
             publications' = [publications EXCEPT ![req[h].id] =
                 Row(req[h], Combined(base[h], req[h]), VersionOf(current))]
      PROVE  OneSuccessor'
  <2> DEFINE n == req[h].id
  <2>1. /\ n \in PublicationIds
        /\ publications'[n].previous = VersionOf(current)
        /\ \A i \in PublicationIds : i # n => publications'[i] = publications[i]
    BY <1>2, RequestId DEF IInv, TypeOK, Row
  <2>2. \A i \in PublicationIds :
            publications[i] # NoRow => publications[i].previous # VersionOf(current)
    BY DEF ChainInv
  <2> HIDE DEF n
  <2> QED
    BY <2>1, <2>2 DEF OneSuccessor
<1> QED
  BY <1>1, <1>2, TableStep

\* With unique labels the committed publications form one chain: no version
\* is replaced twice.
THEOREM OneChain == ASSUME UniqueLabels PROVE Spec => []OneSuccessor
<1>1. Init => ChainInv /\ OneSuccessor
  BY DEF Init, ChainInv, OneSuccessor
<1>2. IInv /\ ChainInv /\ OneSuccessor /\ [Next]_vars => ChainInv' /\ OneSuccessor'
  BY ChainStep, SuccessorStep
<1> QED
  BY <1>1, <1>2, Invariance, PTL DEF Spec

-----------------------------------------------------------------------------
(* The N5 services.                                                        *)

\* Steps of a thread: those of a frame request, of which the holding ones own
\* the id, and those of a digest request that hold the digest lock.
Holding == {"run", "complete", "raise"}
FrameSteps == {"claim", "waiting"} \cup Holding
Locked == {"model", "install", "record"}

ThreadInv ==
    /\ thread \in [Threads -> [pc : {"idle"} \cup FrameSteps \cup DigestSteps,
                               call : FramePlans \cup DigestRequests \cup {None},
                               digest : Digests \cup {None}]]
    /\ \A h \in Threads :
          /\ thread[h].pc \in FrameSteps => thread[h].call \in FramePlans
          /\ thread[h].pc \in DigestSteps => thread[h].call \in DigestRequests
          /\ thread[h].pc = "install" => thread[h].digest \in Digests

\* A row is filed under its plan's id, and the bundle of a completed one is
\* stored.
LedgerInv ==
    /\ epoch \in Nat /\ faults \in Nat /\ epoch <= faults /\ faults <= MaxFaults
    /\ \A i \in FrameIds : ledger[i] # None =>
          /\ ledger[i].plan.id = i /\ ledger[i].epoch <= epoch
          /\ ledger[i].status = "COMPLETE" => ledger[i].plan.output \in bundles

\* The ids in flight are the running rows of this epoch, and each of them has
\* one owner, which works on the row's plan, unless its roll-back failed.
OwnInv ==
    /\ \A i \in FrameIds :
          i \in inflight <=>
              ledger[i] # None /\ ledger[i].status = "RUNNING" /\ ledger[i].epoch = epoch
    /\ \A h \in Threads : thread[h].pc \in Holding =>
          thread[h].call.id \in inflight \ stuck /\ ledger[thread[h].call.id].plan = thread[h].call
    /\ \A g, h \in Threads :
          thread[g].pc \in Holding /\ thread[h].pc \in Holding
          /\ thread[g].call.id = thread[h].call.id => g = h
    /\ \A i \in inflight \ stuck :
          \E h \in Threads : thread[h].pc \in Holding /\ thread[h].call.id = i
    /\ \A h \in Threads : thread[h].pc = "waiting" => thread[h].call.id \in inflight

FrameTypes ==
    /\ staged \subseteq {p.source : p \in FramePlans}
    /\ bundles \subseteq {p.output : p \in FramePlans}
    /\ ledger \in [FrameIds -> LedgerRows \cup {None}]
    /\ memory \in [FrameIds -> MemoryRows \cup {None}]
    /\ stuck \subseteq inflight /\ inflight \subseteq FrameIds

FrameInv == FrameTypes /\ LedgerInv /\ OwnInv

DigestTypes ==
    /\ outputs \in [DigestIds -> OutputRows \cup {None}]
    /\ records \in [DigestIds -> DigestRequests \cup {None}]
    /\ registry \in Registries /\ sources \subseteq SourcesOf(registry)
    /\ digestLock \in Threads \cup {None}
    /\ calls \in [DigestIds -> Nat]

\* A digest is made by the holder of the lock for an id without an output, a
\* record stands for an output of its plan, and a call of the model beyond the
\* faults has its output, or is about to.
DigestInv ==
    /\ DigestTypes
    /\ \A h \in Threads : thread[h].pc \in Locked =>
          digestLock = h /\ records[thread[h].call.id] = None
    /\ \A h \in Threads : thread[h].pc \in {"model", "install"} =>
          outputs[thread[h].call.id] = None
    /\ \A h \in Threads : thread[h].pc = "record" =>
          outputs[thread[h].call.id] # None
          /\ outputs[thread[h].call.id].plan = thread[h].call.plan
    /\ \A i \in DigestIds : records[i] # None =>
          records[i].id = i /\ outputs[i] # None /\ outputs[i].plan = records[i].plan
    /\ \A i \in DigestIds :
          \/ calls[i] <= faults
          \/ /\ calls[i] <= faults + 1
             /\ \/ outputs[i] # None
                \/ \E h \in Threads : thread[h].pc = "install" /\ thread[h].call.id = i

\* What an answer says is durable.
Durable(a) ==
    \/ /\ a.call \in FramePlans
       /\ ledger[a.call.id] # None /\ ledger[a.call.id].plan = a.call
       /\ ledger[a.call.id].status = "COMPLETE" /\ a.output \in bundles
    \/ /\ a.call \in DigestRequests
       /\ records[a.call.id] = a.call
       /\ outputs[a.call.id] = [plan |-> a.call.plan, digest |-> a.output]

ToldInv == \A a \in told : Durable(a)

N5Inv == ThreadInv /\ FrameInv /\ DigestInv /\ ToldInv

-----------------------------------------------------------------------------
\* Plans and digest requests name ids of their services.
LEMMA CallIds ==
    /\ \A p \in FramePlans : p.id \in FrameIds /\ p # None
    /\ \A r \in DigestRequests : r.id \in DigestIds /\ r # None /\ r.plan \in UNION Registries
    /\ \A p \in FramePlans : p \notin DigestRequests
<1>1. \A r \in DigestRequests : r.plan \in UNION Registries
  BY N5Assumption
<1> QED
  BY <1>1, N5Assumption DEF FrameIds, DigestIds

\* A step outside the digest service keeps its invariant.
LEMMA DigestUntouched ==
    ASSUME N5Inv, UNCHANGED digestVars, faults' \in Nat, faults <= faults',
           \A h \in Threads : thread'[h] # thread[h] =>
               thread[h].pc \notin Locked /\ thread'[h].pc \notin Locked
    PROVE  DigestInv'
<1>1. UNCHANGED <<sources, outputs, records, registry, digestLock, calls>>
  BY DEF digestVars
<1>2. DigestTypes'
  BY <1>1 DEF N5Inv, DigestInv, DigestTypes
<1>3. \A h \in Threads : thread'[h].pc \in Locked => thread'[h] = thread[h]
  OBVIOUS
<1>4. \A h \in Threads : thread[h].pc = "install" => thread'[h] = thread[h]
  BY DEF Locked
<1>5. ASSUME NEW i \in DigestIds
      PROVE \/ calls[i] <= faults'
            \/ /\ calls[i] <= faults' + 1
               /\ \/ outputs[i] # None
                  \/ \E h \in Threads : thread'[h].pc = "install" /\ thread'[h].call.id = i
  <2>1. calls[i] \in Nat /\ faults \in Nat
    BY DEF N5Inv, DigestInv, DigestTypes, FrameInv, LedgerInv
  <2> QED
    BY <1>4, <2>1 DEF N5Inv, DigestInv
<1> QED
  BY <1>1, <1>2, <1>3, <1>5 DEF N5Inv, DigestInv, Locked

\* A step outside the frame service keeps its invariant.
LEMMA FramesUntouched ==
    ASSUME N5Inv, UNCHANGED frameVars, faults' \in Nat, faults <= faults', faults' <= MaxFaults,
           \A h \in Threads : thread'[h] # thread[h] =>
               /\ thread[h].pc \notin Holding \cup {"waiting"}
               /\ thread'[h].pc \notin Holding \cup {"waiting"}
    PROVE  FrameInv'
<1>1. UNCHANGED <<staged, bundles, ledger, inflight, memory, epoch, stuck>>
  BY DEF frameVars
<1>2. FrameTypes'
  BY <1>1 DEF N5Inv, FrameInv, FrameTypes
<1>3. LedgerInv'
  BY <1>1 DEF N5Inv, FrameInv, LedgerInv
<1>4. \A h \in Threads :
          thread[h].pc \in Holding \cup {"waiting"} \/ thread'[h].pc \in Holding \cup {"waiting"}
          => thread'[h] = thread[h]
  OBVIOUS
<1>5. OwnInv'
  BY <1>1, <1>4 DEF N5Inv, FrameInv, OwnInv
<1> QED
  BY <1>2, <1>3, <1>5 DEF FrameInv

\* Answers stay true while completed rows, bundles, outputs and records stay.
LEMMA AnswersStay ==
    ASSUME N5Inv, bundles \subseteq bundles',
           \A i \in FrameIds : ledger[i] # None /\ ledger[i].status = "COMPLETE" =>
               ledger'[i] = ledger[i],
           \A i \in DigestIds : outputs[i] # None => outputs'[i] = outputs[i],
           \A i \in DigestIds : records[i] # None => records'[i] = records[i],
           \A a \in told' : a \in told \/ Durable(a)'
    PROVE  ToldInv'
<1> SUFFICES ASSUME NEW a \in told PROVE Durable(a)'
  BY DEF ToldInv
<1>1. Durable(a)
  BY DEF N5Inv, ToldInv
<1>2. CASE a.call \in FramePlans
  <2>1. a.call.id \in FrameIds /\ a.call \notin DigestRequests
    BY <1>2, CallIds
  <2> QED
    BY <1>1, <1>2, <2>1 DEF Durable
<1>3. CASE a.call \in DigestRequests
  <2>1. /\ a.call.id \in DigestIds /\ a.call \notin FramePlans /\ a.call # None
        /\ records[a.call.id] = a.call
        /\ outputs[a.call.id] = [plan |-> a.call.plan, digest |-> a.output]
    BY <1>1, <1>3, CallIds DEF Durable
  <2>2. outputs[a.call.id] # None
    BY <2>1 DEF N5Inv, DigestInv
  <2> QED
    BY <1>3, <2>1, <2>2 DEF Durable
<1> QED
  BY <1>1, <1>2, <1>3 DEF Durable

-----------------------------------------------------------------------------
(* The frame service.                                                      *)

\* A plan begins as a claim that holds nothing.
LEMMA SubmitFramesKeeps ==
    ASSUME N5Inv, NEW h \in Threads, NEW p \in FramePlans, SubmitFrames(h, p)
    PROVE  N5Inv'
<1> USE DEF SubmitFrames, InThread
<1>1. thread' = [thread EXCEPT ![h] = [pc |-> "claim", call |-> p, digest |-> None]]
  BY DEF Begin
<1>2. ThreadInv'
  BY <1>1, CallIds DEF N5Inv, ThreadInv, FrameSteps, DigestSteps, Holding
<1>3. \A g \in Threads : thread'[g] # thread[g] =>
          g = h /\ thread[g].pc = "idle" /\ thread'[g].pc = "claim"
  BY <1>1 DEF N5Inv, ThreadInv
<1>4. faults' = faults /\ faults \in Nat /\ faults <= MaxFaults
  BY DEF N5Inv, FrameInv, LedgerInv
<1>5. DigestInv'
  BY <1>3, <1>4, DigestUntouched DEF Locked
<1>6. FrameInv'
  BY <1>3, <1>4, FramesUntouched DEF Holding
<1>7. ToldInv'
  BY AnswersStay DEF frameVars, digestVars
<1> QED
  BY <1>2, <1>5, <1>6, <1>7 DEF N5Inv

\* A staged source is no answer and no claim.
LEMMA StageSourceKeeps ==
    ASSUME N5Inv, NEW s \in {p.source : p \in FramePlans}, StageSource(s)
    PROVE  N5Inv'
<1>1. UNCHANGED <<bundles, ledger, inflight, memory, epoch, stuck, sources, outputs,
                  records, registry, digestLock, calls, thread, told, faults>>
  BY DEF StageSource, digestVars
<1>2. staged' \subseteq {p.source : p \in FramePlans}
  BY DEF StageSource, N5Inv, FrameInv, FrameTypes
<1>3. FrameInv'
  BY <1>1, <1>2 DEF N5Inv, FrameInv, FrameTypes, LedgerInv, OwnInv
<1> QED
  BY <1>1, <1>3 DEF N5Inv, ThreadInv, DigestInv, DigestTypes, ToldInv, Durable

\* One turn of the loop under the condition: the only step that takes an id
\* into flight, and only when no thread of this process executes it.
LEMMA ClaimKeeps ==
    ASSUME N5Inv, NEW h \in Threads, Claim(h)
    PROVE  N5Inv'
<1> DEFINE p == thread[h].call
           row == ledger[p.id]
<1>1. /\ p \in FramePlans /\ p.id \in FrameIds /\ thread[h].pc = "claim"
      /\ faults' = faults /\ faults \in Nat /\ faults <= MaxFaults
      /\ UNCHANGED <<staged, bundles, memory, epoch, stuck, faults>> /\ UNCHANGED digestVars
  BY CallIds DEF Claim, InThread, N5Inv, ThreadInv, FrameSteps, FrameInv, LedgerInv
<1>2. CASE Finish(h) /\ UNCHANGED <<ledger, inflight>>
             /\ (\A a \in told' : a \in told \/ Durable(a)')
  <2>1. /\ \A g \in Threads : g # h => thread'[g] = thread[g]
        /\ thread'[h] = [pc |-> "idle", call |-> None, digest |-> None]
        /\ thread' = [thread EXCEPT ![h] = [pc |-> "idle", call |-> None, digest |-> None]]
    BY <1>2 DEF Finish, Waits, N5Inv, ThreadInv
  <2>2. ThreadInv'
    BY <2>1 DEF N5Inv, ThreadInv, FrameSteps, DigestSteps, Holding
  <2>3. DigestInv'
    BY <1>1, <2>1, DigestUntouched DEF Locked
  <2>4. FrameInv'
    BY <1>1, <1>2, <2>1, FramesUntouched DEF Holding, frameVars
  <2>5. ToldInv'
    BY <1>1, <1>2, AnswersStay DEF digestVars
  <2> QED
    BY <2>2, <2>3, <2>4, <2>5 DEF N5Inv
<1>3. CASE /\ Claimable(p) /\ (row # None => row.plan = p)
           /\ ledger' = [ledger EXCEPT ![p.id] = Running(p)]
           /\ inflight' = inflight \cup {p.id}
           /\ Goto(h, "run") /\ UNCHANGED told
  <2>1. /\ \A g \in Threads : g # h => thread'[g] = thread[g]
        /\ thread'[h].pc = "run" /\ thread'[h].call = p
        /\ thread' \in [Threads -> [pc : {"idle"} \cup FrameSteps \cup DigestSteps,
                               call : FramePlans \cup DigestRequests \cup {None},
                               digest : Digests \cup {None}]]
    BY <1>3 DEF Goto, N5Inv, ThreadInv, FrameSteps, Holding
  <2>2. ThreadInv'
    BY <1>1, <2>1 DEF N5Inv, ThreadInv, FrameSteps, DigestSteps, Holding
  <2>3. DigestInv'
    BY <1>1, <2>1, DigestUntouched DEF Locked
  <2>4. epoch \in 0 .. MaxFaults /\ Running(p) \in LedgerRows /\ Running(p) # None
    BY <1>1, N5Assumption DEF N5Inv, FrameInv, LedgerInv, Running, LedgerRows
  <2>5. FrameTypes'
    BY <1>1, <1>3, <2>4 DEF N5Inv, FrameInv, FrameTypes
  <2>6. \A i \in FrameIds : ledger'[i] = IF i = p.id THEN Running(p) ELSE ledger[i]
    BY <1>1, <1>3 DEF N5Inv, FrameInv, FrameTypes
  <2>7. LedgerInv'
    BY <1>1, <2>4, <2>6 DEF N5Inv, FrameInv, LedgerInv, Running
  <2>8. p.id \notin inflight
    BY <1>1, <1>3 DEF Claimable, N5Inv, FrameInv, OwnInv
  <2>9. OwnInv'
    <3>1. \A i \in FrameIds : i \in inflight' <=>
              ledger'[i] # None /\ ledger'[i].status = "RUNNING" /\ ledger'[i].epoch = epoch'
      BY <1>1, <1>3, <2>4, <2>6 DEF N5Inv, FrameInv, OwnInv, Running
    <3>2. ASSUME NEW g \in Threads, thread'[g].pc \in Holding
          PROVE /\ thread'[g].call.id \in inflight' \ stuck'
                /\ ledger'[thread'[g].call.id].plan = thread'[g].call
                /\ g # h => thread[g].call.id # p.id
      <4>1. CASE g = h
        BY <1>1, <1>3, <2>1, <2>6, <2>8, <4>1 DEF N5Inv, FrameInv, FrameTypes, Running
      <4>2. CASE g # h
        BY <1>1, <1>3, <2>1, <2>6, <2>8, <3>2, <4>2 DEF N5Inv, FrameInv, FrameTypes, OwnInv
      <4> QED
        BY <4>1, <4>2
    <3>3. \A f, g \in Threads :
              thread'[f].pc \in Holding /\ thread'[g].pc \in Holding
              /\ thread'[f].call.id = thread'[g].call.id => f = g
      BY <2>1, <3>2 DEF N5Inv, FrameInv, OwnInv
    <3>4. \A i \in inflight' \ stuck' :
              \E g \in Threads : thread'[g].pc \in Holding /\ thread'[g].call.id = i
      BY <1>1, <1>3, <2>1 DEF N5Inv, FrameInv, OwnInv, Holding
    <3>5. \A g \in Threads : thread'[g].pc = "waiting" => thread'[g].call.id \in inflight'
      BY <1>3, <2>1 DEF N5Inv, FrameInv, OwnInv
    <3> QED
      BY <3>1, <3>2, <3>3, <3>4, <3>5 DEF OwnInv
  <2>10. ToldInv'
    BY <1>1, <1>3, <2>6, AnswersStay DEF digestVars, Claimable
  <2> QED
    BY <2>2, <2>3, <2>5, <2>7, <2>9, <2>10 DEF N5Inv, FrameInv
<1>4. CASE /\ row # None /\ row.status = "RUNNING" /\ ~Claimable(p)
           /\ Goto(h, "waiting") /\ UNCHANGED <<ledger, inflight, told>>
  <2>1. /\ \A g \in Threads : g # h => thread'[g] = thread[g]
        /\ thread'[h].pc = "waiting" /\ thread'[h].call = p
        /\ thread' \in [Threads -> [pc : {"idle"} \cup FrameSteps \cup DigestSteps,
                               call : FramePlans \cup DigestRequests \cup {None},
                               digest : Digests \cup {None}]]
    BY <1>4 DEF Goto, N5Inv, ThreadInv, FrameSteps, Holding
  <2>2. ThreadInv'
    BY <1>1, <2>1 DEF N5Inv, ThreadInv, FrameSteps, DigestSteps, Holding
  <2>3. DigestInv'
    BY <1>1, <2>1, DigestUntouched DEF Locked
  <2>4. p.id \in inflight
    BY <1>4 DEF Claimable
  <2>5. FrameTypes' /\ LedgerInv'
    BY <1>1, <1>4 DEF N5Inv, FrameInv, FrameTypes, LedgerInv
  <2>6. OwnInv'
    <3>1. \A g \in Threads : thread[g].pc \in Holding \/ thread'[g].pc \in Holding =>
              thread'[g] = thread[g]
      BY <1>1, <2>1 DEF Holding
    <3> QED
      BY <1>1, <1>4, <2>1, <2>4, <3>1 DEF N5Inv, FrameInv, OwnInv
  <2>7. ToldInv'
    BY <1>1, <1>4, AnswersStay DEF digestVars
  <2> QED
    BY <2>2, <2>3, <2>5, <2>6, <2>7 DEF N5Inv, FrameInv
<1>5. CASE /\ row # None /\ row.plan = p /\ row.status = "COMPLETE"
           /\ Tell(p, p.output) /\ Finish(h) /\ UNCHANGED <<ledger, inflight>>
  <2>1. p.output \in bundles
    BY <1>1, <1>5 DEF N5Inv, FrameInv, LedgerInv
  <2>2. \A a \in told' : a \in told \/ Durable(a)'
    BY <1>1, <1>5, <2>1 DEF Tell, Durable
  <2> QED
    BY <1>2, <1>5, <2>2
<1> QED
  BY <1>1, <1>2, <1>3, <1>4, <1>5 DEF Claim

\* The owner of an id goes on with it: it has run the plan, or something
\* failed and it will roll back.
LEMMA OwnerMoves ==
    ASSUME N5Inv, NEW h \in Threads, thread[h].pc \in Holding,
           NEW step \in Holding, Goto(h, step),
           memory' \in [FrameIds -> MemoryRows \cup {None}],
           UNCHANGED <<staged, bundles, ledger, inflight, epoch, stuck, digestVars, told>>,
           faults' \in Nat, faults <= faults', faults' <= MaxFaults
    PROVE  N5Inv'
<1>1. /\ \A g \in Threads : g # h => thread'[g] = thread[g]
      /\ thread'[h].pc = step /\ thread'[h].call = thread[h].call
      /\ thread' \in [Threads -> [pc : {"idle"} \cup FrameSteps \cup DigestSteps,
                               call : FramePlans \cup DigestRequests \cup {None},
                               digest : Digests \cup {None}]]
  BY DEF Goto, N5Inv, ThreadInv, FrameSteps
<1>2. \A g \in Threads : /\ thread'[g].call = thread[g].call
                         /\ thread'[g].pc \in Holding <=> thread[g].pc \in Holding
                         /\ thread'[g].pc \notin Holding => thread'[g] = thread[g]
  BY <1>1
<1>3. ThreadInv'
  BY <1>1, <1>2 DEF N5Inv, ThreadInv, FrameSteps, DigestSteps, Holding
<1>4. DigestInv'
  BY <1>1, DigestUntouched DEF Locked, Holding
<1>5. FrameTypes'
  BY DEF N5Inv, FrameInv, FrameTypes
<1>6. LedgerInv'
  BY DEF N5Inv, FrameInv, LedgerInv
<1>7. OwnInv'
  BY <1>2 DEF N5Inv, FrameInv, OwnInv, Holding
<1>8. ToldInv'
  BY AnswersStay DEF digestVars
<1> QED
  BY <1>3, <1>4, <1>5, <1>6, <1>7, <1>8 DEF N5Inv, FrameInv

\* What the owner of an id finds in the ledger.
LEMMA OwnedRow ==
    ASSUME N5Inv, NEW h \in Threads, thread[h].pc \in Holding
    PROVE  /\ thread[h].call \in FramePlans /\ thread[h].call.id \in FrameIds
           /\ thread[h].call.id \in inflight \ stuck
           /\ ledger[thread[h].call.id] = Running(thread[h].call)
           /\ Running(thread[h].call) \in LedgerRows /\ Running(thread[h].call) # None
           /\ epoch \in 0 .. MaxFaults
<1>1. /\ thread[h].call \in FramePlans /\ thread[h].call.id \in FrameIds
      /\ thread[h].call.id \in inflight \ stuck
  BY CallIds DEF N5Inv, ThreadInv, FrameSteps, FrameInv, OwnInv
<1> DEFINE row == ledger[thread[h].call.id]
<1>2. /\ row \in LedgerRows /\ row.plan = thread[h].call
      /\ row.status = "RUNNING" /\ row.epoch = epoch
  BY <1>1 DEF N5Inv, FrameInv, FrameTypes, OwnInv
<1>3. epoch \in 0 .. MaxFaults
  BY N5Assumption DEF N5Inv, FrameInv, LedgerInv
<1>4. Running(thread[h].call) \in LedgerRows /\ row = Running(thread[h].call)
  BY <1>1, <1>2, <1>3 DEF Running, LedgerRows
<1> QED
  BY <1>1, <1>3, <1>4, N5Assumption

\* The owner of an id ends: the row is completed or removed, and the threads
\* that wait for it look again.
LEMMA OwnerEnds ==
    ASSUME N5Inv, NEW h \in Threads, thread[h].pc \in Holding, EndAndNotify(h),
           NEW row \in LedgerRows \cup {None},
           row # None => /\ row.plan = thread[h].call /\ row.status = "COMPLETE"
                         /\ row.epoch = epoch /\ row.plan.output \in bundles',
           ledger' = [ledger EXCEPT ![thread[h].call.id] = row],
           inflight' = inflight \ {thread[h].call.id},
           bundles \subseteq bundles', bundles' \subseteq {p.output : p \in FramePlans},
           UNCHANGED <<staged, memory, epoch, stuck, digestVars, faults>>,
           \A a \in told' : a \in told \/ Durable(a)'
    PROVE  N5Inv'
<1> DEFINE p == thread[h].call
<1>1. /\ p \in FramePlans /\ p.id \in FrameIds /\ p.id \in inflight \ stuck
      /\ ledger[p.id] = Running(p) /\ Running(p) # None
  BY OwnedRow
<1>2. /\ faults \in Nat /\ faults <= MaxFaults
      /\ ledger \in [FrameIds -> LedgerRows \cup {None}]
  BY DEF N5Inv, FrameInv, LedgerInv, FrameTypes
<1>3. \A i \in FrameIds : ledger'[i] = IF i = p.id THEN row ELSE ledger[i]
  BY <1>1, <1>2
<1>4. /\ thread'[h] = Waits
      /\ \A g \in Threads \ {h} :
            thread'[g] = IF thread[g].pc = "waiting"
                         THEN [thread[g] EXCEPT !.pc = "claim"] ELSE thread[g]
      /\ DOMAIN thread' = Threads
  BY DEF EndAndNotify, InThread
<1>5. \A g \in Threads : /\ thread'[g].pc \in Holding \cup Locked => thread'[g] = thread[g] /\ g # h
                         /\ thread'[g].pc # "waiting"
                         /\ g # h /\ thread[g].pc # "waiting" => thread'[g] = thread[g]
                         /\ g # h => thread'[g].call = thread[g].call
  <2>1. \A g \in Threads : thread[g] \in
             [pc : {"idle"} \cup FrameSteps \cup DigestSteps,
              call : FramePlans \cup DigestRequests \cup {None}, digest : Digests \cup {None}]
    BY DEF N5Inv, ThreadInv
  <2>2. Waits.pc = "idle"
    BY DEF Waits
  <2> QED
    BY <1>4, <2>1, <2>2 DEF Holding, Locked
<1>6. ThreadInv'
  <2>1. ASSUME NEW g \in Threads
        PROVE  /\ thread'[g] \in [pc : {"idle"} \cup FrameSteps \cup DigestSteps,
                               call : FramePlans \cup DigestRequests \cup {None},
                               digest : Digests \cup {None}]
               /\ thread'[g].pc \in FrameSteps => thread'[g].call \in FramePlans
               /\ thread'[g].pc \in DigestSteps => thread'[g].call \in DigestRequests
               /\ thread'[g].pc = "install" => thread'[g].digest \in Digests
    <3>1. CASE g = h
      BY <1>4, <3>1 DEF Waits, FrameSteps, DigestSteps, Holding
    <3>2. CASE g # h /\ thread[g].pc # "waiting"
      BY <1>4, <3>2 DEF N5Inv, ThreadInv
    <3>3. CASE g # h /\ thread[g].pc = "waiting"
      BY <1>4, <3>3 DEF N5Inv, ThreadInv, FrameSteps, DigestSteps
    <3> QED
      BY <3>1, <3>2, <3>3
  <2>2. thread' = [g \in Threads |-> thread'[g]]
    BY DEF EndAndNotify
  <2> QED
    BY <2>1, <2>2 DEF ThreadInv
<1>7. DigestInv'
  <2>1. \A g \in Threads : thread'[g] # thread[g] =>
            thread[g].pc \notin Locked /\ thread'[g].pc \notin Locked
    BY <1>4, <1>5 DEF Locked, Holding
  <2> QED
    BY <1>2, <2>1, DigestUntouched
<1>8. FrameTypes'
  BY <1>1, <1>2 DEF N5Inv, FrameInv, FrameTypes
<1>9. LedgerInv'
  BY <1>3 DEF N5Inv, FrameInv, LedgerInv
<1>10. OwnInv'
  <2>1. \A i \in FrameIds : i \in inflight' <=>
            ledger'[i] # None /\ ledger'[i].status = "RUNNING" /\ ledger'[i].epoch = epoch'
    BY <1>3 DEF N5Inv, FrameInv, OwnInv
  <2>2. ASSUME NEW g \in Threads, thread'[g].pc \in Holding
        PROVE  /\ thread'[g] = thread[g] /\ g # h /\ thread[g].call.id # p.id
               /\ thread'[g].call.id \in inflight' \ stuck'
               /\ ledger'[thread'[g].call.id].plan = thread'[g].call
    <3>1. thread'[g] = thread[g] /\ g # h
      BY <1>5, <2>2
    <3>2. thread[g].call.id # p.id /\ thread[g].call.id \in inflight \ stuck
      BY <2>2, <3>1 DEF N5Inv, FrameInv, OwnInv
    <3>3. thread[g].call.id \in FrameIds
      BY <3>2 DEF N5Inv, FrameInv, FrameTypes
    <3> QED
      BY <1>3, <2>2, <3>1, <3>2, <3>3 DEF N5Inv, FrameInv, OwnInv
  <2>3. \A f, g \in Threads :
            thread'[f].pc \in Holding /\ thread'[g].pc \in Holding
            /\ thread'[f].call.id = thread'[g].call.id => f = g
    BY <2>2 DEF N5Inv, FrameInv, OwnInv
  <2>4. ASSUME NEW i \in inflight' \ stuck'
        PROVE  \E g \in Threads : thread'[g].pc \in Holding /\ thread'[g].call.id = i
    <3>1. PICK g \in Threads : thread[g].pc \in Holding /\ thread[g].call.id = i
      BY DEF N5Inv, FrameInv, OwnInv
    <3>2. g # h /\ thread[g].pc # "waiting"
      BY <3>1 DEF Holding
    <3> QED
      BY <1>5, <3>1, <3>2
  <2> QED
    BY <1>5, <2>1, <2>2, <2>3, <2>4 DEF OwnInv
<1>11. ToldInv'
  BY <1>1, <1>3, AnswersStay DEF digestVars, Running
<1> QED
  BY <1>6, <1>7, <1>8, <1>9, <1>10, <1>11 DEF N5Inv, FrameInv

\* The plan is run, or its id is bound to another plan in memory.
LEMMA RunPlanKeeps ==
    ASSUME N5Inv, NEW h \in Threads, RunPlan(h)
    PROVE  N5Inv'
<1>1. /\ thread[h].pc = "run" /\ thread[h].pc \in Holding /\ thread[h].call \in FramePlans
      /\ thread[h].call.id \in FrameIds
      /\ faults' = faults /\ faults \in Nat /\ faults <= MaxFaults
      /\ UNCHANGED <<staged, bundles, ledger, inflight, epoch, stuck, digestVars, told>>
  BY OwnedRow DEF RunPlan, InThread, Holding, N5Inv, FrameInv, LedgerInv
<1>2. memory \in [FrameIds -> MemoryRows \cup {None}]
  BY DEF N5Inv, FrameInv, FrameTypes
<1>3. [plan |-> thread[h].call, made |-> TRUE] \in MemoryRows
  BY <1>1 DEF MemoryRows
<1>4. memory' \in [FrameIds -> MemoryRows \cup {None}]
  BY <1>2, <1>3 DEF RunPlan
<1>5. \E step \in Holding : Goto(h, step)
  BY DEF RunPlan, Holding
<1> QED
  BY <1>1, <1>4, <1>5, OwnerMoves

LEMMA RunFailsKeeps ==
    ASSUME N5Inv, NEW h \in Threads, RunFails(h)
    PROVE  N5Inv'
<1>1. /\ thread[h].pc \in Holding /\ thread[h].call \in FramePlans
      /\ Goto(h, "raise") /\ "raise" \in Holding
      /\ faults' \in Nat /\ faults <= faults' /\ faults' <= MaxFaults
      /\ UNCHANGED <<staged, bundles, ledger, inflight, epoch, stuck, digestVars, told>>
  BY OwnedRow, N5Assumption DEF RunFails, Fail, InThread, Holding, N5Inv, FrameInv, LedgerInv
<1>2. [plan |-> thread[h].call, made |-> FALSE] \in MemoryRows
  BY <1>1 DEF MemoryRows
<1>3. memory' \in [FrameIds -> MemoryRows \cup {None}]
  BY <1>2 DEF RunFails, N5Inv, FrameInv, FrameTypes
<1> QED
  BY <1>1, <1>3, OwnerMoves

LEMMA CompleteFailsKeeps ==
    ASSUME N5Inv, NEW h \in Threads, CompleteFails(h)
    PROVE  N5Inv'
<1>1. /\ thread[h].pc \in Holding /\ Goto(h, "raise") /\ "raise" \in Holding
      /\ faults' \in Nat /\ faults <= faults' /\ faults' <= MaxFaults
      /\ UNCHANGED <<staged, bundles, ledger, inflight, memory, epoch, stuck, digestVars, told>>
  BY N5Assumption DEF CompleteFails, Fail, InThread, Holding, N5Inv, FrameInv, LedgerInv, frameVars
<1>2. memory' \in [FrameIds -> MemoryRows \cup {None}]
  BY <1>1 DEF N5Inv, FrameInv, FrameTypes
<1> QED
  BY <1>1, <1>2, OwnerMoves

\* The row the owner completes is its own.
LEMMA CompleteFramesKeeps ==
    ASSUME N5Inv, NEW h \in Threads, CompleteFrames(h)
    PROVE  N5Inv'
<1> DEFINE p == thread[h].call
           row == [Running(p) EXCEPT !.status = "COMPLETE"]
<1>1. /\ thread[h].pc \in Holding /\ p \in FramePlans /\ p.id \in FrameIds
      /\ ledger[p.id] = Running(p) /\ Running(p) \in LedgerRows /\ epoch \in 0 .. MaxFaults
  BY OwnedRow DEF CompleteFrames, InThread, Holding
<1>2. /\ bundles' = bundles \cup {p.output} /\ EndAndNotify(h)
      /\ ledger' = [ledger EXCEPT ![p.id].status = "COMPLETE"]
      /\ inflight' = inflight \ {p.id} /\ Tell(p, p.output)
      /\ UNCHANGED <<staged, memory, epoch, stuck, digestVars, faults>>
  BY <1>1 DEF CompleteFrames
<1>3. /\ row \in LedgerRows /\ row.plan = p /\ row.status = "COMPLETE" /\ row.epoch = epoch
      /\ row # None
  BY <1>1, N5Assumption DEF LedgerRows, Running
<1>4. ledger' = [ledger EXCEPT ![p.id] = row]
  BY <1>1, <1>2
<1>5. ledger'[p.id] = row
  BY <1>1, <1>4 DEF N5Inv, FrameInv, FrameTypes
<1>6. \A a \in told' : a \in told \/ Durable(a)'
  <2> HIDE DEF row
  <2> SUFFICES ASSUME NEW a, a = [call |-> p, output |-> p.output] PROVE Durable(a)'
    BY <1>2 DEF Tell
  <2>1. a.call = p /\ a.output = p.output
    OBVIOUS
  <2> QED
    BY <1>1, <1>2, <1>3, <1>5, <2>1 DEF Durable
<1>7. bundles \subseteq bundles' /\ p.output \in bundles' /\ bundles' \subseteq {q.output : q \in FramePlans}
  BY <1>1, <1>2 DEF N5Inv, FrameInv, FrameTypes
<1> HIDE DEF row
<1> QED
  BY <1>1, <1>2, <1>3, <1>4, <1>6, <1>7, OwnerEnds

LEMMA RollBackKeeps ==
    ASSUME N5Inv, NEW h \in Threads, RollBack(h)
    PROVE  N5Inv'
<1>1. /\ thread[h].pc \in Holding /\ thread[h].call.id \in FrameIds
      /\ ledger[thread[h].call.id] = Running(thread[h].call)
  BY OwnedRow DEF RollBack, InThread, Holding
<1>2. /\ ledger' = [ledger EXCEPT ![thread[h].call.id] = None]
      /\ inflight' = inflight \ {thread[h].call.id} /\ EndAndNotify(h)
      /\ UNCHANGED <<staged, bundles, memory, epoch, stuck, digestVars, told, faults>>
  BY <1>1 DEF RollBack
<1>3. bundles' \subseteq {p.output : p \in FramePlans}
  BY <1>2 DEF N5Inv, FrameInv, FrameTypes
<1> QED
  BY <1>1, <1>2, <1>3, OwnerEnds

\* A roll-back that fails leaves its id in flight without an owner.
LEMMA RollBackFailsKeeps ==
    ASSUME N5Inv, NEW h \in Threads, RollBackFails(h)
    PROVE  N5Inv'
<1> DEFINE p == thread[h].call
<1>1. /\ thread[h].pc \in Holding /\ p.id \in FrameIds /\ p.id \in inflight \ stuck
      /\ faults \in Nat /\ faults' = faults + 1 /\ faults' <= MaxFaults
      /\ stuck' = stuck \cup {p.id} /\ thread' = [thread EXCEPT ![h] = Waits]
      /\ UNCHANGED <<staged, bundles, ledger, inflight, memory, epoch, digestVars, told>>
  BY OwnedRow, N5Assumption
  DEF RollBackFails, Fail, Finish, InThread, Holding, N5Inv, FrameInv, LedgerInv
<1>2. /\ \A g \in Threads : g # h => thread'[g] = thread[g]
      /\ thread'[h] = [pc |-> "idle", call |-> None, digest |-> None]
  BY <1>1 DEF Waits, N5Inv, ThreadInv
<1>3. ThreadInv'
  BY <1>1, <1>2 DEF N5Inv, ThreadInv, FrameSteps, DigestSteps, Holding
<1>4. DigestInv'
  BY <1>1, <1>2, DigestUntouched DEF Locked, Holding
<1>5. FrameTypes'
  BY <1>1 DEF N5Inv, FrameInv, FrameTypes
<1>6. LedgerInv'
  BY <1>1 DEF N5Inv, FrameInv, LedgerInv
<1>7. OwnInv'
  <2>1. \A g \in Threads : /\ thread'[g].pc \in Holding =>
                                 thread'[g] = thread[g] /\ thread[g].call.id # p.id
                           /\ thread'[g].pc = "waiting" => thread'[g] = thread[g]
    BY <1>1, <1>2 DEF N5Inv, FrameInv, OwnInv, Holding
  <2>2. \A g \in Threads : thread[g].pc \in Holding /\ thread[g].call.id # p.id =>
            thread'[g] = thread[g]
    BY <1>2
  <2> QED
    BY <1>1, <2>1, <2>2 DEF N5Inv, FrameInv, OwnInv
<1>8. ToldInv'
  BY <1>1, AnswersStay DEF digestVars
<1> QED
  BY <1>3, <1>4, <1>5, <1>6, <1>7, <1>8 DEF N5Inv, FrameInv

\* The frame service dies: no thread owns anything, and every running row is
\* one of an earlier epoch.
LEMMA FramesDieKeeps ==
    ASSUME N5Inv, FramesDie
    PROVE  N5Inv'
<1>1. /\ faults \in Nat /\ faults' = faults + 1 /\ faults' <= MaxFaults
      /\ epoch \in Nat /\ epoch' = epoch + 1 /\ inflight' = {} /\ stuck' = {}
      /\ memory' = [i \in FrameIds |-> None]
      /\ UNCHANGED <<staged, bundles, ledger, digestVars, told>>
  BY N5Assumption DEF FramesDie, Fail, N5Inv, FrameInv, LedgerInv
<1>2. /\ \A g \in Threads : thread'[g] = IF thread[g].pc \in DigestSteps THEN thread[g]
                                         ELSE [pc |-> "idle", call |-> None, digest |-> None]
      /\ thread' = [g \in Threads |-> thread'[g]]
  BY DEF FramesDie, Waits
<1>3. \A g \in Threads : /\ thread'[g].pc \notin FrameSteps
                         /\ thread'[g].pc \in DigestSteps => thread'[g] = thread[g]
                         /\ thread[g].pc \in DigestSteps => thread'[g] = thread[g]
  BY <1>2 DEF FrameSteps, DigestSteps, Holding
<1>4. ThreadInv'
  <2>1. \A g \in Threads : thread'[g] \in [pc : {"idle"} \cup FrameSteps \cup DigestSteps,
                               call : FramePlans \cup DigestRequests \cup {None},
                               digest : Digests \cup {None}]
    BY <1>2 DEF N5Inv, ThreadInv
  <2>2. thread' \in [Threads -> [pc : {"idle"} \cup FrameSteps \cup DigestSteps,
                               call : FramePlans \cup DigestRequests \cup {None},
                               digest : Digests \cup {None}]]
    BY <1>2, <2>1
  <2> QED
    BY <1>3, <2>2 DEF N5Inv, ThreadInv, DigestSteps
<1>5. DigestInv'
  BY <1>1, <1>3, DigestUntouched DEF Locked, DigestSteps
<1>6. FrameTypes'
  BY <1>1 DEF N5Inv, FrameInv, FrameTypes
<1>7. \A i \in FrameIds : ledger[i] # None => ledger[i].epoch \in Nat /\ ledger[i].epoch <= epoch
  BY N5Assumption DEF N5Inv, FrameInv, FrameTypes, LedgerInv, LedgerRows
<1>8. LedgerInv'
  BY <1>1, <1>7 DEF N5Inv, FrameInv, LedgerInv
<1>9. OwnInv'
  BY <1>1, <1>3, <1>7 DEF OwnInv, FrameSteps, Holding
<1>10. ToldInv'
  BY <1>1, AnswersStay DEF digestVars
<1> QED
  BY <1>4, <1>5, <1>6, <1>8, <1>9, <1>10 DEF N5Inv, FrameInv

-----------------------------------------------------------------------------
(* The digest service.                                                     *)

LEMMA UploadSourceKeeps ==
    ASSUME N5Inv, NEW s, UploadSource(s)
    PROVE  N5Inv'
<1>1. /\ UNCHANGED <<staged, bundles, ledger, inflight, memory, epoch, stuck, outputs,
                     records, registry, digestLock, calls, thread, told, faults>>
      /\ sources' \subseteq SourcesOf(registry)'
  BY DEF UploadSource, frameVars, N5Inv, DigestInv, DigestTypes, SourcesOf
<1>2. DigestInv'
  BY <1>1 DEF N5Inv, DigestInv, DigestTypes
<1>3. FrameInv'
  BY <1>1 DEF N5Inv, FrameInv, FrameTypes, LedgerInv, OwnInv
<1> QED
  BY <1>1, <1>2, <1>3 DEF N5Inv, ThreadInv, ToldInv, Durable

LEMMA SubmitDigestKeeps ==
    ASSUME N5Inv, NEW h \in Threads, NEW r \in DigestRequests, SubmitDigest(h, r)
    PROVE  N5Inv'
<1> USE DEF SubmitDigest, InThread
<1>1. thread' = [thread EXCEPT ![h] = [pc |-> "enter", call |-> r, digest |-> None]]
  BY DEF Begin
<1>2. ThreadInv'
  BY <1>1, CallIds DEF N5Inv, ThreadInv, FrameSteps, DigestSteps, Holding
<1>3. \A g \in Threads : thread'[g] # thread[g] =>
          g = h /\ thread[g].pc = "idle" /\ thread'[g].pc = "enter"
  BY <1>1 DEF N5Inv, ThreadInv
<1>4. faults' = faults /\ faults \in Nat /\ faults <= MaxFaults
  BY DEF N5Inv, FrameInv, LedgerInv
<1>5. DigestInv'
  BY <1>3, <1>4, DigestUntouched DEF Locked
<1>6. FrameInv'
  BY <1>3, <1>4, FramesUntouched DEF Holding
<1>7. ToldInv'
  BY AnswersStay DEF frameVars, digestVars
<1> QED
  BY <1>2, <1>5, <1>6, <1>7 DEF N5Inv

\* A digest thread moves on, or ends: what that leaves of the other parts.
LEMMA DigestThread ==
    ASSUME N5Inv, NEW h \in Threads, thread[h].pc \in DigestSteps,
           \A g \in Threads : g # h => thread'[g] = thread[g],
           thread' \in [Threads -> [pc : {"idle"} \cup FrameSteps \cup DigestSteps,
                                    call : FramePlans \cup DigestRequests \cup {None},
                                    digest : Digests \cup {None}]],
           \/ thread'[h].pc = "idle"
           \/ /\ thread'[h].pc \in DigestSteps /\ thread'[h].call = thread[h].call
              /\ thread'[h].pc = "install" => thread'[h].digest \in Digests,
           UNCHANGED frameVars, faults' \in Nat, faults <= faults', faults' <= MaxFaults
    PROVE  /\ thread[h].call \in DigestRequests /\ thread[h].call.id \in DigestIds
           /\ ThreadInv' /\ FrameInv'
<1>1. thread[h].call \in DigestRequests /\ thread[h].call.id \in DigestIds
  BY CallIds DEF N5Inv, ThreadInv
<1>2. thread'[h].pc \in {"idle"} \cup DigestSteps
  OBVIOUS
<1>3. ThreadInv'
  BY <1>1 DEF N5Inv, ThreadInv, FrameSteps, DigestSteps, Holding
<1>4. FrameInv'
  <2>1. \A g \in Threads : thread'[g] # thread[g] =>
            /\ thread[g].pc \notin Holding \cup {"waiting"}
            /\ thread'[g].pc \notin Holding \cup {"waiting"}
    BY <1>2 DEF DigestSteps, Holding
  <2> QED
    BY <2>1, FramesUntouched
<1> QED
  BY <1>1, <1>3, <1>4

\* The digest invariant after a step of one thread that keeps the outputs,
\* the records and the calls: it takes the free lock, or gives it back.
LEMMA DigestLockMoves ==
    ASSUME N5Inv, NEW h \in Threads, UNCHANGED <<sources, outputs, records, registry, calls>>,
           \A g \in Threads : g # h => thread'[g] = thread[g],
           digestLock \in {h, None}, digestLock' \in {h, None}, faults' \in Nat,
           faults <= faults', thread[h].pc = "install" => faults < faults',
           thread'[h].pc \in Locked =>
               /\ digestLock' = h /\ thread'[h].call.id \in DigestIds
               /\ records[thread'[h].call.id] = None /\ thread'[h].pc \in {"model", "record"},
           thread'[h].pc = "model" => outputs[thread'[h].call.id] = None,
           thread'[h].pc = "record" =>
               /\ outputs[thread'[h].call.id] # None
               /\ outputs[thread'[h].call.id].plan = thread'[h].call.plan
    PROVE  DigestInv'
<1>1. DigestTypes'
  BY DEF N5Inv, DigestInv, DigestTypes, SourcesOf
<1>2. h # None
  BY N5Assumption
<1>3. \A g \in Threads : g # h => thread[g].pc \notin Locked /\ thread'[g].pc \notin Locked
  BY <1>2, N5Assumption DEF N5Inv, DigestInv
<1>4. ASSUME NEW i \in DigestIds
      PROVE \/ calls[i] <= faults'
            \/ calls[i] <= faults' + 1 /\ outputs[i] # None
  <2>1. calls[i] \in Nat /\ faults \in Nat
    BY DEF N5Inv, DigestInv, DigestTypes, FrameInv, LedgerInv
  <2>2. CASE \E g \in Threads : thread[g].pc = "install" /\ thread[g].call.id = i
    BY <1>3, <2>1, <2>2 DEF N5Inv, DigestInv, Locked
  <2>3. CASE ~\E g \in Threads : thread[g].pc = "install" /\ thread[g].call.id = i
    BY <2>1, <2>3 DEF N5Inv, DigestInv
  <2> QED
    BY <2>2, <2>3
<1>5. \A i \in DigestIds : records[i] # None =>
          records[i].id = i /\ outputs[i] # None /\ outputs[i].plan = records[i].plan
  BY DEF N5Inv, DigestInv
<1> QED
  BY <1>1, <1>3, <1>4, <1>5 DEF DigestInv, Locked

\* Under the lock: a recorded request is answered, an output without a record
\* gets one, and the model is called for an id that has neither.
LEMMA EnterDigestKeeps ==
    ASSUME N5Inv, NEW h \in Threads, EnterDigest(h)
    PROVE  N5Inv'
<1> DEFINE r == thread[h].call
           next == AfterLookup(r)
<1>1. /\ thread[h].pc = "enter" /\ "enter" \in DigestSteps /\ digestLock = None
      /\ UNCHANGED <<frameVars, sources, outputs, records, registry, calls, faults>>
      /\ faults \in Nat /\ faults <= MaxFaults
      /\ r \in DigestRequests /\ r.id \in DigestIds /\ r # None
  BY CallIds DEF EnterDigest, InThread, DigestSteps, N5Inv, FrameInv, LedgerInv, ThreadInv
<1>2. next \in {"answer", "refuse", "record", "model"}
  BY DEF AfterLookup
<1>3. CASE next = "answer" \/ next = "refuse"
  <2>1. thread' = [thread EXCEPT ![h] = Waits] /\ digestLock' = None
    BY <1>3 DEF EnterDigest, Finish
  <2>3. /\ thread'[h].pc = "idle" /\ \A g \in Threads : g # h => thread'[g] = thread[g]
        /\ thread' \in [Threads -> [pc : {"idle"} \cup FrameSteps \cup DigestSteps,
                               call : FramePlans \cup DigestRequests \cup {None},
                               digest : Digests \cup {None}]]
    BY <2>1 DEF N5Inv, ThreadInv, Waits
  <2>2. ThreadInv' /\ FrameInv'
    BY <1>1, <2>1, <2>3, DigestThread
  <2>4. DigestInv'
    BY <1>1, <2>1, <2>2, <2>3, DigestLockMoves DEF Locked
  <2>5. \A a \in told' : a \in told \/ Durable(a)'
    <3>1. CASE next = "refuse"
      BY <3>1 DEF EnterDigest
    <3>2. CASE next = "answer"
      <4>1. /\ records[r.id] = r /\ outputs[r.id] # None /\ outputs[r.id].plan = r.plan
            /\ told' = told \cup {[call |-> r, output |-> outputs[r.id].digest]}
        BY <3>2 DEF EnterDigest, AfterLookup, Verifiable, Tell
      <4>2. outputs[r.id] = [plan |-> r.plan, digest |-> outputs[r.id].digest]
        BY <1>1, <4>1 DEF N5Inv, DigestInv, DigestTypes, OutputRows
      <4> SUFFICES ASSUME NEW a, a = [call |-> r, output |-> outputs[r.id].digest]
                   PROVE  Durable(a)'
        BY <4>1
      <4>3. a.call = r /\ a.output = outputs[r.id].digest
        OBVIOUS
      <4> QED
        BY <1>1, <4>1, <4>2, <4>3 DEF Durable
    <3> QED
      BY <1>3, <3>1, <3>2
  <2>6. ToldInv'
    BY <1>1, <2>5, AnswersStay DEF frameVars
  <2> QED
    BY <2>2, <2>4, <2>6 DEF N5Inv
<1>4. CASE next = "record" \/ next = "model"
  <2>1. thread' = [thread EXCEPT ![h].pc = next] /\ digestLock' = h /\ told' = told
    BY <1>4 DEF EnterDigest, Goto
  <2>2. next \in DigestSteps /\ next # "install"
    BY <1>4 DEF DigestSteps
  <2> HIDE DEF next
  <2>5. /\ thread'[h].pc = next /\ thread'[h].call = r
        /\ \A g \in Threads : g # h => thread'[g] = thread[g]
        /\ thread' \in [Threads -> [pc : {"idle"} \cup FrameSteps \cup DigestSteps,
                               call : FramePlans \cup DigestRequests \cup {None},
                               digest : Digests \cup {None}]]
    BY <2>1, <2>2 DEF N5Inv, ThreadInv
  <2>4. ThreadInv' /\ FrameInv'
    BY <1>1, <2>2, <2>5, DigestThread
  <2> USE DEF next
  <2>6. records[r.id] = None
    BY <1>1, <1>4 DEF AfterLookup
  <2>7. next = "model" => outputs[r.id] = None
    BY <1>1, <2>6 DEF AfterLookup
  <2>8. next = "record" => outputs[r.id] # None /\ outputs[r.id].plan = r.plan
    BY <1>1, <2>6 DEF AfterLookup, Verifiable
  <2> HIDE DEF next
  <2>9. DigestInv'
    BY <1>1, <1>4, <2>1, <2>4, <2>5, <2>6, <2>7, <2>8, DigestLockMoves DEF Locked
  <2>10. ToldInv'
    BY <1>1, <2>1, AnswersStay DEF frameVars
  <2> QED
    BY <2>4, <2>9, <2>10 DEF N5Inv
<1> QED
  BY <1>2, <1>3, <1>4

\* The lock is what makes the call the only one beyond the faults.
LEMMA CallModelKeeps ==
    ASSUME N5Inv, NEW h \in Threads, CallModel(h)
    PROVE  N5Inv'
<1> DEFINE r == thread[h].call
<1>1. /\ thread[h].pc = "model" /\ "model" \in DigestSteps /\ "install" \in DigestSteps
      /\ UNCHANGED <<frameVars, sources, outputs, records, registry, digestLock, told, faults>>
      /\ calls' = [calls EXCEPT ![r.id] = @ + 1]
      /\ faults \in Nat /\ faults <= MaxFaults
  BY DEF CallModel, InThread, DigestSteps, N5Inv, FrameInv, LedgerInv
<1>2. PICK d \in Digests : thread' = [thread EXCEPT ![h].pc = "install", ![h].digest = d]
  BY DEF CallModel
<1>4. /\ thread'[h].pc = "install" /\ thread'[h].call = r /\ thread'[h].digest = d
      /\ \A g \in Threads : g # h => thread'[g] = thread[g]
      /\ thread' \in [Threads -> [pc : {"idle"} \cup FrameSteps \cup DigestSteps,
                               call : FramePlans \cup DigestRequests \cup {None},
                               digest : Digests \cup {None}]]
  BY <1>1, <1>2 DEF N5Inv, ThreadInv
<1>3. r.id \in DigestIds /\ ThreadInv' /\ FrameInv'
  BY <1>1, <1>4, DigestThread
<1>5. digestLock = h /\ records[r.id] = None /\ outputs[r.id] = None
  BY <1>1 DEF N5Inv, DigestInv, Locked
<1>6. \A g \in Threads : g # h => thread[g].pc \notin Locked
  BY <1>5 DEF N5Inv, DigestInv
<1>7. \A g \in Threads : thread[g].pc # "install"
  BY <1>1, <1>6 DEF Locked
<1>8. \A i \in DigestIds : /\ calls[i] \in Nat
                           /\ calls'[i] = IF i = r.id THEN calls[i] + 1 ELSE calls[i]
  BY <1>1, <1>3 DEF N5Inv, DigestInv, DigestTypes
<1>9. DigestTypes'
  BY <1>1, <1>3, <1>8 DEF N5Inv, DigestInv, DigestTypes
<1>10. \A i \in DigestIds :
          \/ calls'[i] <= faults
          \/ calls'[i] <= faults + 1 /\ (outputs[i] # None \/ i = r.id)
  BY <1>1, <1>5, <1>7, <1>8 DEF N5Inv, DigestInv
<1>11. DigestInv'
  BY <1>1, <1>3, <1>4, <1>5, <1>6, <1>9, <1>10 DEF N5Inv, DigestInv, Locked
<1>12. ToldInv'
  BY <1>1, AnswersStay DEF frameVars
<1> QED
  BY <1>3, <1>11, <1>12 DEF N5Inv

\* The first digest installed is the only one.
LEMMA InstallDigestKeeps ==
    ASSUME N5Inv, NEW h \in Threads, InstallDigest(h)
    PROVE  N5Inv'
<1> DEFINE r == thread[h].call
           row == [plan |-> r.plan, digest |-> thread[h].digest]
<1>1. /\ thread[h].pc = "install" /\ "install" \in DigestSteps /\ "record" \in DigestSteps
      /\ UNCHANGED <<frameVars, sources, records, registry, digestLock, calls, told, faults>>
      /\ outputs' = [outputs EXCEPT ![r.id] = row] /\ outputs[r.id] = None
      /\ thread' = [thread EXCEPT ![h].pc = "record"]
      /\ faults \in Nat /\ faults <= MaxFaults
  BY DEF InstallDigest, InThread, Goto, DigestSteps, N5Inv, FrameInv, LedgerInv
<1>3. thread[h].digest \in Digests
  BY <1>1 DEF N5Inv, ThreadInv
<1>5. /\ thread'[h].pc = "record" /\ thread'[h].call = r
      /\ \A g \in Threads : g # h => thread'[g] = thread[g]
      /\ thread' \in [Threads -> [pc : {"idle"} \cup FrameSteps \cup DigestSteps,
                               call : FramePlans \cup DigestRequests \cup {None},
                               digest : Digests \cup {None}]]
  BY <1>1 DEF N5Inv, ThreadInv
<1>4. r \in DigestRequests /\ r.id \in DigestIds /\ ThreadInv' /\ FrameInv'
  <2> HIDE DEF row
  <2> QED
    BY <1>1, <1>5, DigestThread
<1>6. digestLock = h /\ records[r.id] = None
  BY <1>1 DEF N5Inv, DigestInv, Locked
<1>7. \A g \in Threads : g # h => thread[g].pc \notin Locked
  BY <1>6 DEF N5Inv, DigestInv
<1>8. row \in OutputRows /\ row # None /\ row.plan = r.plan
  BY <1>3, <1>4, CallIds, N5Assumption DEF OutputRows
<1>9. \A i \in DigestIds : outputs'[i] = IF i = r.id THEN row ELSE outputs[i]
  BY <1>1, <1>4 DEF N5Inv, DigestInv, DigestTypes
<1>10. DigestTypes'
  BY <1>1, <1>4, <1>8, <1>9 DEF N5Inv, DigestInv, DigestTypes
<1> HIDE DEF row
<1>11. \A i \in DigestIds : records'[i] # None =>
          records'[i].id = i /\ outputs'[i] # None /\ outputs'[i].plan = records'[i].plan
  BY <1>1, <1>6, <1>9 DEF N5Inv, DigestInv
<1>12. \A i \in DigestIds :
          \/ calls[i] <= faults
          \/ calls[i] <= faults + 1 /\ outputs'[i] # None
  <2> SUFFICES ASSUME NEW i \in DigestIds
               PROVE  calls[i] <= faults \/ (calls[i] <= faults + 1 /\ outputs'[i] # None)
    OBVIOUS
  <2>1. \A g \in Threads : thread[g].pc = "install" => g = h
    BY <1>7 DEF Locked
  <2> QED
    BY <1>8, <1>9, <2>1 DEF N5Inv, DigestInv
<1>13. DigestInv'
  BY <1>1, <1>4, <1>5, <1>6, <1>7, <1>8, <1>9, <1>10, <1>11, <1>12 DEF DigestInv, Locked
<1>14. ToldInv'
  BY <1>1, <1>9, AnswersStay DEF frameVars
<1> QED
  BY <1>4, <1>13, <1>14 DEF N5Inv

\* The record is written for the request that made, or found, the output.
LEMMA WriteRecordKeeps ==
    ASSUME N5Inv, NEW h \in Threads, WriteRecord(h)
    PROVE  N5Inv'
<1> DEFINE r == thread[h].call
<1>1. /\ thread[h].pc = "record" /\ "record" \in DigestSteps
      /\ UNCHANGED <<frameVars, sources, outputs, registry, calls, faults>>
      /\ records' = [records EXCEPT ![r.id] = r] /\ digestLock' = None
      /\ told' = told \cup {[call |-> r, output |-> outputs[r.id].digest]}
      /\ thread' = [thread EXCEPT ![h] = Waits]
      /\ faults \in Nat /\ faults <= MaxFaults
  BY DEF WriteRecord, InThread, Finish, Tell, DigestSteps, N5Inv, FrameInv, LedgerInv
<1>3. /\ thread'[h].pc = "idle" /\ \A g \in Threads : g # h => thread'[g] = thread[g]
      /\ thread' \in [Threads -> [pc : {"idle"} \cup FrameSteps \cup DigestSteps,
                               call : FramePlans \cup DigestRequests \cup {None},
                               digest : Digests \cup {None}]]
  BY <1>1 DEF N5Inv, ThreadInv, Waits
<1>2. r \in DigestRequests /\ r.id \in DigestIds /\ ThreadInv' /\ FrameInv'
  BY <1>1, <1>3, DigestThread
<1>4. /\ digestLock = h /\ records[r.id] = None
      /\ outputs[r.id] # None /\ outputs[r.id].plan = r.plan
  BY <1>1 DEF N5Inv, DigestInv, Locked
<1>5. \A g \in Threads : thread'[g].pc \notin Locked
  BY <1>2, <1>3, <1>4 DEF N5Inv, DigestInv, Locked
<1>6. \A g \in Threads : thread[g].pc # "install"
  BY <1>1, <1>4 DEF N5Inv, DigestInv, Locked
<1>7. \A i \in DigestIds : records'[i] = IF i = r.id THEN r ELSE records[i]
  BY <1>1, <1>2 DEF N5Inv, DigestInv, DigestTypes
<1>8. DigestTypes'
  BY <1>1, <1>2 DEF N5Inv, DigestInv, DigestTypes, SourcesOf
<1>9. DigestInv'
  BY <1>1, <1>4, <1>5, <1>6, <1>7, <1>8 DEF N5Inv, DigestInv, Locked
<1>10. outputs[r.id] = [plan |-> r.plan, digest |-> outputs[r.id].digest]
  BY <1>2, <1>4 DEF N5Inv, DigestInv, DigestTypes, OutputRows
<1>11. \A a \in told' : a \in told \/ Durable(a)'
  <2> SUFFICES ASSUME NEW a, a = [call |-> r, output |-> outputs[r.id].digest]
               PROVE  Durable(a)'
    BY <1>1
  <2>1. a.call = r /\ a.output = outputs[r.id].digest
    OBVIOUS
  <2> QED
    BY <1>1, <1>2, <1>7, <1>10, <2>1 DEF Durable
<1>12. ToldInv'
  BY <1>1, <1>4, <1>7, <1>11, AnswersStay DEF frameVars
<1> QED
  BY <1>2, <1>9, <1>12 DEF N5Inv

\* A failure pays for the call of the model that has no output.
LEMMA DigestFailsKeeps ==
    ASSUME N5Inv, NEW h \in Threads, DigestFails(h)
    PROVE  N5Inv'
<1>1. /\ thread[h].pc \in DigestSteps /\ thread[h].pc \in Locked /\ "enter" \in DigestSteps
      /\ UNCHANGED <<frameVars, sources, outputs, records, registry, calls, told>>
      /\ digestLock' = None /\ thread' = [thread EXCEPT ![h] = Waits]
      /\ faults \in Nat /\ faults' = faults + 1 /\ faults' <= MaxFaults
  BY N5Assumption
  DEF DigestFails, Fail, Finish, DigestSteps, Locked, N5Inv, FrameInv, LedgerInv
<1>3. /\ thread'[h].pc = "idle" /\ \A g \in Threads : g # h => thread'[g] = thread[g]
      /\ thread' \in [Threads -> [pc : {"idle"} \cup FrameSteps \cup DigestSteps,
                               call : FramePlans \cup DigestRequests \cup {None},
                               digest : Digests \cup {None}]]
  BY <1>1 DEF N5Inv, ThreadInv, Waits
<1>2. ThreadInv' /\ FrameInv'
  BY <1>1, <1>3, DigestThread
<1>4. digestLock = h
  BY <1>1 DEF N5Inv, DigestInv
<1>5. DigestInv'
  BY <1>1, <1>2, <1>3, <1>4, DigestLockMoves DEF Locked
<1>6. ToldInv'
  BY <1>1, AnswersStay DEF frameVars
<1> QED
  BY <1>2, <1>5, <1>6 DEF N5Inv

\* A death ends the threads of the digest service; outputs and records stay.
LEMMA DigestDiesKeeps ==
    ASSUME N5Inv, NEW plans \in Registries, DigestDies(plans)
    PROVE  N5Inv'
<1>1. /\ faults \in Nat /\ faults' = faults + 1 /\ faults' <= MaxFaults
      /\ registry' = plans /\ sources' \subseteq SourcesOf(plans) /\ digestLock' = None
      /\ UNCHANGED <<frameVars, outputs, records, calls, told>>
  BY N5Assumption DEF DigestDies, Fail, N5Inv, FrameInv, LedgerInv
<1>2. /\ \A g \in Threads : thread'[g] = IF thread[g].pc \in DigestSteps
                                         THEN [pc |-> "idle", call |-> None, digest |-> None]
                                         ELSE thread[g]
      /\ thread' = [g \in Threads |-> thread'[g]]
  BY DEF DigestDies, Waits
<1>3. \A g \in Threads : /\ thread'[g].pc \notin DigestSteps
                         /\ thread'[g].pc \in FrameSteps => thread'[g] = thread[g]
                         /\ thread[g].pc \in FrameSteps => thread'[g] = thread[g]
  BY <1>2 DEF FrameSteps, DigestSteps, Holding
<1>4. ThreadInv'
  <2>1. \A g \in Threads : thread'[g] \in [pc : {"idle"} \cup FrameSteps \cup DigestSteps,
                               call : FramePlans \cup DigestRequests \cup {None},
                               digest : Digests \cup {None}]
    BY <1>2 DEF N5Inv, ThreadInv
  <2>2. thread' \in [Threads -> [pc : {"idle"} \cup FrameSteps \cup DigestSteps,
                               call : FramePlans \cup DigestRequests \cup {None},
                               digest : Digests \cup {None}]]
    BY <1>2, <2>1
  <2> QED
    BY <1>3, <2>2 DEF N5Inv, ThreadInv, DigestSteps
<1>5. FrameInv'
  BY <1>1, <1>3, FramesUntouched DEF FrameSteps, Holding
<1>6. DigestTypes'
  BY <1>1 DEF N5Inv, DigestInv, DigestTypes, SourcesOf
<1>7. \A i \in DigestIds : calls[i] \in Nat /\ calls[i] <= faults'
  BY <1>1 DEF N5Inv, DigestInv, DigestTypes
<1>8. DigestInv'
  BY <1>1, <1>3, <1>6, <1>7 DEF N5Inv, DigestInv, Locked, DigestSteps
<1>9. ToldInv'
  BY <1>1, AnswersStay DEF frameVars
<1> QED
  BY <1>4, <1>5, <1>8, <1>9 DEF N5Inv

-----------------------------------------------------------------------------
(* The N5 services as a whole.                                             *)

\* Both services start empty.
LEMMA N5Init == InitN5 => N5Inv
<1> SUFFICES ASSUME InitN5 PROVE N5Inv
  OBVIOUS
<1>1. ThreadInv
  BY DEF InitN5, ThreadInv, Waits, FrameSteps, DigestSteps, Holding
<1>2. FrameTypes
  BY DEF InitN5, FrameTypes
<1>3. LedgerInv
  BY N5Assumption DEF InitN5, LedgerInv
<1>4. OwnInv
  BY DEF InitN5, OwnInv, Waits, Holding
<1>5. DigestInv
  BY DEF InitN5, DigestInv, DigestTypes, Waits, Locked
<1>6. ToldInv
  BY DEF InitN5, ToldInv
<1> QED
  BY <1>1, <1>2, <1>3, <1>4, <1>5, <1>6 DEF N5Inv, FrameInv

\* A step of the system as each of the two nodes sees it.
LEMMA SystemStep ==
    ASSUME [NextSystem]_systemVars
    PROVE  /\ [Next]_vars
           /\ \/ UNCHANGED n5Vars
              \/ \E h \in Threads, p \in FramePlans : SubmitFrames(h, p)
              \/ \E h \in Threads, r \in DigestRequests : SubmitDigest(h, r)
              \/ N5Internal
<1>1. CASE UNCHANGED systemVars
  BY <1>1 DEF systemVars
<1>2. CASE NextSystem
  BY <1>2, Zenon DEF NextSystem, FetchResult, Publish, Next
<1> QED
  BY <1>1, <1>2

\* Every step of the system keeps the invariant of the N5 services.
LEMMA N5Step == N5Inv /\ [NextSystem]_systemVars => N5Inv'
<1> SUFFICES ASSUME N5Inv, [NextSystem]_systemVars PROVE N5Inv'
  OBVIOUS
<1>1. CASE UNCHANGED n5Vars
  <2>1. UNCHANGED <<staged, bundles, ledger, inflight, memory, epoch, stuck, sources, outputs,
                    records, registry, digestLock, calls, thread, told, faults>>
    BY <1>1 DEF n5Vars, frameVars, digestVars
  <2>2. FrameInv'
    BY <2>1 DEF N5Inv, FrameInv, FrameTypes, LedgerInv, OwnInv
  <2>3. DigestInv'
    BY <2>1 DEF N5Inv, DigestInv, DigestTypes, SourcesOf
  <2> QED
    BY <2>1, <2>2, <2>3 DEF N5Inv, ThreadInv, ToldInv, Durable
<1>2. CASE N5Internal
  <2>1. ASSUME NEW h \in Threads, FrameStep(h) \/ FrameFault(h) PROVE N5Inv'
    BY <2>1, ClaimKeeps, RunPlanKeeps, CompleteFramesKeeps, RollBackKeeps, RunFailsKeeps,
       CompleteFailsKeeps, RollBackFailsKeeps DEF FrameStep, FrameFault
  <2>2. ASSUME NEW h \in Threads, DigestStep(h) \/ DigestFails(h) PROVE N5Inv'
    BY <2>2, EnterDigestKeeps, CallModelKeeps, InstallDigestKeeps, WriteRecordKeeps,
       DigestFailsKeeps DEF DigestStep
  <2> QED
    BY <1>2, <2>1, <2>2, StageSourceKeeps, UploadSourceKeeps, FramesDieKeeps, DigestDiesKeeps
    DEF N5Internal
<1> QED
  BY <1>1, <1>2, SystemStep, SubmitFramesKeeps, SubmitDigestKeeps

\* The invariant of the two services holds of the whole system.
THEOREM N5Invariance == SystemSpec => []N5Inv
<1>1. InitSystem => N5Inv
  BY N5Init DEF InitSystem
<1> QED
  BY <1>1, N5Step, PTL DEF SystemSpec

\* The invariant implies that answers agree and claims are owned.
LEMMA N5InvMaterializes == N5Inv => MaterializedOnce
<1> SUFFICES ASSUME N5Inv PROVE N5AnswersAgree /\ ClaimsAreOwned
  BY DEF MaterializedOnce
<1>1. N5TypeOK
  BY N5Assumption DEF N5Inv, FrameInv, FrameTypes, LedgerInv, DigestInv, DigestTypes, N5TypeOK
<1>2. ASSUME NEW a \in told
      PROVE  IF a.call \in FramePlans
             THEN /\ ledger[a.call.id].plan = a.call
                  /\ ledger[a.call.id].status = "COMPLETE"
                  /\ a.output \in bundles
             ELSE /\ records[a.call.id] = a.call
                  /\ outputs[a.call.id] = [plan |-> a.call.plan, digest |-> a.output]
  BY CallIds DEF N5Inv, ToldInv, Durable
<1>3. \A i \in DigestIds : calls[i] <= 1 + faults
  BY DEF N5Inv, DigestInv, DigestTypes, FrameInv, LedgerInv
<1>4. N5AnswersAgree
  BY <1>1, <1>2, <1>3 DEF N5AnswersAgree, N5Inv, DigestInv
<1>5. ASSUME NEW i \in inflight \ stuck PROVE Cardinality(Executing(i)) = 1
  <2>1. PICK h \in Threads : thread[h].pc \in Holding /\ thread[h].call.id = i
    BY DEF N5Inv, FrameInv, OwnInv
  <2>2. \A g \in Threads : thread[g].pc \in Holding /\ thread[g].call.id = i => g = h
    BY <2>1 DEF N5Inv, FrameInv, OwnInv
  <2>3. Executing(i) = {h}
    BY <2>1, <2>2 DEF Executing, Holding
  <2> QED
    BY <2>3, FS_Singleton
<1>6. ASSUME NEW i \in FrameIds \ inflight PROVE Executing(i) = {}
  BY DEF Executing, N5Inv, FrameInv, OwnInv, Holding
<1>7. ClaimsAreOwned
  BY <1>5, <1>6 DEF ClaimsAreOwned, N5Inv, FrameInv, OwnInv, InThread
<1> QED
  BY <1>4, <1>7

\* All answers for an id agree with what is durable, the model is called again
\* only after a fault, and every id in flight has one owner.
THEOREM Materialized == SystemSpec => []MaterializedOnce
BY N5Invariance, N5InvMaterializes, PTL

-----------------------------------------------------------------------------
(* From N5 to the catalog of N4.                                           *)

\* What N5 holds for some answered or repeatable request.
Evidence ==
    bundles \cup {outputs[d].digest : d \in
                      {e \in DigestIds : outputs[e] # None /\ records[e] # None}}

\* What a client has fetched is evidence, and nothing else is on its way to
\* the catalog or in it.
ProvenanceInv ==
    /\ fetched \subseteq Evidence
    /\ \A h \in Handlers : req[h] # NoRequest =>
          \A k \in Keys : req[h].artifacts[k] \in fetched \cup {Absent}
    /\ \A i \in PublicationIds : publications[i] # NoRow =>
          \A k \in Keys : publications[i].generation.artifacts[k] \in fetched \cup {Absent}

\* No step of the services takes back a bundle, an output or a record.
LEMMA EvidenceStays ==
    ASSUME N5Inv, [NextSystem]_systemVars
    PROVE  Evidence \subseteq Evidence'
<1> SUFFICES /\ bundles \subseteq bundles'
             /\ \A i \in DigestIds : outputs[i] # None => outputs'[i] = outputs[i]
             /\ \A i \in DigestIds : records[i] # None => records'[i] # None
  BY DEF Evidence
<1>1. CASE UNCHANGED n5Vars
  BY <1>1 DEF n5Vars, frameVars, digestVars
<1>2. ASSUME NEW h \in Threads,
             \/ \E p \in FramePlans : SubmitFrames(h, p)
             \/ \E r \in DigestRequests : SubmitDigest(h, r)
      PROVE  UNCHANGED <<bundles, outputs, records>>
  BY <1>2 DEF SubmitFrames, SubmitDigest, frameVars, digestVars
<1>3. ASSUME NEW h \in Threads, FrameStep(h) \/ FrameFault(h)
      PROVE  bundles \subseteq bundles' /\ UNCHANGED <<outputs, records>>
  BY <1>3 DEF FrameStep, FrameFault, Claim, RunPlan, CompleteFrames, RollBack, RunFails,
              CompleteFails, RollBackFails, frameVars, digestVars
<1>4. ASSUME NEW h \in Threads, EnterDigest(h) \/ CallModel(h) \/ DigestFails(h)
      PROVE  UNCHANGED <<bundles, outputs, records>>
  BY <1>4 DEF EnterDigest, CallModel, DigestFails, frameVars
<1>5. ASSUME NEW h \in Threads, InstallDigest(h)
      PROVE  /\ UNCHANGED <<bundles, records>>
             /\ \A i \in DigestIds : outputs[i] # None => outputs'[i] = outputs[i]
  BY <1>5 DEF InstallDigest, frameVars, N5Inv, DigestInv, DigestTypes
<1>6. ASSUME NEW h \in Threads, WriteRecord(h)
      PROVE  /\ UNCHANGED <<bundles, outputs>>
             /\ \A i \in DigestIds : records[i] # None => records'[i] # None
  <2>1. thread[h].pc = "record" /\ records' = [records EXCEPT ![thread[h].call.id] = thread[h].call]
    BY <1>6 DEF WriteRecord, InThread
  <2>2. records[thread[h].call.id] = None
    BY <2>1 DEF N5Inv, DigestInv, Locked
  <2> QED
    BY <1>6, <2>1, <2>2 DEF WriteRecord, frameVars, N5Inv, DigestInv, DigestTypes
<1>7. ASSUME \/ \E s \in {p.source : p \in FramePlans} : StageSource(s)
             \/ \E s \in {r.source : r \in DigestRequests} : UploadSource(s)
             \/ FramesDie \/ \E plans \in Registries : DigestDies(plans)
      PROVE  UNCHANGED <<bundles, outputs, records>>
  BY <1>7 DEF StageSource, UploadSource, FramesDie, DigestDies, frameVars, digestVars
<1>8. CASE N5Internal
  BY <1>3, <1>4, <1>5, <1>6, <1>7, <1>8 DEF N5Internal, DigestStep
<1> QED
  BY <1>1, <1>2, <1>8, SystemStep

\* What can be downloaded is evidence.
LEMMA DownloadsAreEvidence == N5Inv => Downloadable \subseteq Evidence
<1> SUFFICES ASSUME N5Inv, NEW r \in DigestRequests, records[r.id] = r, Verifiable(r)
             PROVE  outputs[r.id].digest \in Evidence
  BY DEF Downloadable, Evidence
<1> QED
  BY CallIds DEF Evidence, Verifiable

\* A handler's request is its old one, none, or one a client has just sent
\* with artifacts it had fetched.
LEMMA RequestsAreFetched ==
    ASSUME IInv, [NextSystem]_systemVars, NEW h \in Handlers
    PROVE  \/ req'[h] = req[h] \/ req'[h] = NoRequest
           \/ \A k \in Keys : req'[h].artifacts[k] \in fetched \cup {Absent}
<1>1. CASE UNCHANGED vars
  BY <1>1 DEF vars
<1>2. ASSUME NEW g \in Handlers, Step(g)
      PROVE  req'[h] = req[h] \/ req'[h] = NoRequest
  <2>1. CASE SendReply(g)
    BY <2>1 DEF SendReply, IInv, TypeOK
  <2> QED
    BY <1>2, <2>1 DEF Step, ReadCurrent, BuildCandidate, BuildFails, InstallGeneration,
                      Commit, PublishFails
<1>3. CASE Crash
  BY <1>3 DEF Crash
<1>4. ASSUME NEW g \in Handlers, NEW r \in Requests, Publish(g, r)
      PROVE  \/ req'[h] = req[h]
             \/ \A k \in Keys : req'[h].artifacts[k] \in fetched \cup {Absent}
  BY <1>4 DEF Publish, Receive, IInv, TypeOK
<1>5. UNCHANGED systemVars => UNCHANGED vars
  BY DEF systemVars
<1> QED
  BY <1>1, <1>2, <1>3, <1>4, <1>5 DEF NextSystem, FetchResult

\* The artifacts of a combined generation come from its parts.
LEMMA CombinedArtifacts ==
    ASSUME NEW g, NEW r, NEW k \in Keys
    PROVE  \/ Combined(g, r).artifacts[k] = r.artifacts[k]
           \/ g # NoGeneration /\ Combined(g, r).artifacts[k] = g.artifacts[k]
           \/ Combined(g, r).artifacts[k] = Absent
BY DEF Combined, ArtifactsOf

\* Every step keeps the provenance.
LEMMA ProvenanceStep ==
    IInv /\ N5Inv /\ ProvenanceInv /\ [NextSystem]_systemVars => ProvenanceInv'
<1> SUFFICES ASSUME IInv, N5Inv, ProvenanceInv, [NextSystem]_systemVars PROVE ProvenanceInv'
  OBVIOUS
<1>1. fetched \subseteq fetched' /\ fetched' \subseteq fetched \cup Downloadable
  BY DEF NextSystem, FetchResult, Publish, systemVars
<1>2. fetched' \subseteq Evidence'
  BY <1>1, EvidenceStays, DownloadsAreEvidence DEF ProvenanceInv
<1>3. \A h \in Handlers : req'[h] # NoRequest =>
          \A k \in Keys : req'[h].artifacts[k] \in fetched' \cup {Absent}
  BY <1>1, RequestsAreFetched DEF ProvenanceInv
<1>4. ASSUME NEW i \in PublicationIds, publications'[i] # NoRow, NEW k \in Keys
      PROVE  publications'[i].generation.artifacts[k] \in fetched \cup {Absent}
  <2>1. CASE UNCHANGED <<current, publications>>
    BY <1>4, <2>1 DEF ProvenanceInv
  <2>2. CASE ~UNCHANGED <<current, publications>>
    <3>1. PICK h \in Handlers :
            /\ pc[h] = "commit" /\ req[h] \in Requests
            /\ publications' = [publications EXCEPT ![req[h].id] =
                   Row(req[h], Combined(base[h], req[h]), VersionOf(current))]
      BY <2>2, SystemStep, TableStep
    <3>2. CASE i # req[h].id
      BY <1>4, <3>1, <3>2 DEF ProvenanceInv
    <3>3. CASE i = req[h].id
      <4>1. publications'[i].generation = Combined(base[h], req[h])
        BY <3>1, <3>3 DEF IInv, TypeOK, Row
      <4>2. req[h].artifacts[k] \in fetched \cup {Absent}
        BY <3>1, HandlerAssumption DEF ProvenanceInv
      <4>3. base[h] # NoGeneration => Committed(publications, base[h])
        BY <3>1 DEF IInv, HandlerInv, Working
      <4>4. base[h] # NoGeneration => base[h].artifacts[k] \in fetched \cup {Absent}
        BY <4>3 DEF ProvenanceInv, Committed
      <4> QED
        BY <4>1, <4>2, <4>4, CombinedArtifacts
    <3> QED
      BY <3>2, <3>3
  <2> QED
    BY <2>1, <2>2
<1> QED
  BY <1>1, <1>2, <1>3, <1>4 DEF ProvenanceInv

\* Every artifact the N4 catalog serves is still held by N5 for the request it
\* was made by.
THEOREM PublishedEvidence == SystemSpec => []PublishedIsMaterialized
<1>1. InitSystem => IInv /\ N5Inv /\ ProvenanceInv
  <2>1. InitSystem => IInv /\ N5Inv
    BY N5Init, IInvInit DEF InitSystem
  <2>2. InitSystem => ProvenanceInv
    BY DEF InitSystem, Init, ProvenanceInv
  <2> QED
    BY <2>1, <2>2
<1>2. IInv /\ N5Inv /\ ProvenanceInv /\ [NextSystem]_systemVars => (IInv /\ N5Inv /\ ProvenanceInv)'
  BY N5Step, IInvStep, SystemStep, ProvenanceStep
<1>3. ProvenanceInv => PublishedIsMaterialized
  BY DEF ProvenanceInv, PublishedIsMaterialized, Evidence
<1> QED
  BY <1>1, <1>2, <1>3, PTL DEF SystemSpec

\* In the whole system the store is used as it was proved about alone, so its
\* receipts are final and its catalog implements the atomic one there too.
THEOREM SystemUsesStore == SystemSpec => Spec
<1>1. InitSystem => Init
  BY DEF InitSystem
<1>2. [NextSystem]_systemVars => [Next]_vars
  BY SystemStep
<1> QED
  BY <1>1, <1>2, PTL DEF SystemSpec, Spec
=============================================================================
