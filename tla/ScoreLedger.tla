----------------------------- MODULE ScoreLedger -----------------------------
(***************************************************************************)
(* The N1 oracle: N1HiddenOracleService and _SQLiteScoreStore of           *)
(* simulator/hidden_oracle.py behind its threaded HTTP service.            *)
(*                                                                         *)
(* A request is first looked for with two SELECTs outside any transaction, *)
(* then scored against the mounted labels, then stored by a transaction    *)
(* that looks again.  Handler threads interleave between these steps, and  *)
(* the process may die and be started again, with other labels too.        *)
(***************************************************************************)
EXTENDS ScoreData, Naturals

CONSTANTS
    Handlers,       \* threads of the HTTP server, one request each
    NoRequest,
    MaxCrashes,     \* bound on the process deaths explored
    MaxFailures     \* bound on the database errors explored

ASSUME LedgerAssumption ==
    /\ NoRequest \notin Requests
    /\ MaxCrashes \in Nat /\ MaxFailures \in Nat

VARIABLES
    bound,          \* oracle_state: the package the database is bound to
    mounted,        \* the package of the running service
    scores,         \* oracle_scores, by score_request_id
    pc, req,        \* each handler: its next step and its request
    seen,           \* the row the handler's first SELECT returned
    reply,          \* the handler's answer: status and row
    evidence,       \* results that reached a client
    crashes, failures

disk == <<bound, scores>>
bounds == <<crashes, failures>>
vars == <<disk, mounted, pc, req, seen, reply, evidence, bounds>>

NoReply == [status |-> "none", row |-> NoRow]
Statuses == {"none", "scored", "replay", "conflict", "invalid", "failed"}

Init ==
    /\ bound = NoPackage /\ mounted = NoPackage
    /\ scores = [i \in RequestIds |-> NoRow]
    /\ pc = [h \in Handlers |-> "idle"]
    /\ req = [h \in Handlers |-> NoRequest]
    /\ seen = [h \in Handlers |-> NoRow]
    /\ reply = [h \in Handlers |-> NoReply]
    /\ evidence = {}
    /\ crashes = 0 /\ failures = 0

-----------------------------------------------------------------------------
\* The service starts: _initialize binds a new database to the mounted
\* package and refuses a database bound to another one.
Start(p) ==
    /\ mounted = NoPackage
    /\ bound \in {NoPackage, p}
    /\ mounted' = p
    /\ bound' = p
    /\ UNCHANGED <<scores, pc, req, seen, reply, evidence, bounds>>

Crash ==
    /\ mounted # NoPackage
    /\ crashes < MaxCrashes
    /\ crashes' = crashes + 1
    /\ mounted' = NoPackage
    /\ pc' = [h \in Handlers |-> "idle"]
    /\ req' = [h \in Handlers |-> NoRequest]
    /\ seen' = [h \in Handlers |-> NoRow]
    /\ reply' = [h \in Handlers |-> NoReply]
    /\ UNCHANGED <<disk, evidence, failures>>

-----------------------------------------------------------------------------
(* The steps of one call of score.                                         *)

\* A well-formed request of a client, sent for the first time or again.
Receive(h, r) ==
    /\ mounted # NoPackage
    /\ pc[h] = "idle"
    /\ pc' = [pc EXCEPT ![h] = "byId"]
    /\ req' = [req EXCEPT ![h] = r]
    /\ UNCHANGED <<disk, mounted, seen, reply, evidence, bounds>>

Answer(h, status, row) ==
    /\ pc' = [pc EXCEPT ![h] = "reply"]
    /\ reply' = [reply EXCEPT ![h] = [status |-> status, row |-> row]]

\* replay_if_present, first SELECT.
SelectById(h) ==
    /\ pc[h] = "byId"
    /\ seen' = [seen EXCEPT ![h] = scores[req[h].id]]
    /\ pc' = [pc EXCEPT ![h] = "byUnit"]
    /\ UNCHANGED <<disk, mounted, req, reply, evidence, bounds>>

Consumed(unit) ==
    \E i \in RequestIds : scores[i] # NoRow /\ scores[i].request.unit = unit

\* A stored row under the request's id is replayed when it is the row of the
\* same request, and a conflict otherwise.
AnswerFrom(h, row) ==
    IF row.request = req[h]
      THEN Answer(h, "replay", row)
      ELSE Answer(h, "conflict", NoRow)

\* replay_if_present, second SELECT and its decision; score then looks the
\* label up and computes the response.
SelectByUnit(h) ==
    /\ pc[h] = "byUnit"
    /\ \/ /\ seen[h] # NoRow
          /\ AnswerFrom(h, seen[h])
       \/ /\ seen[h] = NoRow
          /\ Consumed(req[h].unit)
          /\ Answer(h, "conflict", NoRow)
       \/ /\ seen[h] = NoRow
          /\ ~Consumed(req[h].unit)
          /\ ~Labelled(mounted, req[h])
          /\ Answer(h, "invalid", NoRow)
       \/ /\ seen[h] = NoRow
          /\ ~Consumed(req[h].unit)
          /\ Labelled(mounted, req[h])
          /\ pc' = [pc EXCEPT ![h] = "execute"]
          /\ UNCHANGED reply
    /\ seen' = [seen EXCEPT ![h] = NoRow]
    /\ UNCHANGED <<disk, mounted, req, evidence, bounds>>

Insert(h) ==
    LET row == Row(mounted, req[h]) IN
    /\ scores' = [scores EXCEPT ![req[h].id] = row]
    /\ Answer(h, "scored", row)

\* Mutant: the transaction trusts the lookup made before it.
ExecuteBlindly(h) ==
    /\ pc[h] = "execute"
    /\ Insert(h)
    /\ UNCHANGED <<bound, mounted, req, seen, evidence, bounds>>

\* Mutant: the transaction does not look for the evaluation unit.
ExecuteByIdOnly(h) ==
    LET row == scores[req[h].id] IN
    /\ pc[h] = "execute"
    /\ \/ row # NoRow /\ AnswerFrom(h, row) /\ UNCHANGED scores
       \/ row = NoRow /\ Insert(h)
    /\ UNCHANGED <<bound, mounted, req, seen, evidence, bounds>>

\* execute_once: the BEGIN IMMEDIATE transaction.
ExecuteOnce(h) ==
    LET row == scores[req[h].id] IN
    /\ pc[h] = "execute"
    /\ \/ /\ row # NoRow
          /\ AnswerFrom(h, row)
          /\ UNCHANGED scores
       \/ /\ row = NoRow
          /\ Consumed(req[h].unit)
          /\ Answer(h, "conflict", NoRow)
          /\ UNCHANGED scores
       \/ /\ row = NoRow
          /\ ~Consumed(req[h].unit)
          /\ Insert(h)
    /\ UNCHANGED <<bound, mounted, req, seen, evidence, bounds>>

\* A statement raises (database locked for 30 seconds, disk full): the
\* transaction is rolled back and the client told of an internal error.
StoreFails(h) ==
    /\ pc[h] \in {"byId", "byUnit", "execute"}
    /\ failures < MaxFailures
    /\ failures' = failures + 1
    /\ seen' = [seen EXCEPT ![h] = NoRow]
    /\ Answer(h, "failed", NoRow)
    /\ UNCHANGED <<disk, mounted, req, evidence, crashes>>

\* The answer is sent; it reaches the client or is lost.
SendReply(h) ==
    /\ pc[h] = "reply"
    /\ pc' = [pc EXCEPT ![h] = "idle"]
    /\ req' = [req EXCEPT ![h] = NoRequest]
    /\ reply' = [reply EXCEPT ![h] = NoReply]
    /\ \/ reply[h].row # NoRow /\ evidence' = evidence \cup {reply[h].row}
       \/ UNCHANGED evidence
    /\ UNCHANGED <<disk, mounted, seen, bounds>>

Step(h) == SelectById(h) \/ SelectByUnit(h) \/ ExecuteOnce(h) \/ SendReply(h)

Next ==
    \/ \E p \in Packages : Start(p)
    \/ Crash
    \/ \E h \in Handlers : \E r \in Requests : Receive(h, r)
    \/ \E h \in Handlers : Step(h) \/ StoreFails(h)

Spec == Init /\ [][Next]_vars

-----------------------------------------------------------------------------
TypeOK ==
    /\ {bound, mounted} \subseteq Packages \cup {NoPackage}
    /\ scores \in [RequestIds -> RowType \cup {NoRow}]
    /\ pc \in [Handlers -> {"idle", "byId", "byUnit", "execute", "reply"}]
    /\ req \in [Handlers -> Requests \cup {NoRequest}]
    /\ \A h \in Handlers : pc[h] # "idle" => req[h] \in Requests
    /\ seen \in [Handlers -> RowType \cup {NoRow}]
    /\ reply \in [Handlers -> [status : Statuses, row : RowType \cup {NoRow}]]
    /\ evidence \subseteq RowType
    /\ crashes \in Nat /\ failures \in Nat

\* A score told to a client is the durable score of that very request,
\* whoever stored it, and so is every result a client still holds after
\* restarts (class docstring: "durable exactly-once evidence").
ReplyIsStored ==
    /\ \A h \in Handlers :
          reply[h].status \in {"scored", "replay"} =>
              /\ scores[req[h].id] = reply[h].row
              /\ reply[h].row.request = req[h]
    /\ \A e \in evidence : scores[e.request.id] = e

\* A conflict is told only when the id is bound to another request or the
\* unit is consumed: no request is turned away from a unit that is still
\* open (replay_if_present, execute_once).
ConflictIsJustified ==
    \A h \in Handlers :
        reply[h].status = "conflict" =>
            \/ scores[req[h].id] # NoRow /\ scores[req[h].id].request # req[h]
            \/ Consumed(req[h].unit)

\* Every stored score agrees with the labels the service has mounted, over
\* restarts with any package (_initialize refuses another package).
ScoresMatchLabels ==
    \A i \in RequestIds :
        scores[i] # NoRow =>
            /\ mounted \in {NoPackage, scores[i].package}
            /\ scores[i] = Row(bound, scores[i].request)

\* Every answer of the oracle is justified by what is durable: a score is the
\* stored one of that request and agrees with the labels, a conflict has its
\* reason, whatever runs concurrently, fails or is restarted.
AnswersAreTrue == TypeOK /\ ReplyIsStored /\ ConflictIsJustified /\ ScoresMatchLabels

\* The durable tables implement the one-shot ledger.
OneShot == INSTANCE OneShotLedger WITH
    book <- bound,
    ledger <- {scores[i] : i \in RequestIds} \ {NoRow}

OneShotSpec == OneShot!Spec
=============================================================================
