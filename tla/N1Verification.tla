--------------------------- MODULE N1Verification ----------------------------
(***************************************************************************)
(* The remote score verifier of N1: N1RemoteScoreVerificationService and   *)
(* _VerificationReplayStore of                                             *)
(* simulator/full_flow_n1_remote_verification.py, composed with the oracle *)
(* whose results clients bring to it.  It has a process and a database of  *)
(* its own, a package mounted by the operator and no view of the oracle's  *)
(* scores; each verification consumes one challenge and one of             *)
(* max_verifications slots.                                                *)
(***************************************************************************)
EXTENDS ScoreLedger, FiniteSets

CONSTANTS
    Challenges,         \* values of verification_request_id
    MaxVerifications,   \* max_verifications
    MaxRemounts         \* bound on the restarts of the verifier explored

ASSUME VerifierAssumption ==
    MaxVerifications \in Nat \ {0} /\ MaxRemounts \in Nat

VARIABLES
    labels,         \* the package the verifier has mounted
    consumed,       \* consumed_challenges: the result by challenge
    attested,       \* attestations [challenge, row] that reached a client
    remounts

oracle == vars
verifier == <<labels, consumed, attested, remounts>>

InitV ==
    /\ labels \in Packages
    /\ consumed = [c \in Challenges |-> NoRow]
    /\ attested = {}
    /\ remounts = 0

\* verify_n1_score_result: the evidence is recomputed from the verifier's own
\* labels.
Verifies(row) == Labelled(labels, row.request) /\ row = Row(labels, row.request)

Slots == Cardinality({c \in Challenges : consumed[c] # NoRow})

\* Mutant: the replay ledger has no capacity.
UnusedUnbounded(c) == consumed[c] = NoRow

\* consume: the challenge is new and the replay ledger has room.
Unused(c) == consumed[c] = NoRow /\ Slots < MaxVerifications

\* verify: a refused request changes nothing; an accepted one consumes its
\* challenge before the attestation is sent, and the attestation may be lost.
Verify(c, row) ==
    /\ Unused(c)
    /\ Verifies(row)
    /\ consumed' = [consumed EXCEPT ![c] = row]
    /\ attested' \in {attested, attested \cup {[challenge |-> c, row |-> row]}}
    /\ UNCHANGED <<labels, remounts>>

\* The verifier restarts, with the same or another package of the same public
\* task set: its database binding does not name the hidden labels.
Remount(p) ==
    /\ remounts < MaxRemounts
    /\ remounts' = remounts + 1
    /\ labels' = p
    /\ UNCHANGED <<consumed, attested>>

NextV ==
    \/ \E c \in Challenges : \E row \in evidence : Verify(c, row)
    \/ \E p \in Packages : Remount(p)

InitSystem == Init /\ InitV

NextSystem ==
    \/ Next /\ UNCHANGED verifier
    \/ NextV /\ UNCHANGED oracle

SystemSpec == InitSystem /\ [][NextSystem]_<<oracle, verifier>>

-----------------------------------------------------------------------------
\* Whatever was attested, before or after restarts of either service and with
\* any labels mounted, is the durable score of its evaluation unit, although
\* the verifier never sees the oracle's database: two attestations of one unit
\* therefore agree (_build_attestation).
AttestationIsDurable ==
    \A c \in Challenges :
        consumed[c] # NoRow => scores[consumed[c].request.id] = consumed[c]

\* Clients together hold at most max_verifications attestations, one for each
\* challenge, also when answers are lost and challenges sent twice (consume).
AttestedWithinCapacity ==
    /\ Cardinality(attested) <= MaxVerifications
    /\ \A a, b \in attested : a.challenge = b.challenge => a = b

\* The verifier attests only durable scores, once for each challenge, and
\* within its capacity, over restarts of both services.
AttestedOnce == AttestationIsDurable /\ AttestedWithinCapacity
=============================================================================
