---------------------------- MODULE OneShotLedger ----------------------------
(***************************************************************************)
(* What the N1 oracle promises: one label package scores each evaluation   *)
(* unit at most once, and what was scored stays.                           *)
(***************************************************************************)
EXTENDS ScoreData

VARIABLES
    book,       \* the package in use
    ledger      \* the scores given

Init == book = NoPackage /\ ledger = {}

Open(p) ==
    /\ book = NoPackage
    /\ book' = p
    /\ UNCHANGED ledger

ScoreUnit(r) ==
    /\ book # NoPackage /\ Labelled(book, r)
    /\ \A row \in ledger : row.request.unit # r.unit /\ row.request.id # r.id
    /\ ledger' = ledger \cup {Row(book, r)}
    /\ UNCHANGED book

Next == (\E p \in Packages : Open(p)) \/ (\E r \in Requests : ScoreUnit(r))

Spec == Init /\ [][Next]_<<book, ledger>>
=============================================================================
