------------------------------ MODULE N4Catalog ------------------------------
(***************************************************************************)
(* What the N4 store promises its clients: one catalog, changed only by    *)
(* whole publications, each applied at most once and to exactly the        *)
(* catalog it replaces.                                                    *)
(***************************************************************************)
EXTENDS N4Data

VARIABLES
    catalog,    \* the visible generation
    receipts    \* the receipt of each publication id

Init ==
    /\ catalog = NoGeneration
    /\ receipts = [i \in PublicationIds |-> NoRow]

\* One atomic publication.
Publish(r) ==
    /\ receipts[r.id] = NoRow
    /\ VersionOf(catalog) = r.expect
    /\ catalog' = Combined(catalog, r)
    /\ receipts' = [receipts EXCEPT ![r.id] =
                        Row(r, Combined(catalog, r), VersionOf(catalog))]

Next == \E r \in Requests : Publish(r)

Spec == Init /\ [][Next]_<<catalog, receipts>>
=============================================================================
