------------------------ MODULE MCDerivedProvisioning ------------------------
(* Publications that compete for one catalog version, one that extends the   *)
(* winner under a publication id that was used before, and plans that reuse   *)
(* their ids at N5.  Artifact x is a frame bundle, y and z are digests.       *)
EXTENDS DerivedProvisioning, TLC

CONSTANTS k1, k2, x, y, z, v1, v2, v3, v4, p1, p2, p3, h1, h2, a, b, d, e, s, t

Put(i, v, replaces, first, second) ==
    [id |-> i, version |-> v, expect |-> replaces,
     artifacts |-> [k \in Keys |-> IF k = k1 THEN first ELSE second]]

\* Every label is committed by one request.
ChainRequests ==
    {Put(p1, v1, NoVersion, x, Absent),
     Put(p2, v2, v1, y, Absent),
     Put(p3, v3, v1, Absent, y),
     Put(p2, v4, v2, Absent, x)}

\* publish's docstring calls lost updates impossible; that needs clients which do
\* not commit a label twice, and nothing in the code makes them.
ASSUME UniqueLabelsHold == UniqueLabels

MCFramePlans ==
    {[id |-> "f", source |-> s, output |-> x], [id |-> "f", source |-> s, output |-> z]}
MCDigestRequests ==
    {[id |-> "g", plan |-> d, source |-> s], [id |-> "g", plan |-> e, source |-> t]}
MCRegistries == {{d, e}, {e}}

\* Threads and handlers are alike.
Alike == Permutations(Threads) \cup Permutations(Handlers)
=============================================================================
