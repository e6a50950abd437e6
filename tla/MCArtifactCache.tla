--------------------------- MODULE MCArtifactCache ---------------------------
(* Instances of the artifact cache for TLC: payloads of one and two units   *)
(* of a capacity of three, a key whose content changes, and a request id    *)
(* used for two puts.                                                       *)
EXTENDS ArtifactCache

CONSTANTS k1, k2, k3, x, y, z, i1, i2, i3, h1, h2

Put(i, k, c) == [id |-> i, key |-> k, content |-> c]

SmallPuts ==
    {Put(i1, k1, x), Put(i2, k2, y), Put(i3, k3, z), Put(i3, k1, y)}

Sizes == [c \in Contents |-> IF c = x THEN 1 ELSE IF c = y THEN 1 ELSE 2]
=============================================================================
