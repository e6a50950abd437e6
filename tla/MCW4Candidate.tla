--------------------------- MODULE MCW4Candidate ----------------------------
(* Two repetitions of a cached design on one coordinator, with a trial of   *)
(* the other one between them in the frozen order; the model may rank       *)
(* another candidate in the second repetition.                              *)
EXTENDS W4Candidate

CONSTANTS n7, n8, d, f1, f2

AlternatingNodes == [t \in 1 .. 3 |-> IF t \in {1, 3} THEN n7 ELSE n8]
RepeatedOnce == [t \in 1 .. 3 |-> IF t < 3 THEN 0 ELSE 1]
TwoPrefixes == [t \in 1 .. 3 |-> IF t \in {1, 3} THEN {{d, f1}, {d, f2}} ELSE {{d}}]
=============================================================================
