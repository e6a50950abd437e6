---------------------------- MODULE MCRouteCache -----------------------------
(* A workload with two cached artifacts and one with a third, in a cache    *)
(* that holds two.                                                          *)
EXTENDS RouteCache

CONSTANTS wa, wb, k1, k2, k3

TwoAndOne == [w \in Workloads |-> IF w = wa THEN <<k1, k2>> ELSE <<k3>>]
FiveTrials == [workload : {wa}, repetition : 0 .. 2] \cup [workload : {wb}, repetition : 0 .. 1]
UnitSize == [c \in Contents |-> 1]
=============================================================================
