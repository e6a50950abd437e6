--------------------------- MODULE MCPilotSession ---------------------------
(* A budget that pays one of the two accesses the slots allow.               *)
EXTENDS PilotSession

AccessIds == (0 .. MaxEvents - 1) \X Reps
UnitPrices == [r \in Reps |-> 1]
=============================================================================
