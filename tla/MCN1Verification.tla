-------------------------- MODULE MCN1Verification ---------------------------
(* The oracle of MCScoreLedger with the remote verifier: more challenges   *)
(* than the verifier has slots.                                            *)
EXTENDS MCScoreLedger, N1Verification

CONSTANTS c1, c2
=============================================================================
