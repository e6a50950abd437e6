--------------------------- MODULE MCOracleRecovery ---------------------------
(* A safe design with a file of its own and two candidates that overlap: one *)
(* does not want the safe design's file, so that a transition to it removes  *)
(* that file while the safe design is still the active one; the other does.  *)
(* One file of a candidate was there before the oracle and is nobody's.      *)
EXTENDS OracleRecovery

MCOrder == <<"raw", "local", "pair">>
MCDesired == [raw |-> {"x"}, local |-> {"y", "z"}, pair |-> {"x", "y"}]
MCForeign == {{"z"}}
MCTrials == [raw |-> <<"r">>, local |-> <<"l">>, pair |-> <<"p">>]
=============================================================================
