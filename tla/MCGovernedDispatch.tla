------------------------- MODULE MCGovernedDispatch -------------------------
(* GovernedDispatch for TLC. *)
EXTENDS GovernedDispatch
=============================================================================
