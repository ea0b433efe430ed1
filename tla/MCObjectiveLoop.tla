-------------------------- MODULE MCObjectiveLoop ---------------------------
(* ObjectiveLoop for TLC: the workers are interchangeable.                  *)
EXTENDS ObjectiveLoop, TLC

Alike == Permutations(Workers)
=============================================================================
