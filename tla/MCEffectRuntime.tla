-------------------------- MODULE MCEffectRuntime --------------------------
(* EffectRuntime for TLC: the worker slots are interchangeable.             *)
EXTENDS EffectRuntime, TLC

Slots == Permutations(Workers)
=============================================================================
