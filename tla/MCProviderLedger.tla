-------------------------- MODULE MCProviderLedger --------------------------
(* ProviderLedger for TLC: the callers are interchangeable.                 *)
EXTENDS ProviderLedger, TLC

Alike == Permutations(Callers)
=============================================================================
