------------------------- MODULE MCComputeGovernor -------------------------
(* A finite instance of ComputeGovernor for TLC: every call asks the model, *)
(* so it falls under the global policy and under the model's own.           *)
EXTENDS ComputeGovernor, TLC

CONSTANTS global, model, mine, yours, batch, chat, other

ModelKeys == [c \in Calls |-> {global, model}]
Owners == [c \in Calls |-> IF c \in {batch, chat} THEN mine ELSE yours]
Envelope == (global :> 2) @@ (model :> 2)
PerTenant == (global :> 2) @@ (model :> 1)
Foreground == (global :> 1) @@ (model :> 0)
ModelLease == (global :> 2) @@ (model :> 2)
=============================================================================
