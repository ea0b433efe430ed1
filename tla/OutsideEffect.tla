--------------------------- MODULE OutsideEffect ---------------------------
(***************************************************************************)
(* What the system promises of one effect on the world outside, whatever   *)
(* asks for it, records it and recovers it: a request leaves only while    *)
(* the record neither confirms the effect nor rules it out, never beside   *)
(* one that is under way nor after one that took effect, and the record    *)
(* passes only true judgements.  It is not to blame for a request whose    *)
(* effect was denied by the very answer to it: such a request counts as    *)
(* none, and may be followed by another whatever is confirmed later.       *)
(*                                                                         *)
(* EffectRuntime, ProviderLedger and GovernedDispatch each implement this  *)
(* under the mapping they give with INSTANCE.                              *)
(***************************************************************************)
CONSTANT Requests     \* the requests for the effect that can ever be made

VARIABLES
    confirmed,  \* does the record say that the effect happened?
    excluded,   \* does it say that it did not, and may not any more?
    underway,   \* requests that left, and of which nothing has come yet
    happened,   \* requests that brought the effect about
    disowned    \* requests that did as well, but were answered that they failed

state == <<confirmed, excluded, underway, happened, disowned>>

Init ==
    /\ confirmed = FALSE /\ excluded = TRUE
    /\ underway = {} /\ happened = {} /\ disowned = {}

(* The record is written.                                                   *)
Judge ==
    /\ confirmed' \in BOOLEAN
    /\ excluded' \in BOOLEAN
    /\ confirmed' => happened \union disowned # {}
    /\ excluded' => underway \union happened = {}
    /\ UNCHANGED <<underway, happened, disowned>>

Send(r) ==
    /\ confirmed => disowned # {}
    /\ ~excluded
    /\ underway \union happened = {}
    /\ underway' = {r}
    /\ UNCHANGED <<confirmed, excluded, happened, disowned>>

TakeEffect(r) ==
    /\ r \in underway
    /\ underway' = underway \ {r}
    /\ happened' = happened \union {r}
    /\ UNCHANGED <<confirmed, excluded, disowned>>

(* It takes effect, and whoever sent it is told that it failed.             *)
Deny(r) ==
    /\ r \in underway
    /\ underway' = underway \ {r}
    /\ disowned' = disowned \union {r}
    /\ UNCHANGED <<confirmed, excluded, happened>>

GetLost(r) ==
    /\ r \in underway
    /\ underway' = underway \ {r}
    /\ UNCHANGED <<confirmed, excluded, happened, disowned>>

Next == Judge \/ \E r \in Requests : Send(r) \/ TakeEffect(r) \/ Deny(r) \/ GetLost(r)

Spec == Init /\ [][Next]_state
=============================================================================
