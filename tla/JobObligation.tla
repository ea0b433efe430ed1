--------------------------- MODULE JobObligation ---------------------------
(***************************************************************************)
(* What the job queue promises of each accepted obligation, without slots, *)
(* owners, leases, clocks, drains or crashes.  An obligation is delivered  *)
(* in numbered turns, one open turn at a time, of which at most            *)
(* MaxAttempts count.  A delivery that was given up may still reach        *)
(* outside late, but only for work that may be replayed.  A verdict is     *)
(* passed on the open turn only and is final.                              *)
(*                                                                         *)
(* JobQueue implements this under the mapping it gives with INSTANCE.      *)
(***************************************************************************)
EXTENDS Naturals

CONSTANTS
    Jobs,        \* the obligations
    Safe,        \* those whose work may be repeated
    Retired,     \* those no handler exists for
    MaxAttempts  \* how many turns of an obligation may count

VARIABLE ob      \* the obligations' state

Verdicts == {"completed", "dead_letter", "quarantined"}
Phases == {"absent", "waiting", "open"} \union Verdicts

(* acts and done hold the turns that reached outside, and those whose work  *)
(* was done to its end.                                                     *)
New(j) == [phase |-> IF j \in Retired THEN "waiting" ELSE "absent",
           turn |-> 0, tried |-> 0, acts |-> {}, done |-> {}]

Init == ob = [j \in Jobs |-> New(j)]

-----------------------------------------------------------------------------
(* The steps of one obligation, from o to n.                                *)

At(o, phase, turn, tried) ==
    [phase |-> phase, turn |-> turn, tried |-> tried, acts |-> o.acts, done |-> o.done]

Accept(j, o, n) ==
    /\ o.phase = "absent"
    /\ j \notin Retired
    /\ n = [o EXCEPT !.phase = "waiting"]

Deliver(j, o, n) ==
    /\ o.phase = "waiting"
    /\ j \notin Retired
    /\ o.tried < MaxAttempts
    /\ n = At(o, "open", o.turn + 1, o.tried + 1)

ReachOut(j, o, n) ==
    \E t \in 1..o.turn :
        /\ t \notin o.acts
        /\ j \notin Safe => o.acts = {} /\ t = o.turn /\ o.phase # "waiting"
        /\ n = [o EXCEPT !.acts = @ \union {t}]

Finish(o, n) ==
    \E t \in 1..o.turn : n = [o EXCEPT !.done = @ \union {t}]

(* The turn does not count.                                                 *)
HandBack(j, o, n) ==
    /\ o.phase = "open"
    /\ o.tried > 0
    /\ j \in Safe \/ o.acts = {}
    /\ n = At(o, "waiting", o.turn, o.tried - 1)

(* The turn counts, and another one may follow.                             *)
TryAgain(j, o, n) ==
    /\ o.phase = "open"
    /\ j \in Safe
    /\ o.tried < MaxAttempts
    /\ n = [o EXCEPT !.phase = "waiting"]

Conclude(j, o, n) ==
    /\ o.phase = "open"
    /\ \/ n = [o EXCEPT !.phase = "completed"] /\ o.turn \in o.done
       \/ n = [o EXCEPT !.phase = "dead_letter"] /\ j \in Safe /\ o.tried = MaxAttempts
       \/ n = [o EXCEPT !.phase = "quarantined"] /\ j \notin Safe

Withdraw(j, o, n) ==
    /\ o.phase = "waiting"
    /\ j \in Retired
    /\ n = [o EXCEPT !.phase = "quarantined"]

Step(j, o, n) ==
    \/ Accept(j, o, n) \/ Deliver(j, o, n)
    \/ ReachOut(j, o, n) \/ Finish(o, n)
    \/ HandBack(j, o, n) \/ TryAgain(j, o, n)
    \/ Conclude(j, o, n) \/ Withdraw(j, o, n)

(* Several obligations may move at once: a sweep takes a batch.             *)
Next ==
    /\ DOMAIN ob' = Jobs
    /\ \A j \in Jobs : ob'[j] = ob[j] \/ Step(j, ob[j], ob'[j])

Spec == Init /\ [][Next]_ob
=============================================================================
