-------------------------- MODULE GovernedDispatch --------------------------
(***************************************************************************)
(* The broker that carries out one governed obligation                     *)
(* (packages/governed-execution/src/dispatch-broker.ts): a request of      *)
(* several members, each a conditional change of one record at a provider. *)
(* The broker lives in the ledger's process, serves one call at a time     *)
(* (line 33) and remembers nothing between calls: whatever it knows of     *)
(* earlier ones it reads from the ledger.  Only its own calls append to    *)
(* the history of the obligation, so what it read at the start of a call   *)
(* and pushed since is what the ledger has installed.                      *)
(*                                                                         *)
(* Every check that an owner, a signature, a policy or the clock may fail  *)
(* is an arbitrary refusal.                                                *)
(***************************************************************************)
EXTENDS ExperienceLedger, FiniteSets

CONSTANTS
    N,          \* the number of members of the request
    Limit       \* how many readbacks an obligation is worth, 64 in the code

ASSUME DispatchAssumption == N \in Nat \ {0} /\ Limit \in Nat \ {0}

Members == 1..N

VARIABLES
    task,       \* the call the broker serves
    sent,       \* per member, how often its change was sent
    applied,    \* the members whose change the provider made
    reads       \* how many readbacks were sent

outside == <<sent, applied, reads>>
vars == <<ledgerVars, task, outside>>

Kinds == {"REFERENCE", "INTENT", "ATTEMPT", "CURRENT_AUTHORITY", "ACKNOWLEDGMENT",
          "OBSERVATION_ATTEMPT", "OBSERVATION", "OBSERVATION_BUDGET_EXHAUSTED", "VERIFICATION"}

Entries == [kind : Kinds, member : 0..N, good : BOOLEAN]

Whole(kind) == [kind |-> kind, member |-> 0, good |-> FALSE]
Of(kind, m) == [kind |-> kind, member |-> m, good |-> FALSE]

(* Fault: a member counts as attempted when its outcome is recorded. *)
AttemptedWithOutcome == {m \in Members : Holds(mem, Of("ACKNOWLEDGMENT", m))}

(* Fault: a readback counts when its observation is recorded. *)
ClaimsObserved == Cardinality({k \in DOMAIN mem : mem[k].kind = "OBSERVATION"})

(* What the history says. *)
Recorded(kind) == Holds(mem, Whole(kind))
Attempted == {m \in Members : Holds(mem, Of("ATTEMPT", m))}
Untouched == Members \ Attempted
Claims == Cardinality({k \in DOMAIN mem : mem[k].kind = "OBSERVATION_ATTEMPT"})

First(S) == CHOOSE m \in S : \A n \in S : m <= n

NoTask == [at |-> "none", reconcile |-> FALSE, member |-> 0, dispatched |-> FALSE,
           seen |-> {}, matched |-> {}]

Init ==
    /\ LedgerInit
    /\ task = NoTask
    /\ sent = [m \in Members |-> 0]
    /\ applied = {}
    /\ reads = 0

-----------------------------------------------------------------------------
(* THE CALL *)

storeVars == <<diskVars, witness, memVars, acked, adopted>>

At(where) == proc = "up" /\ task.at = where
Answered(where) == At(where) /\ op.at = "ok"
Goes(where) == task' = [task EXCEPT !.at = where]
Commits(e, where) == Ask(e) /\ Goes(where)
Returns == task' = NoTask /\ op' = Idle

(* execute, from a delivery or a reconcile request: reads the history. *)
Call(reconcile) ==
    /\ At("none") /\ op.at = "idle"
    /\ Ask(NoEntry)
    /\ task' = [NoTask EXCEPT !.at = "history", !.reconcile = reconcile]
    /\ UNCHANGED <<storeVars, upsets, outside>>

(* Where a call goes that has an intent: to dispatch, unless it is to       *)
(* reconcile or the readbacks are used up.                                  *)
Onward == IF ~task.reconcile /\ Claims < Limit THEN "dispatch" ELSE "observe"

Proceeds == op' = Idle /\ Goes(Onward)

(* A verified obligation is answered again; a reconcile request without an  *)
(* intent is refused; a first execution verifies the request and registers  *)
(* it.                                                                      *)
ReadHistory ==
    /\ Answered("history")
    /\ IF Recorded("VERIFICATION") THEN Returns
       ELSE IF Recorded("INTENT") THEN Proceeds
       ELSE \/ Returns
            \/ ~task.reconcile /\ Commits(Whole("REFERENCE"), "register")
    /\ UNCHANGED <<storeVars, upsets, outside>>

RecordIntent ==
    /\ Answered("register")
    /\ Commits(Whole("INTENT"), "intent")
    /\ UNCHANGED <<storeVars, upsets, outside>>

IntentRecorded ==
    /\ Answered("intent")
    /\ Proceeds
    /\ UNCHANGED <<storeVars, upsets, outside>>

(* The next untouched member: everything is verified and its unit reserved, *)
(* and the attempt is recorded; or the call ends with a refusal.            *)
RecordAttempt ==
    /\ At("dispatch")
    /\ Untouched # {}
    /\ \/ LET m == First(Untouched)
          IN  Ask(Of("ATTEMPT", m)) /\ task' = [task EXCEPT !.at = "attempt", !.member = m]
       \/ Returns
    /\ UNCHANGED <<storeVars, upsets, outside>>

(* The owner is asked once more.  If he, or the ledger, says no, what is    *)
(* recorded next is an unknown outcome, although nothing was sent.          *)
ConfirmOwner ==
    /\ Answered("attempt")
    /\ \/ Commits(Of("CURRENT_AUTHORITY", task.member), "current")
       \/ Commits(Of("ACKNOWLEDGMENT", task.member), "acknowledge")
    /\ UNCHANGED <<storeVars, upsets, outside>>

SendChange ==
    /\ Answered("current")
    /\ op' = Idle
    /\ Goes("wire")
    /\ sent' = [sent EXCEPT ![task.member] = @ + 1]
    /\ UNCHANGED <<storeVars, upsets, applied, reads>>

(* What came of the attempt is recorded: the answer, whatever it says, or   *)
(* that there is none, that the authority ran out before the wire, or that  *)
(* it could not be recorded.                                                *)
RecordAcknowledgment ==
    /\ At("wire") \/ (At("current") /\ op.at \in {"ok", "failed"})
    /\ Commits(Of("ACKNOWLEDGMENT", task.member), "acknowledge")
    /\ UNCHANGED <<storeVars, upsets, outside>>

AcknowledgmentRecorded ==
    /\ Answered("acknowledge")
    /\ op' = Idle
    /\ task' = [task EXCEPT !.at = "dispatch", !.dispatched = TRUE]
    /\ UNCHANGED <<storeVars, upsets, outside>>

(* Fault: an execution never reads back. *)
EndDispatchReturning ==
    /\ At("dispatch")
    /\ Returns
    /\ UNCHANGED <<storeVars, upsets, outside>>

(* No member is untouched, or the call's 30 seconds are over.  A call that  *)
(* dispatched leaves the readback to a later one.                           *)
EndDispatch ==
    /\ At("dispatch")
    /\ IF task.dispatched THEN Returns ELSE Goes("observe") /\ UNCHANGED op
    /\ UNCHANGED <<storeVars, upsets, outside>>

-----------------------------------------------------------------------------
(* THE READBACK *)

Unread == Attempted \ task.seen

(* A readback is claimed before it is sent, as long as there are any left;  *)
(* its unit may be refused.                                                 *)
ClaimReadback ==
    /\ At("observe")
    /\ Unread # {}
    /\ Claims < Limit
    /\ \/ LET m == First(Unread)
          IN  /\ Ask(Of("OBSERVATION_ATTEMPT", m))
              /\ task' = [task EXCEPT !.at = "claim", !.member = m]
              /\ UNCHANGED upsets
       \/ Upset /\ Returns
    /\ UNCHANGED <<storeVars, outside>>

ExhaustReadbacks ==
    /\ At("observe")
    /\ Unread # {}
    /\ Claims >= Limit
    /\ IF Recorded("OBSERVATION_BUDGET_EXHAUSTED")
       THEN Returns
       ELSE Commits(Whole("OBSERVATION_BUDGET_EXHAUSTED"), "last")
    /\ UNCHANGED <<storeVars, upsets, outside>>

(* The record matches only if it carries this operation; the request may    *)
(* fail, or somebody else have written it since.                            *)
Readback ==
    /\ Answered("claim")
    /\ reads' = reads + 1
    /\ \E good \in BOOLEAN :
        /\ good => task.member \in applied
        /\ Commits([Of("OBSERVATION", task.member) EXCEPT !.good = good], "observation")
    /\ UNCHANGED <<storeVars, upsets, sent, applied>>

Observed ==
    /\ Answered("observation")
    /\ op' = Idle
    /\ task' = [task EXCEPT !.at = "observe", !.seen = @ \union {task.member},
                    !.matched = @ \union (IF op.entry.good THEN {task.member} ELSE {})]
    /\ UNCHANGED <<storeVars, upsets, outside>>

(* Fault: what was read matched, however much that was. *)
AllReadMatched == task.matched = task.seen

(* Every member was read in this call and matched. *)
AllMatched == task.seen = Members /\ task.matched = Members

Settle ==
    /\ At("observe")
    /\ Unread = {}
    /\ IF AllMatched THEN Commits(Whole("VERIFICATION"), "last") ELSE Returns
    /\ UNCHANGED <<storeVars, upsets, outside>>

(* The last commit is answered; or a call to the ledger fails, and with it  *)
(* the broker's, except where it is an unknown outcome.                     *)
Finish ==
    /\ proc = "up"
    /\ \/ task.at = "last" /\ op.at = "ok"
       \/ task.at # "current" /\ op.at = "failed"
    /\ Returns
    /\ UNCHANGED <<storeVars, upsets, outside>>

-----------------------------------------------------------------------------
(* THE PROVIDER *)

(* A change under way is made, while its sender waits or later.  One that   *)
(* is refused, for the record is no longer as expected, or lost, is never   *)
(* made.                                                                    *)
ProviderHandles(m) ==
    /\ sent[m] > 0
    /\ m \notin applied
    /\ applied' = applied \union {m}
    /\ UNCHANGED <<ledgerVars, task, sent, reads>>

-----------------------------------------------------------------------------
Broker ==
    \/ ReadHistory \/ RecordIntent \/ IntentRecorded
    \/ RecordAttempt \/ ConfirmOwner \/ SendChange
    \/ RecordAcknowledgment \/ AcknowledgmentRecorded \/ EndDispatch
    \/ ClaimReadback \/ ExhaustReadbacks \/ Readback \/ Observed \/ Settle
    \/ Finish

Next ==
    \/ Serve /\ UNCHANGED <<task, outside>>
    \/ (Recover \/ OpenFails) /\ UNCHANGED <<task, outside>>
    \/ (Kill \/ PowerLoss \/ Stop) /\ task' = NoTask /\ UNCHANGED outside
    \/ Broker
    \/ \E reconcile \in BOOLEAN : Call(reconcile)
    \/ \E m \in Members : ProviderHandles(m)

Spec == Init /\ [][Next]_vars

(* The process goes on with its work and is started again when it ended;    *)
(* callers come back to an unresolved obligation.                           *)
Fairness ==
    /\ WF_vars(Serve /\ UNCHANGED <<task, outside>>)
    /\ WF_vars((Recover \/ OpenFails) /\ UNCHANGED <<task, outside>>)
    /\ WF_vars(Broker)
    /\ WF_vars(\E reconcile \in BOOLEAN : Call(reconcile))

FairSpec == Spec /\ Fairness

-----------------------------------------------------------------------------
(* PROPERTIES *)

TypeOK ==
    /\ LedgerTypeOK(Entries)
    /\ task \in [at : {"none", "history", "register", "intent", "dispatch", "attempt",
                       "current", "wire", "acknowledge", "observe", "claim",
                       "observation", "last"},
                 reconcile : BOOLEAN, member : 0..N, dispatched : BOOLEAN,
                 seen : SUBSET Members, matched : SUBSET Members]
    /\ sent \in [Members -> Nat]
    /\ applied \in SUBSET Members
    /\ reads \in Nat

(* A member's change is sent at most once, and by then its attempt is in    *)
(* the journal and outlasts a power failure: "ATTEMPT persistence precedes  *)
(* possible egress; recovery never repeats a mutation"                      *)
(* (dispatch-broker.ts:1-2).                                                *)
ChangeSentOnce ==
    \A m \in Members :
        /\ sent[m] <= 1
        /\ sent[m] = 1 => Durable(Of("ATTEMPT", m))

(* A verification is recorded only when every member's change was made,     *)
(* whoever answered, or did not, and whenever the readings were taken.      *)
VerifiedIsTrue ==
    Holds(journal, Whole("VERIFICATION")) => applied = Members

(* Of each member's change the broker keeps what OutsideEffect promises:    *)
(* the journal excludes it until its attempt outlasts any failure, and      *)
(* confirms it with the verification of them all (dispatch-broker.ts:1-2).  *)
Promise(m) == INSTANCE OutsideEffect WITH
    Requests <- {1},
    confirmed <- Holds(journal, Whole("VERIFICATION")),
    excluded <- ~Durable(Of("ATTEMPT", m)),
    underway <- IF m \in applied THEN {} ELSE 1..sent[m],
    happened <- IF m \in applied THEN 1..sent[m] ELSE {},
    disowned <- {}

KeepsPromise ==
    /\ \A m \in Members : Promise(m)!Init
    /\ [][\A m \in Members : [Promise(m)!Next]_(Promise(m)!state)]_vars

(* No kill, restart or caller gets an obligation more readbacks than its    *)
(* limit, and one whose readbacks are used up is not verified afterwards    *)
(* (dispatch-broker.ts:153-154).                                            *)
ReadbacksAreBounded ==
    /\ reads <= Limit
    /\ ~(/\ Holds(journal, Whole("OBSERVATION_BUDGET_EXHAUSTED"))
         /\ Holds(journal, Whole("VERIFICATION")))

(* The ledger refuses every call until an operator comes: its files are not *)
(* as the process left them, or anchor or witness name a lost history.      *)
Refusing ==
    \/ proc = "up" /\ ~Integral
    \/ proc # "up" /\ ~(Begins(head, journal) /\ Begins(witness, journal))

(* Once every member's attempt is on record, the obligation is verified or  *)
(* handed to an operator, whatever happened to the changes and the process. *)
ReadbackEnds ==
    (\A m \in Members : Durable(Of("ATTEMPT", m)))
                          ~> \/ Recorded("VERIFICATION")
                             \/ Recorded("OBSERVATION_BUDGET_EXHAUSTED")
                             \/ Refusing
=============================================================================
