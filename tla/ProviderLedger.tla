--------------------------- MODULE ProviderLedger ---------------------------
(***************************************************************************)
(* The ledger beneath a consequential tool call: one logical operation at  *)
(* an external provider, its legally authorized attempts, and the physical *)
(* request of each (packages/tools/src/idempotent-call.ts), with the       *)
(* callers that claim and execute it (registry.ts, wrap.ts), the recovery  *)
(* of abandoned operations, the readback that observes the provider, and   *)
(* the operator who resolves the case of an operation in doubt.            *)
(*                                                                         *)
(* Every action is one transaction, one answer awaited, or a step of the   *)
(* provider.  Transactions that lock the operation row are one step; the   *)
(* resolution of a case reads that row without a lock and is two.  The     *)
(* provider offers no idempotency key and repeating the request would      *)
(* repeat its effect, as for every consequential tool that is registered.  *)
(***************************************************************************)
EXTENDS Naturals, FiniteSets

CONSTANTS
    Callers,      \* handlers that reach this tool call, again and again
    MaxAttempts,  \* bound: how many attempts are ever authorized
    Observed      \* verificationMode is a readback, not the acknowledgement

ASSUME LedgerAssumption ==
    /\ MaxAttempts \in Nat \ {0}
    /\ Observed \in BOOLEAN

VARIABLES
    op,        \* the external_operations row
    latest,    \* the largest ordinal among its attempts
    attempts,  \* provider_operation_attempts, each with its invocation
    callers,   \* where each caller is, with its attempt and what it was told
    flight,    \* attempts whose request may reach the provider yet
    applied,   \* history: attempts whose request took effect
    case,      \* is a reconciliation case of the operation open?
    observer,  \* the observe_external_effect job and what it has read
    resolver   \* the transaction resolving the case

vars == <<op, latest, attempts, callers, flight, applied, case, observer, resolver>>

-----------------------------------------------------------------------------
(* Rows.                                                                    *)

Statuses == {"absent", "running", "succeeded", "failed", "unknown"}
Executing == {"claimed", "provider_in_flight"}
Settled == {"verified", "reconciled", "divergent", "awaiting_observation"}
States == Executing \union Settled \union
          {"known_failed", "unknown_outcome", "reconciliation_required"}
MayHaveLeft == {"request_may_have_left", "provider_acknowledged", "unknown_outcome"}
Outcomes == MayHaveLeft \union {"none", "prepared", "definite_pre_dispatch_failure"}

(* ruled is the response's reconciliationOutcome, detail what the attempt's *)
(* outcomeDetail says of it, left whether requestMayHaveLeftAt is set.      *)
Operation(status, exec, ruled) == [status |-> status, exec |-> exec, ruled |-> ruled]
Attempt(st, inv, left, detail) == [st |-> st, inv |-> inv, left |-> left, detail |-> detail]
Caller(at, a, got) == [at |-> at, a |-> a, got |-> got]

Idle == Caller("idle", 0, "none")
NoAttempt == Attempt("none", "none", FALSE, "none")

OperationRow == [status : Statuses, exec : States \union {"none"},
                 ruled : {"none", "intended", "absent", "differently"}]
AttemptRow == [st : States \union {"none"}, inv : Outcomes, left : BOOLEAN,
               detail : {"none", "no_invocation", "absent", "other"}]
CallerState == [at : {"idle", "losing", "claimed", "prepared", "calling", "answered", "recorded"},
                a : 0..MaxAttempts, got : {"none", "ok", "refused", "doubt"}]

TypeOK ==
    /\ op \in OperationRow
    /\ latest \in 0..MaxAttempts
    /\ attempts \in [1..MaxAttempts -> AttemptRow]
    /\ callers \in [Callers -> CallerState]
    /\ flight \subseteq 1..MaxAttempts
    /\ applied \subseteq 1..MaxAttempts
    /\ case \in BOOLEAN
    /\ observer \in {"none", "due", "present", "divergent", "unknown", "done"}
    /\ resolver \in {"idle", "fresh", "stale"}

Init ==
    /\ op = Operation("absent", "none", "none")
    /\ latest = 0
    /\ attempts = [a \in 1..MaxAttempts |-> NoAttempt]
    /\ callers = [w \in Callers |-> Idle]
    /\ flight = {}
    /\ applied = {}
    /\ case = FALSE
    /\ observer = "none"
    /\ resolver = "idle"

(* The row's version moves on, so a resolution that read it before has lost *)
(* its fence.                                                               *)
Bump == resolver' = IF resolver = "fresh" THEN "stale" ELSE resolver

Goes(w, at, got) == callers' = [callers EXCEPT ![w] = Caller(at, callers[w].a, got)]

(* An attempt found to have happened nowhere clears those before it.        *)
Barrier(t) == t.st = "reconciled" /\ t.detail = "absent"

HasUnresolvedProviderDelivery(rows) ==
    \E a \in 1..latest :
        /\ rows[a].left
        /\ rows[a].inv \in MayHaveLeft
        /\ \A b \in 1..latest : Barrier(rows[b]) => b < a

-----------------------------------------------------------------------------
(* Claiming the operation.                                                  *)

VerifiedAbsent == op.exec = "reconciled" /\ op.ruled = "absent"

DefinitePreDispatch ==
    /\ op.status = "failed"
    /\ ~HasUnresolvedProviderDelivery(attempts)
    /\ LET last == attempts[latest]
       IN  \/ last.inv = "definite_pre_dispatch_failure"
           \/ last.inv = "none" /\ last.st = "known_failed" /\ last.detail = "no_invocation"

MayRepeat == VerifiedAbsent \/ DefinitePreDispatch

(* createAttempt, with the operation back in the hands of its claimer.      *)
CreateAttempt(w) ==
    /\ latest < MaxAttempts
    /\ latest' = latest + 1
    /\ attempts' = [attempts EXCEPT ![latest + 1] = Attempt("claimed", "none", FALSE, "none")]
    /\ callers' = [callers EXCEPT ![w] = Caller("claimed", latest + 1, "none")]
    /\ op' = Operation("running", "claimed", op.ruled)
    /\ Bump
    /\ UNCHANGED <<flight, applied, case, observer>>

ClaimOperation(w) ==
    /\ callers[w].at = "idle"
    /\ \/ op.status = "absent"
       \/ op.status \in {"failed", "unknown"} /\ MayRepeat
    /\ CreateAttempt(w)

(* A failure without evidence that repeating is safe becomes a doubt.       *)
RefuseRepetition(w) ==
    /\ callers[w].at = "idle"
    /\ op.status = "failed"
    /\ ~MayRepeat
    /\ op' = Operation("unknown", "reconciliation_required", op.ruled)
    /\ Bump
    /\ UNCHANGED <<latest, attempts, callers, flight, applied, case, observer>>

(* Another caller runs the operation: wait for it to settle ...             *)
LoseClaim(w) ==
    /\ callers[w].at = "idle"
    /\ op.status = "running"
    /\ callers' = [callers EXCEPT ![w] = Caller("losing", 0, "none")]
    /\ UNCHANGED <<op, latest, attempts, flight, applied, case, observer, resolver>>

(* ... for two seconds, and mark it unknown if the last look found it       *)
(* running; the mark looks at nothing but the states it must not touch.     *)
MarkExternalOperationUnknown(w) ==
    /\ callers[w].at = "losing"
    /\ callers' = [callers EXCEPT ![w] = Idle]
    /\ IF op.exec \in Settled
       THEN UNCHANGED <<op, resolver>>
       ELSE op' = Operation("unknown", "reconciliation_required", "none") /\ Bump
    /\ UNCHANGED <<latest, attempts, flight, applied, case, observer>>

-----------------------------------------------------------------------------
(* One physical request, as wrappedCall makes it.  A caller whose statement *)
(* fails, or commits and is not acknowledged, takes its outcome for unknown.*)

PrepareProviderInvocation(w) ==
    LET a == callers[w].a IN
    /\ callers[w].at = "claimed"
    /\ attempts[a].st \in Executing
    /\ attempts[a].inv = "none"
    /\ op.status = "running"
    /\ op.exec \in Executing
    /\ attempts' = [attempts EXCEPT
                      ![a] = Attempt("provider_in_flight", "prepared", FALSE, attempts[a].detail)]
    /\ op' = Operation(op.status, "provider_in_flight", op.ruled)
    /\ Goes(w, "prepared", "none") \/ Goes(w, "recorded", "doubt")
    /\ UNCHANGED <<latest, flight, applied, case, observer, resolver>>

(* No invocation, so nothing to record but the result.                      *)
PrepareFails(w) ==
    /\ callers[w].at = "claimed"
    /\ Goes(w, "recorded", "doubt")
    /\ UNCHANGED <<op, latest, attempts, flight, applied, case, observer, resolver>>

(* A fault: the adapter is entered before the mark.                         *)
CallUnmarked(w) ==
    /\ callers[w].at = "prepared"
    /\ Goes(w, "calling", "none")
    /\ flight' = flight \union {callers[w].a}
    /\ UNCHANGED <<op, latest, attempts, applied, case, observer, resolver>>

(* A fault: the mark asks only for its own invocation.                      *)
MarkUnfenced(w) ==
    LET a == callers[w].a IN
    /\ callers[w].at = "prepared"
    /\ attempts' = [attempts EXCEPT
                      ![a] = Attempt(attempts[a].st, "request_may_have_left", TRUE, attempts[a].detail)]
    /\ Goes(w, "calling", "none")
    /\ flight' = flight \union {a}
    /\ UNCHANGED <<op, latest, applied, case, observer, resolver>>

(* From here the adapter has the request and no timeout calls it back.      *)
MarkProviderRequestMayHaveLeft(w) ==
    LET a == callers[w].a IN
    /\ callers[w].at = "prepared"
    /\ attempts[a].inv = "prepared"
    /\ attempts[a].st = "provider_in_flight"
    /\ op.status = "running"
    /\ op.exec = "provider_in_flight"
    /\ a = latest
    /\ attempts' = [attempts EXCEPT
                      ![a] = Attempt(attempts[a].st, "request_may_have_left", TRUE, attempts[a].detail)]
    /\ \/ Goes(w, "calling", "none") /\ flight' = flight \union {a}
       \/ Goes(w, "answered", "doubt") /\ UNCHANGED flight
    /\ UNCHANGED <<op, latest, applied, case, observer, resolver>>

(* The dispatch verifier or the lost fence refuses, or the statement fails. *)
MarkFails(w) ==
    /\ callers[w].at = "prepared"
    /\ Goes(w, "answered", "refused") \/ Goes(w, "answered", "doubt")
    /\ UNCHANGED <<op, latest, attempts, flight, applied, case, observer, resolver>>

(* An adapter that says the request never left has not sent it.             *)
AdapterRefuses(w) ==
    /\ callers[w].at = "calling"
    /\ callers[w].a \in flight
    /\ flight' = flight \ {callers[w].a}
    /\ Goes(w, "answered", "refused")
    /\ UNCHANGED <<op, latest, attempts, applied, case, observer, resolver>>

(* The provider's answer, or its failure, or the timeout.                   *)
CallEnds(w) ==
    /\ callers[w].at = "calling"
    /\ \/ callers[w].a \in applied /\ Goes(w, "answered", "ok")
       \/ Goes(w, "answered", "doubt")
    /\ UNCHANGED <<op, latest, attempts, flight, applied, case, observer, resolver>>

ProviderApplies(a) ==
    /\ a \in flight
    /\ flight' = flight \ {a}
    /\ applied' = applied \union {a}
    /\ UNCHANGED <<op, latest, attempts, callers, case, observer, resolver>>

ProviderDrops(a) ==
    /\ a \in flight
    /\ flight' = flight \ {a}
    /\ UNCHANGED <<op, latest, attempts, callers, applied, case, observer, resolver>>

-----------------------------------------------------------------------------
(* Recording the outcome.                                                   *)

(* A fault: an acknowledged operation rests in a state nothing leaves.      *)
DoneAcknowledged == "provider_acknowledged"

Done == IF Observed THEN "awaiting_observation" ELSE "verified"

(* The job's key makes it one observation, whoever asks for it.             *)
RequestObservation == observer' = IF Observed /\ observer = "none" THEN "due" ELSE observer

RecordProviderInvocationAcknowledged(w) ==
    LET a == callers[w].a
        advances == attempts[a].st \in Executing
    IN
    /\ callers[w].at = "answered"
    /\ callers[w].got = "ok"
    /\ attempts' = [attempts EXCEPT ![a] =
                      IF advances
                      THEN Attempt(Done, "provider_acknowledged", attempts[a].left, "other")
                      ELSE Attempt(attempts[a].st, "provider_acknowledged", attempts[a].left,
                                   attempts[a].detail)]
    /\ IF advances /\ op.exec \notin {"verified", "reconciled"}
       THEN op' = Operation("succeeded", Done, "none") /\ Bump
       ELSE UNCHANGED <<op, resolver>>
    /\ IF advances THEN RequestObservation ELSE UNCHANGED observer
    /\ Goes(w, "recorded", "ok") \/ Goes(w, "answered", "doubt")
    /\ UNCHANGED <<latest, flight, applied, case>>

AcknowledgementFails(w) ==
    /\ callers[w].at = "answered"
    /\ callers[w].got = "ok"
    /\ Goes(w, "answered", "doubt")
    /\ UNCHANGED <<op, latest, attempts, flight, applied, case, observer, resolver>>

(* A fault: any failure clears the mark that the request may have left.     *)
FailedInvocationClearing(t, refused) ==
    IF t.inv \notin {"prepared", "request_may_have_left", "unknown_outcome"} THEN t
    ELSE Attempt(t.st, IF refused THEN "definite_pre_dispatch_failure" ELSE "unknown_outcome",
                 FALSE, t.detail)

(* The invocation after its failure was recorded.                           *)
FailedInvocation(t, refused) ==
    IF t.inv \notin {"prepared", "request_may_have_left", "unknown_outcome"} THEN t
    ELSE IF refused THEN Attempt(t.st, "definite_pre_dispatch_failure", FALSE, t.detail)
                    ELSE Attempt(t.st, "unknown_outcome", t.left, t.detail)

RecordProviderInvocationFailure(w) ==
    LET a == callers[w].a
        refused == callers[w].got = "refused"
        row == FailedInvocation(attempts[a], refused)
        rows == [attempts EXCEPT ![a] = row]
        known == refused /\ ~HasUnresolvedProviderDelivery(rows)
        advances == row.st \in Executing
    IN
    /\ callers[w].at = "answered"
    /\ callers[w].got \in {"refused", "doubt"}
    /\ attempts' = [attempts EXCEPT ![a] =
                      IF advances
                      THEN Attempt(IF known THEN "known_failed" ELSE "unknown_outcome",
                                   row.inv, row.left, "other")
                      ELSE row]
    /\ IF advances /\ op.exec \in Executing
       THEN /\ op' = IF known THEN Operation("failed", "known_failed", op.ruled)
                              ELSE Operation("unknown", "unknown_outcome", op.ruled)
            /\ Bump
       ELSE UNCHANGED <<op, resolver>>
    /\ Goes(w, "recorded", callers[w].got)
    /\ UNCHANGED <<latest, flight, applied, case, observer>>

(* The caller's bookkeeping after the wrapper returned.                     *)
RecordExternalOperationResult(w) ==
    LET a == callers[w].a
        got == callers[w].got
        result == IF got = "ok" THEN "succeeded"
                  ELSE IF got = "refused" /\ ~HasUnresolvedProviderDelivery(attempts) THEN "failed"
                  ELSE "unknown"
        exec == IF result = "succeeded" THEN Done
                ELSE IF result = "failed" THEN "known_failed" ELSE "reconciliation_required"
    IN
    /\ callers[w].at = "recorded"
    /\ callers' = [callers EXCEPT ![w] = Idle]
    /\ IF a # latest \/ op.exec \in Settled
       THEN UNCHANGED <<op, attempts, observer, resolver>>
       ELSE /\ op' = Operation(result, exec, "none")
            /\ attempts' = [attempts EXCEPT
                              ![a] = Attempt(exec, attempts[a].inv, attempts[a].left, "other")]
            /\ IF result = "succeeded" THEN RequestObservation ELSE UNCHANGED observer
            /\ Bump
    /\ UNCHANGED <<latest, flight, applied, case>>

(* The caller dies, or a transaction's failure ends its call.               *)
CallerLost(w) ==
    /\ callers[w].at # "idle"
    /\ callers' = [callers EXCEPT ![w] = Idle]
    /\ UNCHANGED <<op, latest, attempts, flight, applied, case, observer, resolver>>

-----------------------------------------------------------------------------
(* recoverStaleProviderOperations for this operation.  Staleness is a time  *)
(* (ten minutes without an update), so its owner may still be alive.        *)

NeverLeft(t) == t.inv \in {"none", "prepared", "definite_pre_dispatch_failure"}

(* A fault: only operations with a request in flight are looked for.        *)
AbandonedInFlight == op.status = "running" /\ op.exec = "provider_in_flight"

Abandoned == op.status = "running" /\ op.exec \in Executing

(* A fault: a request that may have left is taken for delivered.            *)
ClassifiedPresumingDelivery(t, possible) ==
    IF NeverLeft(t) /\ ~possible THEN "known_failed" ELSE "acknowledged"

(* What the durable facts say of an abandoned operation whose last attempt  *)
(* is t, possible telling whether a delivery of it is unresolved.           *)
Classified(t, possible) ==
    IF NeverLeft(t) /\ ~possible THEN "known_failed"
    ELSE IF t.inv = "provider_acknowledged" THEN "acknowledged"
    ELSE "reconciliation_required"

(* A prepared tail is settled first, whatever becomes of the operation.     *)
SettledTail(t) ==
    IF t.inv = "prepared" THEN Attempt(t.st, "definite_pre_dispatch_failure", FALSE, t.detail) ELSE t

(* The attempt t ends in state st if it was in one of the states froms.     *)
Ends(t, froms, st, inv, detail) ==
    IF t.st \in froms THEN Attempt(st, inv, t.left, detail)
                      ELSE Attempt(t.st, inv, t.left, t.detail)

RecoverStaleOperation ==
    LET t == SettledTail(attempts[latest])
        rows == [attempts EXCEPT ![latest] = t]
        class == Classified(t, HasUnresolvedProviderDelivery(rows))
        Becomes(row) == attempts' = [attempts EXCEPT ![latest] = row]
    IN
    /\ Abandoned
    /\ \/ /\ class = "known_failed"
          /\ op' = Operation("failed", "known_failed", "none")
          /\ Becomes(Ends(t, Executing, "known_failed", t.inv,
                          IF t.inv = "none" THEN "no_invocation" ELSE "other"))
          /\ UNCHANGED <<case, observer>>
       \/ /\ class = "acknowledged"
          /\ op' = Operation("succeeded", Done, "none")
          /\ Becomes(Ends(t, Executing, Done, t.inv, "other"))
          /\ RequestObservation
          /\ UNCHANGED case
       \/ /\ class = "reconciliation_required"
          /\ op' = Operation("unknown", "reconciliation_required", "none")
          /\ Becomes(Ends(t, Executing \union {"unknown_outcome"}, "reconciliation_required",
                          IF t.inv = "request_may_have_left" THEN "unknown_outcome" ELSE t.inv,
                          "other"))
          /\ case' = TRUE
          /\ UNCHANGED observer
    /\ Bump
    /\ UNCHANGED <<latest, callers, flight, applied>>

-----------------------------------------------------------------------------
(* Observation: the readback, then its settlement.                          *)

(* What the provider can show: an applied request as intended or changed,   *)
(* and nothing certain, which is never taken for absence.                   *)
Shows(v) == v = "unknown" \/ applied # {}

ObserveEffect ==
    /\ observer = "due"
    /\ IF op.exec \in {"verified", "divergent"}
       THEN observer' = "done"
       ELSE \E v \in {"present", "divergent", "unknown"} : Shows(v) /\ observer' = v
    /\ UNCHANGED <<op, latest, attempts, callers, flight, applied, case, resolver>>

(* A fault: only a divergence is kept from verified truth.                  *)
KeepsAgainstDivergence(v) == op.exec = "verified" /\ v = "divergent"

KeepsVerified(v) == op.exec = "verified" /\ v # "present"

(* settleExternalEffectObservation for the only member of its effect.  A    *)
(* settlement that closes the case waits for the resolution that locks it.  *)
SettleObservation ==
    LET v == observer
        exec == [present |-> "verified", divergent |-> "divergent",
                 unknown |-> "reconciliation_required"][v]
        closes == v = "present" \/ op.exec = "verified"
    IN
    /\ v \in {"present", "divergent", "unknown"}
    /\ closes => resolver = "idle"
    /\ IF KeepsVerified(v)
       THEN UNCHANGED <<op, attempts, resolver>>
       ELSE /\ op' = [present |-> Operation("succeeded", exec, "intended"),
                      divergent |-> Operation(op.status, exec, op.ruled),
                      unknown |-> Operation("unknown", exec, op.ruled)][v]
            /\ attempts' = [attempts EXCEPT ![latest] =
                              Attempt(exec, attempts[latest].inv, attempts[latest].left, "other")]
            /\ Bump
    /\ case' = ~closes
    /\ observer' = "done"
    /\ UNCHANGED <<latest, callers, flight, applied>>

-----------------------------------------------------------------------------
(* resolveReconciliationCase: the case is locked, the operation only read.  *)

BeginResolution ==
    /\ case
    /\ resolver = "idle"
    /\ resolver' = "fresh"
    /\ UNCHANGED <<op, latest, attempts, callers, flight, applied, case, observer>>

(* The operator's evidence is true of the provider when it is recorded, and *)
(* "definitely did not happen" is said only when no request is under way.   *)
Evidence(v) == IF v = "absent" THEN applied = {} /\ flight = {} ELSE applied # {}

(* The operation is updated under its version, its latest attempt and the   *)
(* case without.                                                            *)
ResolveReconciliationCase(v) ==
    LET exec == [intended |-> "verified", absent |-> "reconciled",
                 differently |-> "divergent"][v]
        status == [intended |-> "succeeded", absent |-> "failed",
                   differently |-> op.status][v]
    IN
    /\ resolver # "idle"
    /\ Evidence(v)
    /\ op' = IF resolver = "fresh" THEN Operation(status, exec, v) ELSE op
    /\ attempts' = [attempts EXCEPT ![latest] =
                      Attempt(exec, attempts[latest].inv, attempts[latest].left,
                              IF v = "absent" THEN "absent" ELSE "other")]
    /\ case' = FALSE
    /\ resolver' = "idle"
    /\ UNCHANGED <<latest, callers, flight, applied, observer>>

AbortResolution ==
    /\ resolver # "idle"
    /\ resolver' = "idle"
    /\ UNCHANGED <<op, latest, attempts, callers, flight, applied, case, observer>>

-----------------------------------------------------------------------------
Next ==
    \/ \E w \in Callers :
          \/ ClaimOperation(w) \/ RefuseRepetition(w)
          \/ LoseClaim(w) \/ MarkExternalOperationUnknown(w)
          \/ PrepareProviderInvocation(w) \/ PrepareFails(w)
          \/ MarkProviderRequestMayHaveLeft(w) \/ MarkFails(w)
          \/ AdapterRefuses(w) \/ CallEnds(w)
          \/ RecordProviderInvocationAcknowledged(w) \/ AcknowledgementFails(w)
          \/ RecordProviderInvocationFailure(w) \/ RecordExternalOperationResult(w)
          \/ CallerLost(w)
    \/ \E a \in 1..MaxAttempts : ProviderApplies(a) \/ ProviderDrops(a)
    \/ RecoverStaleOperation
    \/ ObserveEffect \/ SettleObservation
    \/ BeginResolution \/ AbortResolution
    \/ \E v \in {"intended", "absent", "differently"} : ResolveReconciliationCase(v)

Spec == Init /\ [][Next]_vars

(* The watchdog's scan runs again and again.                                *)
FairSpec == Spec /\ WF_vars(RecoverStaleOperation)

-----------------------------------------------------------------------------
(* PROPERTIES                                                               *)

(* "Unresolved consequential operations never knowingly repeat without      *)
(* legal durable evidence" (scope2-runtime-mandatory-cases.ts:96): however  *)
(* claims, late answers, recoveries, observations and resolutions           *)
(* interleave, the provider applies the request at most once.               *)
AppliedAtMostOnce == Cardinality(applied) <= 1

(* A failed operation, which the next caller may claim again, did not       *)
(* happen and no request of it is under way (idempotent-call.ts:269-272).   *)
FailureIsHarmless == op.status = "failed" => applied = {} /\ flight = {}

(* Success was acknowledged, observed or resolved by evidence.              *)
SuccessIsProven == op.status = "succeeded" => applied # {}

(* "possible effects are tracked" (scope2-runtime-mandatory-cases.ts:96):   *)
(* a request that may have left is found by                                 *)
(* hasUnresolvedProviderDelivery, whatever was written since.               *)
EgressIsTracked == flight \union applied # {} => HasUnresolvedProviderDelivery(attempts)

(* Under whatever claims, answers, losses, recoveries, readbacks and        *)
(* resolutions, the ledger keeps what OutsideEffect promises: an attempt's  *)
(* request leaves only after the record stopped calling the operation       *)
(* failed or absent, never beside or after another attempt's, and what is   *)
(* written of success and failure is true: "Never execute a consequential   *)
(* provider call without owning a durable claim" (idempotent-call.ts:257).  *)
Promise == INSTANCE OutsideEffect WITH
    Requests <- 1..MaxAttempts,
    confirmed <- op.status = "succeeded",
    excluded <- op.status \in {"absent", "failed"} \/ VerifiedAbsent,
    underway <- flight,
    happened <- applied,
    disowned <- {}

KeepsPromise == Promise!Spec

(* "Duplicate and out-of-order observations cannot regress verified truth"  *)
(* (scope2-runtime-mandatory-cases.ts:57).                                  *)
VerifiedIsMonotonic == [][op.exec = "verified" => op'.exec = "verified"]_vars

(* "Classify provider work abandoned by a dead process" (idempotent-call.ts *)
(* :573-576): an operation does not stay running, unless an operator called *)
(* it divergent while it was.                                               *)
AbandonedIsSettled ==
    op.status = "running" ~> op.status # "running" \/ op.exec = "divergent"

(* "not permission to close an ambiguity" (reconciliation.ts:126-127): a    *)
(* case is closed only over an operation that is no longer in doubt.  The   *)
(* code does not keep it: the resolution may lose its version fence.        *)
ClosedMeansSettled == [][case /\ ~case' => op'.exec \in Settled]_vars
=============================================================================
