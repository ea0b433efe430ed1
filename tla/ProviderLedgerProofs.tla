------------------------ MODULE ProviderLedgerProofs ------------------------
(***************************************************************************)
(* What ProviderLedger promises for any number of callers and attempts.    *)
(* The argument: a request is under way or took effect only for the latest *)
(* attempt (Tracked), because an attempt is added only to an operation     *)
(* known to have happened nowhere (Harmless), and what a caller or the     *)
(* recovery writes about an attempt is true of it (Truthful, Proven), an   *)
(* attempt being in the hands of one caller (Owned).  With it every step   *)
(* of the ledger is one of OutsideEffect, or a stutter.                    *)
(***************************************************************************)
EXTENDS ProviderLedger, FiniteSetTheorems, TLAPS

Active == flight \union applied

Engaged(w) == callers[w].at \in {"claimed", "prepared", "calling", "answered", "recorded"}

(* An attempt is in the hands of the caller that created it.                *)
Owned ==
    /\ \A w \in Callers : Engaged(w) => callers[w].a \in 1..latest
    /\ \A v, w \in Callers : Engaged(v) /\ Engaged(w) /\ v # w => callers[v].a # callers[w].a

(* What a caller was told of its attempt is so.                             *)
Truthful ==
    /\ flight \intersect applied = {}
    /\ \A w \in Callers :
          /\ ~Engaged(w) => callers[w].got = "none"
          /\ callers[w].at \in {"claimed", "prepared"} => callers[w].a \notin Active
          /\ callers[w].got = "refused" => callers[w].a \notin Active
          /\ callers[w].got = "ok" => callers[w].a \in applied

(* A request that may be or was applied is the latest attempt's, and its    *)
(* row says so.                                                             *)
Tracked ==
    \A a \in Active :
        /\ a = latest
        /\ attempts[a].left
        /\ attempts[a].inv \in MayHaveLeft
        /\ ~Barrier(attempts[a])

(* An operation that the next caller may claim has happened nowhere, and    *)
(* one that runs has an attempt.                                            *)
Harmless ==
    /\ op.status = "absent" => latest = 0
    /\ op.status = "running" => latest # 0
    /\ op.status = "failed" \/ op.exec = "reconciled" => Active = {}

(* What is written of a success rests on an effect.                         *)
Proven ==
    /\ op.status = "succeeded" => applied # {}
    /\ op.exec = "verified" => op.status = "succeeded"
    /\ \A a \in 1..MaxAttempts : attempts[a].inv = "provider_acknowledged" => a \in applied
    /\ observer = "present" => applied # {}

(* An operation verified by readback has no case left to resolve.           *)
Watched ==
    /\ resolver # "idle" => case
    /\ Observed /\ op.exec = "verified" => ~case

IInv == TypeOK /\ Owned /\ Truthful /\ Tracked /\ Harmless /\ Proven /\ Watched

-----------------------------------------------------------------------------
(* What the helpers return.                                                 *)

(* A caller that goes on keeps its attempt, and the others are as they were.*)
LEMMA GoesKeeps ==
    ASSUME TypeOK, NEW w \in Callers, Engaged(w),
           NEW at \in {"prepared", "calling", "answered", "recorded"},
           NEW got \in {"none", "ok", "refused", "doubt"}, Goes(w, at, got)
    PROVE  /\ callers' \in [Callers -> CallerState]
           /\ callers'[w].at = at /\ callers'[w].got = got /\ callers'[w].a = callers[w].a
           /\ \A v \in Callers \ {w} : callers'[v] = callers[v]
           /\ \A v \in Callers : Engaged(v)' <=> Engaged(v)
           /\ \A v \in Callers : callers'[v].a = callers[v].a
  BY DEF TypeOK, CallerState, Engaged, Goes, Caller

(* A caller that is done or lost has no attempt, and the others are as they *)
(* were.                                                                    *)
LEMMA IdleKeeps ==
    ASSUME TypeOK, NEW w \in Callers, callers' = [callers EXCEPT ![w] = Idle]
    PROVE  /\ callers' \in [Callers -> CallerState]
           /\ callers'[w].at = "idle" /\ callers'[w].got = "none"
           /\ \A v \in Callers \ {w} : callers'[v] = callers[v]
  BY LedgerAssumption DEF TypeOK, CallerState, Idle, Caller

LEMMA AttemptIsRow ==
    ASSUME NEW st \in States \union {"none"}, NEW inv \in Outcomes, NEW left \in BOOLEAN,
           NEW detail \in {"none", "no_invocation", "absent", "other"}
    PROVE  /\ Attempt(st, inv, left, detail) \in AttemptRow
           /\ Attempt(st, inv, left, detail).st = st
           /\ Attempt(st, inv, left, detail).inv = inv
           /\ Attempt(st, inv, left, detail).left = left
           /\ Attempt(st, inv, left, detail).detail = detail
  BY DEF Attempt, AttemptRow

LEMMA StatesAreStates ==
    /\ Executing \subseteq States /\ Settled \subseteq States
    /\ {"known_failed", "unknown_outcome", "reconciliation_required"} \subseteq States
    /\ Done \in {"awaiting_observation", "verified"} /\ Done \in States
    /\ Done \in Settled /\ Done # "reconciled"
    /\ Executing \intersect Settled = {}
  BY DEF Executing, Settled, States, Done

(* A failure changes neither the attempt's state nor its detail, and clears *)
(* the mark only when the request was refused.                              *)
LEMMA FailedRow ==
    ASSUME NEW t \in AttemptRow, NEW refused \in BOOLEAN
    PROVE  LET row == FailedInvocation(t, refused) IN
           /\ row \in AttemptRow
           /\ row.st = t.st /\ row.detail = t.detail
           /\ ~refused /\ t.left => row.left
           /\ ~refused /\ t.inv \in MayHaveLeft => row.inv \in MayHaveLeft
           /\ row.inv = "provider_acknowledged" => t.inv = "provider_acknowledged"
  BY DEF FailedInvocation, Attempt, AttemptRow, Outcomes, MayHaveLeft

(* Settling a prepared tail touches no request that may have left.          *)
LEMMA TailRow ==
    ASSUME NEW t \in AttemptRow
    PROVE  LET row == SettledTail(t) IN
           /\ row \in AttemptRow
           /\ row.st = t.st /\ row.detail = t.detail
           /\ t.inv \in MayHaveLeft => row = t
           /\ row.inv = "provider_acknowledged" => t.inv = "provider_acknowledged"
  BY DEF SettledTail, Attempt, AttemptRow, Outcomes, MayHaveLeft

(* An attempt that ends keeps its mark, and is not reconciled by ending.    *)
LEMMA EndsRow ==
    ASSUME NEW t \in AttemptRow, NEW froms, NEW st \in States,
           NEW inv \in Outcomes, NEW detail \in {"none", "no_invocation", "absent", "other"}
    PROVE  LET row == Ends(t, froms, st, inv, detail) IN
           /\ row \in AttemptRow
           /\ row.inv = inv /\ row.left = t.left
           /\ st # "reconciled" /\ ~Barrier(t) => ~Barrier(row)
  BY DEF Ends, Attempt, AttemptRow, Barrier

(* hasUnresolvedProviderDelivery sees a request that its row tells of.      *)
LEMMA DeliverySeen ==
    ASSUME TypeOK, NEW rows,
           \A a \in Active : /\ a = latest /\ rows[a].left /\ rows[a].inv \in MayHaveLeft
                             /\ ~Barrier(rows[a]),
           Active # {}
    PROVE  HasUnresolvedProviderDelivery(rows)
<1>1. PICK a \in Active : /\ a = latest /\ rows[a].left /\ rows[a].inv \in MayHaveLeft
                          /\ ~Barrier(rows[a])
  OBVIOUS
<1>2. a \in 1..latest /\ latest \in Nat
  BY <1>1, LedgerAssumption DEF TypeOK, Active
<1>3. \A b \in 1..latest : Barrier(rows[b]) => b < a
  BY <1>1, <1>2
<1> QED
  BY <1>1, <1>2, <1>3 DEF HasUnresolvedProviderDelivery

(* A caller in the middle of its call.                                      *)
Proceeds(w) ==
    \/ PrepareProviderInvocation(w) \/ PrepareFails(w)
    \/ MarkProviderRequestMayHaveLeft(w) \/ MarkFails(w)
    \/ AdapterRefuses(w) \/ CallEnds(w)
    \/ RecordProviderInvocationAcknowledged(w) \/ AcknowledgementFails(w)
    \/ RecordProviderInvocationFailure(w)

LEMMA ProceedsKeeps ==
    ASSUME TypeOK, Owned, NEW w \in Callers, Proceeds(w)
    PROVE  /\ Engaged(w)
           /\ callers[w].a \in 1..MaxAttempts
           /\ attempts[callers[w].a] \in AttemptRow
           /\ latest' = latest
           /\ callers' \in [Callers -> CallerState]
           /\ \A v \in Callers : Engaged(v)' <=> Engaged(v)
           /\ \A v \in Callers : callers'[v].a = callers[v].a
           /\ \A v \in Callers \ {w} : callers'[v] = callers[v]
<1>1. /\ Engaged(w) /\ latest' = latest
      /\ \E at \in {"prepared", "calling", "answered", "recorded"},
            got \in {"none", "ok", "refused", "doubt"} : Goes(w, at, got)
  <2>1. callers[w] \in CallerState
    BY DEF TypeOK
  <2>2. CASE PrepareProviderInvocation(w)
    BY <2>2 DEF PrepareProviderInvocation, Engaged
  <2>3. CASE PrepareFails(w)
    BY <2>3 DEF PrepareFails, Engaged
  <2>4. CASE MarkProviderRequestMayHaveLeft(w)
    BY <2>4 DEF MarkProviderRequestMayHaveLeft, Engaged
  <2>5. CASE MarkFails(w)
    BY <2>5 DEF MarkFails, Engaged
  <2>6. CASE AdapterRefuses(w)
    BY <2>6 DEF AdapterRefuses, Engaged
  <2>7. CASE CallEnds(w)
    BY <2>7 DEF CallEnds, Engaged
  <2>8. CASE RecordProviderInvocationAcknowledged(w)
    BY <2>8 DEF RecordProviderInvocationAcknowledged, Engaged
  <2>9. CASE AcknowledgementFails(w)
    BY <2>9 DEF AcknowledgementFails, Engaged
  <2>10. CASE RecordProviderInvocationFailure(w)
    <3>1. Engaged(w) /\ latest' = latest /\ Goes(w, "recorded", callers[w].got)
      BY <2>10 DEF RecordProviderInvocationFailure, Engaged
    <3>2. callers[w].got \in {"none", "ok", "refused", "doubt"}
      BY <2>1 DEF CallerState
    <3> QED
      BY <3>1, <3>2
  <2> QED
    BY <2>2, <2>3, <2>4, <2>5, <2>6, <2>7, <2>8, <2>9, <2>10 DEF Proceeds
<1>2. callers[w].a \in 1..MaxAttempts
  BY <1>1, LedgerAssumption DEF TypeOK, Owned
<1>3. attempts[callers[w].a] \in AttemptRow
  BY <1>2 DEF TypeOK
<1> QED
  BY <1>1, <1>2, <1>3, GoesKeeps

(* A row written over the attempt of a caller or over the latest.           *)
LEMMA RowWritten ==
    ASSUME TypeOK, NEW a, NEW row, a \in 1..MaxAttempts => row \in AttemptRow,
           attempts' = [attempts EXCEPT ![a] = row]
    PROVE  /\ attempts' \in [1..MaxAttempts -> AttemptRow]
           /\ a \in 1..MaxAttempts => attempts'[a] = row
           /\ \A b \in 1..MaxAttempts \ {a} : attempts'[b] = attempts[b]
  BY DEF TypeOK

LEMMA OperationIsRow ==
    ASSUME NEW status \in Statuses, NEW exec \in States \union {"none"},
           NEW ruled \in {"none", "intended", "absent", "differently"}
    PROVE  /\ Operation(status, exec, ruled) \in OperationRow
           /\ Operation(status, exec, ruled).status = status
           /\ Operation(status, exec, ruled).exec = exec
           /\ Operation(status, exec, ruled).ruled = ruled
  BY DEF Operation, OperationRow

(* What the two recordings and the recovery write.                          *)
LEMMA Bookkeeping ==
    ASSUME TypeOK
    PROVE  /\ Bump => resolver' \in {"idle", "fresh", "stale"}
           /\ RequestObservation => /\ observer' \in {observer, "due"}
  BY DEF TypeOK, Bump, RequestObservation

-----------------------------------------------------------------------------
(* What the five transactions that record an outcome write.                 *)

(* The operation row stays a row, and says of success, failure and absence  *)
(* only what is so.                                                         *)
OperationHolds ==
    /\ op' \in OperationRow
    /\ op'.status \in {"absent", "running"} => op'.status = op.status
    /\ op'.status = "failed" \/ op'.exec = "reconciled" => Active = {}
    /\ op'.status = "succeeded" => applied # {}
    /\ op'.exec = "verified" => op'.status = "succeeded"

(* The attempts stay rows, and tell of every request that may have left.    *)
AttemptsHold ==
    /\ attempts' \in [1..MaxAttempts -> AttemptRow]
    /\ \A a \in Active : /\ attempts'[a].left
                         /\ attempts'[a].inv \in MayHaveLeft
                         /\ ~Barrier(attempts'[a])
    /\ \A a \in 1..MaxAttempts : attempts'[a].inv = "provider_acknowledged" => a \in applied

LEMMA RowHolds ==
    ASSUME IInv, NEW a, NEW row,
           attempts' = [attempts EXCEPT ![a] = row],
           a \in 1..MaxAttempts => row \in AttemptRow,
           a \in Active => row.left /\ row.inv \in MayHaveLeft /\ ~Barrier(row),
           a \in 1..MaxAttempts /\ row.inv = "provider_acknowledged" => a \in applied
    PROVE  AttemptsHold
<1>1. Active \subseteq 1..MaxAttempts
  BY DEF IInv, TypeOK, Active
<1>2. /\ attempts' \in [1..MaxAttempts -> AttemptRow]
      /\ a \in 1..MaxAttempts => attempts'[a] = row
      /\ \A b \in 1..MaxAttempts \ {a} : attempts'[b] = attempts[b]
  BY RowWritten DEF IInv
<1>3. \A b \in Active : /\ attempts'[b].left
                        /\ attempts'[b].inv \in MayHaveLeft
                        /\ ~Barrier(attempts'[b])
  BY <1>1, <1>2 DEF IInv, Tracked
<1>4. \A b \in 1..MaxAttempts : attempts'[b].inv = "provider_acknowledged" => b \in applied
  BY <1>2 DEF IInv, Proven
<1> QED
  BY <1>2, <1>3, <1>4 DEF AttemptsHold

LEMMA AcknowledgementWrites ==
    ASSUME IInv, NEW w \in Callers, RecordProviderInvocationAcknowledged(w)
    PROVE  /\ OperationHolds /\ AttemptsHold
           /\ \/ op' = op
              \/ op.exec # "verified" /\ op'.exec = Done
<1> DEFINE a == callers[w].a
           t == attempts[a]
           row == IF t.st \in Executing
                  THEN Attempt(Done, "provider_acknowledged", t.left, "other")
                  ELSE Attempt(t.st, "provider_acknowledged", t.left, t.detail)
<1>1. /\ callers[w].got = "ok" /\ attempts' = [attempts EXCEPT ![a] = row]
      /\ \/ op' = op
         \/ op.exec # "verified" /\ op' = Operation("succeeded", Done, "none")
  BY DEF RecordProviderInvocationAcknowledged
<1>2. a \in applied /\ a \in 1..MaxAttempts /\ t \in AttemptRow
  BY <1>1, ProceedsKeeps DEF IInv, Truthful, Proceeds
<1>3. t.st \in States \union {"none"} /\ t.left \in BOOLEAN
      /\ t.detail \in {"none", "no_invocation", "absent", "other"}
  BY <1>2 DEF AttemptRow
<1>4. /\ row \in AttemptRow /\ row.inv = "provider_acknowledged" /\ row.left = t.left
      /\ ~Barrier(t) => ~Barrier(row)
  <2>1. "provider_acknowledged" \in Outcomes
    BY DEF Outcomes, MayHaveLeft
  <2>2. CASE t.st \in Executing
    <3>1. row = Attempt(Done, "provider_acknowledged", t.left, "other")
      BY <2>2
    <3> QED
      BY <1>3, <2>1, <3>1, AttemptIsRow, StatesAreStates DEF Barrier
  <2>3. CASE t.st \notin Executing
    <3>1. row = Attempt(t.st, "provider_acknowledged", t.left, t.detail)
      BY <2>3
    <3> QED
      BY <1>3, <2>1, <3>1, AttemptIsRow DEF Barrier
  <2> QED
    BY <2>2, <2>3
<1>5. a \in Active => row.left /\ row.inv \in MayHaveLeft /\ ~Barrier(row)
  BY <1>4 DEF IInv, Tracked, MayHaveLeft
<1> HIDE DEF row
<1>6. AttemptsHold
  BY <1>1, <1>2, <1>4, <1>5, RowHolds
<1>7. Operation("succeeded", Done, "none") \in OperationRow
      /\ Operation("succeeded", Done, "none").status = "succeeded"
      /\ Operation("succeeded", Done, "none").exec = Done
  BY OperationIsRow, StatesAreStates DEF Statuses
<1>8. OperationHolds
  BY <1>1, <1>2, <1>7, StatesAreStates DEF OperationHolds, IInv, TypeOK, Harmless, Proven
<1> QED
  BY <1>1, <1>6, <1>7, <1>8

LEMMA FailureWrites ==
    ASSUME IInv, NEW w \in Callers, RecordProviderInvocationFailure(w)
    PROVE  /\ OperationHolds /\ AttemptsHold
           /\ \/ op' = op
              \/ op.exec \in Executing /\ op'.exec # "verified"
<1> DEFINE a == callers[w].a
           refused == callers[w].got = "refused"
           failed == FailedInvocation(attempts[a], refused)
           rows == [attempts EXCEPT ![a] = failed]
           known == refused /\ ~HasUnresolvedProviderDelivery(rows)
           row == IF failed.st \in Executing
                  THEN Attempt(IF known THEN "known_failed" ELSE "unknown_outcome",
                               failed.inv, failed.left, "other")
                  ELSE failed
<1>1. /\ attempts' = [attempts EXCEPT ![a] = row]
      /\ \/ op' = op
         \/ known /\ op.exec \in Executing /\ op' = Operation("failed", "known_failed", op.ruled)
         \/ op.exec \in Executing /\ op' = Operation("unknown", "unknown_outcome", op.ruled)
  BY DEF RecordProviderInvocationFailure
<1>2. a \in 1..MaxAttempts /\ attempts[a] \in AttemptRow
  BY ProceedsKeeps DEF IInv, Proceeds
<1>3. refused => a \notin Active
  BY DEF IInv, Truthful
<1>4. /\ failed \in AttemptRow
      /\ failed.st = attempts[a].st /\ failed.detail = attempts[a].detail
      /\ ~refused /\ attempts[a].left => failed.left
      /\ ~refused /\ attempts[a].inv \in MayHaveLeft => failed.inv \in MayHaveLeft
      /\ failed.inv = "provider_acknowledged" => attempts[a].inv = "provider_acknowledged"
  BY <1>2, FailedRow
<1> HIDE DEF failed, refused
<1>5. a \in Active => failed.left /\ failed.inv \in MayHaveLeft /\ ~Barrier(failed)
  BY <1>3, <1>4 DEF IInv, Tracked, Barrier
<1>6. known => Active = {}
  <2>1. SUFFICES ASSUME Active # {} PROVE known => FALSE
    OBVIOUS
  <2>2. ASSUME NEW b \in Active
        PROVE  b = latest /\ rows[b].left /\ rows[b].inv \in MayHaveLeft /\ ~Barrier(rows[b])
    <3>1. b = latest /\ attempts[b].left /\ attempts[b].inv \in MayHaveLeft /\ ~Barrier(attempts[b])
      BY DEF IInv, Tracked
    <3>2. rows[b] = IF b = a THEN failed ELSE attempts[b]
      BY DEF IInv, TypeOK, Active
    <3> QED
      BY <1>5, <3>1, <3>2
  <2> HIDE DEF rows
  <2>3. HasUnresolvedProviderDelivery(rows)
    BY <2>1, <2>2, DeliverySeen DEF IInv
  <2> QED
    BY <2>3
<1> HIDE DEF rows, known
<1>7. /\ row \in AttemptRow /\ row.inv = failed.inv /\ row.left = failed.left
      /\ ~Barrier(failed) => ~Barrier(row)
  <2>1. failed.inv \in Outcomes /\ failed.left \in BOOLEAN
    BY <1>4 DEF AttemptRow
  <2> QED
    BY <1>4, <2>1, AttemptIsRow, StatesAreStates DEF Barrier
<1> HIDE DEF row
<1>8. AttemptsHold
  BY <1>1, <1>2, <1>4, <1>5, <1>7, RowHolds DEF IInv, Proven
<1>9. op.ruled \in {"none", "intended", "absent", "differently"}
  BY DEF IInv, TypeOK, OperationRow
<1>10. \/ op' = op
       \/ /\ known /\ op.exec \in Executing
          /\ op' \in OperationRow /\ op'.status = "failed" /\ op'.exec = "known_failed"
       \/ /\ op.exec \in Executing
          /\ op' \in OperationRow /\ op'.status = "unknown" /\ op'.exec = "unknown_outcome"
  BY <1>1, <1>9, OperationIsRow, StatesAreStates DEF Statuses
<1>11. OperationHolds
  BY <1>6, <1>10 DEF OperationHolds, IInv, TypeOK, Harmless, Proven
<1> QED
  BY <1>8, <1>10, <1>11

LEMMA ResultWrites ==
    ASSUME IInv, NEW w \in Callers, RecordExternalOperationResult(w)
    PROVE  /\ OperationHolds /\ AttemptsHold
           /\ \/ op' = op
              \/ op.exec \notin Settled /\ op'.exec \in {Done, "known_failed", "reconciliation_required"}
<1> DEFINE a == callers[w].a
           got == callers[w].got
           failed == got = "refused" /\ ~HasUnresolvedProviderDelivery(attempts)
           result == IF got = "ok" THEN "succeeded" ELSE IF failed THEN "failed" ELSE "unknown"
           exec == IF result = "succeeded" THEN Done
                   ELSE IF result = "failed" THEN "known_failed" ELSE "reconciliation_required"
<1>1. a \in 1..MaxAttempts /\ attempts[a] \in AttemptRow
  <2>1. Engaged(w)
    BY DEF RecordExternalOperationResult, Engaged
  <2>2. a \in 1..MaxAttempts
    BY <2>1, LedgerAssumption DEF IInv, TypeOK, Owned
  <2> QED
    BY <2>2 DEF IInv, TypeOK
<1>2. CASE op' = op /\ attempts' = attempts
  BY <1>2 DEF OperationHolds, AttemptsHold, IInv, TypeOK, Tracked, Harmless, Proven
<1>3. CASE /\ op.exec \notin Settled
           /\ op' = Operation(result, exec, "none")
           /\ attempts' = [attempts EXCEPT ![a] = Attempt(exec, attempts[a].inv, attempts[a].left, "other")]
  <2>1. /\ result \in {"succeeded", "failed", "unknown"}
        /\ exec \in {Done, "known_failed", "reconciliation_required"}
        /\ exec \in States /\ exec # "reconciled"
        /\ exec = "verified" => result = "succeeded"
    BY StatesAreStates
  <2>2. result = "succeeded" => applied # {}
    BY DEF IInv, Truthful
  <2>3. result = "failed" => Active = {}
    <3>1. \A b \in Active : /\ b = latest /\ attempts[b].left /\ attempts[b].inv \in MayHaveLeft
                            /\ ~Barrier(attempts[b])
      BY DEF IInv, Tracked
    <3>2. Active # {} => HasUnresolvedProviderDelivery(attempts)
      BY <3>1, DeliverySeen DEF IInv
    <3> QED
      BY <3>2
  <2> HIDE DEF exec, result, failed
  <2>4. /\ Operation(result, exec, "none") \in OperationRow
        /\ Operation(result, exec, "none").status = result
        /\ Operation(result, exec, "none").exec = exec
    BY <2>1, OperationIsRow DEF Statuses
  <2>5. OperationHolds
    BY <1>3, <2>1, <2>2, <2>3, <2>4 DEF OperationHolds
  <2> DEFINE row == Attempt(exec, attempts[a].inv, attempts[a].left, "other")
  <2>6. /\ row \in AttemptRow /\ row.inv = attempts[a].inv /\ row.left = attempts[a].left
        /\ ~Barrier(row)
    <3>1. attempts[a].inv \in Outcomes /\ attempts[a].left \in BOOLEAN
      BY <1>1 DEF AttemptRow
    <3> QED
      BY <2>1, <3>1, AttemptIsRow DEF Barrier
  <2> HIDE DEF row
  <2>7. AttemptsHold
    BY <1>1, <1>3, <2>6, RowHolds DEF IInv, Tracked, Proven, row
  <2> QED
    BY <1>3, <2>1, <2>4, <2>5, <2>7
<1> QED
  BY <1>2, <1>3 DEF RecordExternalOperationResult

LEMMA RecoveryWrites ==
    ASSUME IInv, RecoverStaleOperation
    PROVE  /\ OperationHolds /\ AttemptsHold
           /\ op.exec \in Executing
           /\ op'.exec \in {Done, "known_failed", "reconciliation_required"}
<1> DEFINE t == SettledTail(attempts[latest])
           rows == [attempts EXCEPT ![latest] = t]
           possible == HasUnresolvedProviderDelivery(rows)
           class == Classified(t, possible)
<1>1. op.exec \in Executing /\ latest \in 1..MaxAttempts /\ attempts[latest] \in AttemptRow
  <2>1. op.exec \in Executing /\ latest # 0
    BY DEF RecoverStaleOperation, Abandoned, IInv, Harmless
  <2>2. latest \in 1..MaxAttempts
    BY <2>1, LedgerAssumption DEF IInv, TypeOK
  <2> QED
    BY <2>1, <2>2 DEF IInv, TypeOK
<1>2. /\ t \in AttemptRow
      /\ latest \in Active => t.left /\ t.inv \in MayHaveLeft /\ ~Barrier(t)
      /\ t.inv = "provider_acknowledged" => latest \in applied
  BY <1>1, TailRow DEF IInv, Tracked, Proven
<1>3. ~possible => Active = {}
  <2>1. ASSUME NEW b \in Active
        PROVE  b = latest /\ rows[b].left /\ rows[b].inv \in MayHaveLeft /\ ~Barrier(rows[b])
    <3>1. b = latest /\ rows[b] = t
      BY DEF IInv, TypeOK, Tracked, Active
    <3> QED
      BY <1>2, <3>1
  <2> HIDE DEF rows
  <2>2. Active # {} => HasUnresolvedProviderDelivery(rows)
    BY <2>1, DeliverySeen DEF IInv
  <2> QED
    BY <2>2
<1> HIDE DEF t, possible
(* A row that ends the latest attempt holds when its outcome does.          *)
<1>4. ASSUME NEW froms, NEW st \in States, st # "reconciled", NEW inv \in Outcomes,
             NEW detail \in {"none", "no_invocation", "absent", "other"},
             attempts' = [attempts EXCEPT ![latest] = Ends(t, froms, st, inv, detail)],
             t.inv \in MayHaveLeft => inv \in MayHaveLeft,
             inv = "provider_acknowledged" => t.inv = "provider_acknowledged"
      PROVE  AttemptsHold
  <2> DEFINE row == Ends(t, froms, st, inv, detail)
  <2>1. /\ row \in AttemptRow /\ row.inv = inv /\ row.left = t.left
        /\ ~Barrier(t) => ~Barrier(row)
    BY <1>2, <1>4, EndsRow
  <2>2. attempts' = [attempts EXCEPT ![latest] = row]
    BY <1>4
  <2> HIDE DEF row
  <2> QED
    BY <1>2, <1>4, <2>1, <2>2, RowHolds
<1>5. t.inv \in Outcomes
  BY <1>2 DEF AttemptRow
<1>6. CASE /\ class = "known_failed" /\ op' = Operation("failed", "known_failed", "none")
           /\ attempts' = [attempts EXCEPT ![latest] =
                             Ends(t, Executing, "known_failed", t.inv,
                                  IF t.inv = "none" THEN "no_invocation" ELSE "other")]
  <2>1. Active = {}
    BY <1>3, <1>6 DEF Classified
  <2>2. /\ op' \in OperationRow /\ op'.status = "failed" /\ op'.exec = "known_failed"
    BY <1>6, OperationIsRow, StatesAreStates DEF Statuses
  <2> DEFINE detail == IF t.inv = "none" THEN "no_invocation" ELSE "other"
  <2>3. detail \in {"none", "no_invocation", "absent", "other"}
    OBVIOUS
  <2>4. attempts' = [attempts EXCEPT ![latest] = Ends(t, Executing, "known_failed", t.inv, detail)]
    BY <1>6
  <2> HIDE DEF detail
  <2>5. AttemptsHold
    BY <1>4, <1>5, <2>3, <2>4, StatesAreStates
  <2> QED
    BY <1>1, <2>1, <2>2, <2>5 DEF OperationHolds
<1>7. CASE /\ class = "acknowledged" /\ op' = Operation("succeeded", Done, "none")
           /\ attempts' = [attempts EXCEPT ![latest] = Ends(t, Executing, Done, t.inv, "other")]
  <2>1. /\ op' \in OperationRow /\ op'.status = "succeeded" /\ op'.exec = Done
    BY <1>7, OperationIsRow, StatesAreStates DEF Statuses
  <2>2. applied # {}
    BY <1>2, <1>7 DEF Classified
  <2>3. AttemptsHold
    BY <1>4, <1>5, <1>7, StatesAreStates
  <2> QED
    BY <1>1, <2>1, <2>2, <2>3, StatesAreStates DEF OperationHolds
<1>8. CASE /\ op' = Operation("unknown", "reconciliation_required", "none")
           /\ attempts' = [attempts EXCEPT ![latest] =
                 Ends(t, Executing \union {"unknown_outcome"}, "reconciliation_required",
                      IF t.inv = "request_may_have_left" THEN "unknown_outcome" ELSE t.inv,
                      "other")]
  <2>1. /\ op' \in OperationRow /\ op'.status = "unknown" /\ op'.exec = "reconciliation_required"
    BY <1>8, OperationIsRow, StatesAreStates DEF Statuses
  <2> DEFINE froms == Executing \union {"unknown_outcome"}
             inv == IF t.inv = "request_may_have_left" THEN "unknown_outcome" ELSE t.inv
  <2>2. /\ inv \in Outcomes
        /\ t.inv \in MayHaveLeft => inv \in MayHaveLeft
        /\ inv = "provider_acknowledged" => t.inv = "provider_acknowledged"
    BY <1>5 DEF Outcomes, MayHaveLeft
  <2>3. attempts' = [attempts EXCEPT ![latest] =
                       Ends(t, froms, "reconciliation_required", inv, "other")]
    BY <1>8
  <2> HIDE DEF inv, froms
  <2>4. AttemptsHold
    BY <1>4, <2>2, <2>3, StatesAreStates
  <2> QED
    BY <1>1, <2>1, <2>4 DEF OperationHolds
<1> QED
  BY <1>6, <1>7, <1>8 DEF RecoverStaleOperation, t, possible

LEMMA SettlementWrites ==
    ASSUME IInv, SettleObservation
    PROVE  /\ OperationHolds /\ AttemptsHold
           /\ op.exec = "verified" => op'.exec = "verified"
           /\ op'.exec = "verified" => ~case'
           /\ resolver' # "idle" => case'
<1> DEFINE exec == [present |-> "verified", divergent |-> "divergent",
                    unknown |-> "reconciliation_required"][observer]
<1>1. /\ observer \in {"present", "divergent", "unknown"}
      /\ case' = ~(observer = "present" \/ op.exec = "verified")
      /\ (observer = "present" \/ op.exec = "verified") => resolver = "idle"
  BY DEF SettleObservation
<1>2. CASE KeepsVerified(observer)
  <2>1. op' = op /\ attempts' = attempts /\ resolver' = resolver /\ op.exec = "verified"
    BY <1>2 DEF SettleObservation, KeepsVerified
  <2>2. OperationHolds /\ AttemptsHold
    BY <2>1 DEF OperationHolds, AttemptsHold, IInv, TypeOK, Tracked, Harmless, Proven
  <2> QED
    BY <1>1, <2>1, <2>2
<1>3. CASE ~KeepsVerified(observer)
  <2>1. /\ attempts' = [attempts EXCEPT ![latest] =
                          Attempt(exec, attempts[latest].inv, attempts[latest].left, "other")]
        /\ Bump
    BY <1>3 DEF SettleObservation
  <2>2. /\ exec \in {"verified", "divergent", "reconciliation_required"}
        /\ exec \in States /\ exec # "reconciled"
        /\ exec = "verified" <=> observer = "present"
    BY <1>1 DEF States, Settled
  <2> DEFINE row == Attempt(exec, attempts[latest].inv, attempts[latest].left, "other")
  <2>3. latest \in 1..MaxAttempts =>
           /\ row \in AttemptRow
           /\ row.inv = attempts[latest].inv /\ row.left = attempts[latest].left
           /\ ~Barrier(row)
    <3>1. latest \in 1..MaxAttempts =>
             attempts[latest].inv \in Outcomes /\ attempts[latest].left \in BOOLEAN
      BY DEF IInv, TypeOK, AttemptRow
    <3> HIDE DEF exec
    <3> QED
      BY <2>2, <3>1, AttemptIsRow DEF Barrier
  <2>4. latest \in Active => latest \in 1..MaxAttempts
    BY DEF IInv, TypeOK, Active
  <2>5. attempts' = [attempts EXCEPT ![latest] = row]
    BY <2>1
  <2> HIDE DEF row
  <2>6. AttemptsHold
    BY <2>3, <2>4, <2>5, RowHolds DEF IInv, Tracked, Proven
  <2>7. op.ruled \in {"none", "intended", "absent", "differently"} /\ op.status \in Statuses
    BY DEF IInv, TypeOK, OperationRow
  <2>8. /\ op' \in OperationRow
        /\ op'.exec = exec
        /\ observer = "present" => op'.status = "succeeded" /\ applied # {}
        /\ observer = "divergent" => op'.status = op.status
        /\ observer = "unknown" => op'.status = "unknown"
    <3>1. CASE observer = "present"
      <4>1. op' = Operation("succeeded", exec, "intended") /\ applied # {}
        BY <1>3, <3>1 DEF SettleObservation, IInv, Proven
      <4> HIDE DEF exec
      <4> QED
        BY <2>2, <3>1, <4>1, OperationIsRow DEF Statuses
    <3>2. CASE observer = "divergent"
      <4>1. op' = Operation(op.status, exec, op.ruled)
        BY <1>3, <3>2 DEF SettleObservation
      <4> HIDE DEF exec
      <4> QED
        BY <2>2, <2>7, <3>2, <4>1, OperationIsRow
    <3>3. CASE observer = "unknown"
      <4>1. op' = Operation("unknown", exec, op.ruled)
        BY <1>3, <3>3 DEF SettleObservation
      <4> HIDE DEF exec
      <4> QED
        BY <2>2, <2>7, <3>3, <4>1, OperationIsRow DEF Statuses
    <3> QED
      BY <1>1, <3>1, <3>2, <3>3
  <2> HIDE DEF exec
  <2>9. OperationHolds
    BY <1>1, <2>2, <2>8 DEF OperationHolds, IInv, Harmless, Proven
  <2> QED
    BY <1>1, <1>3, <2>1, <2>2, <2>6, <2>8, <2>9 DEF KeepsVerified, Bump, IInv, TypeOK, Watched
<1> QED
  BY <1>2, <1>3

LEMMA ResolutionWrites ==
    ASSUME IInv, NEW v \in {"intended", "absent", "differently"}, ResolveReconciliationCase(v)
    PROVE  /\ OperationHolds /\ AttemptsHold
           /\ Observed /\ op.exec = "verified" => op'.exec = "verified"
<1> DEFINE exec == [intended |-> "verified", absent |-> "reconciled",
                    differently |-> "divergent"][v]
           status == [intended |-> "succeeded", absent |-> "failed",
                      differently |-> op.status][v]
           detail == IF v = "absent" THEN "absent" ELSE "other"
           row == Attempt(exec, attempts[latest].inv, attempts[latest].left, detail)
<1>1. /\ v = "absent" => Active = {}
      /\ v # "absent" => applied # {}
      /\ op' = IF resolver = "fresh" THEN Operation(status, exec, v) ELSE op
      /\ attempts' = [attempts EXCEPT ![latest] = row]
  BY DEF ResolveReconciliationCase, Evidence, Active
<1>2. /\ exec \in States /\ status \in Statuses
      /\ detail \in {"none", "no_invocation", "absent", "other"}
      /\ v # "absent" => detail # "absent"
      /\ exec = "verified" => status = "succeeded"
      /\ status = "failed" => v = "absent" \/ op.status = "failed"
      /\ status = "succeeded" => v # "absent"
      /\ status \in {"absent", "running"} => op.status = status
      /\ exec = "reconciled" => v = "absent"
  BY DEF States, Settled, Statuses, IInv, TypeOK, OperationRow
<1> HIDE DEF exec, status, detail
<1>3. latest \in 1..MaxAttempts =>
         /\ row \in AttemptRow
         /\ row.inv = attempts[latest].inv /\ row.left = attempts[latest].left
         /\ v # "absent" => ~Barrier(row)
  <2>1. latest \in 1..MaxAttempts =>
           attempts[latest].inv \in Outcomes /\ attempts[latest].left \in BOOLEAN
    BY DEF IInv, TypeOK, AttemptRow
  <2> QED
    BY <1>2, <2>1, AttemptIsRow DEF Barrier
<1> HIDE DEF row
<1>4. latest \in Active => latest \in 1..MaxAttempts
  BY DEF IInv, TypeOK, Active
<1>5. AttemptsHold
  BY <1>1, <1>3, <1>4, RowHolds DEF IInv, Tracked, Proven
<1>6. /\ Operation(status, exec, v) \in OperationRow
      /\ Operation(status, exec, v).status = status
      /\ Operation(status, exec, v).exec = exec
  BY <1>2, OperationIsRow
<1>7. OperationHolds
  BY <1>1, <1>2, <1>6 DEF OperationHolds, IInv, TypeOK, Harmless, Proven
<1>8. Observed /\ op.exec = "verified" => resolver # "fresh"
  BY DEF IInv, Watched
<1> QED
  BY <1>1, <1>5, <1>7, <1>8

-----------------------------------------------------------------------------
(* Every step preserves the invariant.                                *)

(* A transaction whose rows hold, over requests that stay as they are.      *)
LEMMA WritesPreserve ==
    ASSUME IInv, OperationHolds, AttemptsHold, UNCHANGED <<latest, flight, applied>>,
           observer' = "present" => observer = "present"
    PROVE  Tracked' /\ Harmless' /\ Proven'
  BY DEF IInv, OperationHolds, AttemptsHold, Tracked, Harmless, Proven, Active

LEMMA TypeStep ==
    ASSUME IInv, Next
    PROVE  TypeOK'
<1> USE LedgerAssumption DEF IInv, TypeOK, OperationRow, AttemptRow, CallerState, Statuses, States,
      Outcomes, MayHaveLeft, Executing, Settled
<1>1. ASSUME NEW w \in Callers, ClaimOperation(w) PROVE TypeOK'
  BY <1>1 DEF ClaimOperation, CreateAttempt, Attempt, Operation, Caller, Bump
<1>2. ASSUME NEW w \in Callers, RefuseRepetition(w) PROVE TypeOK'
  BY <1>2 DEF RefuseRepetition, Operation, Bump
<1>3. ASSUME NEW w \in Callers, LoseClaim(w) PROVE TypeOK'
  BY <1>3 DEF LoseClaim, Caller
<1>4. ASSUME NEW w \in Callers, MarkExternalOperationUnknown(w) PROVE TypeOK'
  BY <1>4 DEF MarkExternalOperationUnknown, Operation, Bump, Idle, Caller
<1>5. ASSUME NEW w \in Callers, PrepareProviderInvocation(w) PROVE TypeOK'
  BY <1>5, ProceedsKeeps DEF Proceeds, PrepareProviderInvocation, Attempt, Operation
<1>6. ASSUME NEW w \in Callers, PrepareFails(w) PROVE TypeOK'
  BY <1>6, ProceedsKeeps DEF Proceeds, PrepareFails
<1>7. ASSUME NEW w \in Callers, MarkProviderRequestMayHaveLeft(w) PROVE TypeOK'
  BY <1>7, ProceedsKeeps DEF Proceeds, MarkProviderRequestMayHaveLeft, Attempt
<1>8. ASSUME NEW w \in Callers, MarkFails(w) PROVE TypeOK'
  BY <1>8, ProceedsKeeps DEF Proceeds, MarkFails
<1>9. ASSUME NEW w \in Callers, AdapterRefuses(w) PROVE TypeOK'
  <2>1. /\ Proceeds(w) /\ flight' \subseteq flight
        /\ UNCHANGED <<op, latest, attempts, applied, case, observer, resolver>>
    BY <1>9 DEF AdapterRefuses, Proceeds
  <2> QED
    BY <2>1, ProceedsKeeps
<1>10. ASSUME NEW w \in Callers, CallEnds(w) PROVE TypeOK'
  BY <1>10, ProceedsKeeps DEF Proceeds, CallEnds
<1>11. ASSUME NEW w \in Callers, RecordProviderInvocationAcknowledged(w) PROVE TypeOK'
  <2>1. /\ Proceeds(w)
        /\ Bump \/ resolver' = resolver
        /\ RequestObservation \/ observer' = observer
        /\ UNCHANGED <<latest, flight, applied, case>>
    BY <1>11 DEF RecordProviderInvocationAcknowledged, Proceeds
  <2>2. OperationHolds /\ AttemptsHold
    BY <1>11, AcknowledgementWrites
  <2> QED
    BY <2>1, <2>2, ProceedsKeeps, Bookkeeping DEF OperationHolds, AttemptsHold
<1>12. ASSUME NEW w \in Callers, AcknowledgementFails(w) PROVE TypeOK'
  BY <1>12, ProceedsKeeps DEF Proceeds, AcknowledgementFails
<1>13. ASSUME NEW w \in Callers, RecordProviderInvocationFailure(w) PROVE TypeOK'
  <2>1. /\ Proceeds(w)
        /\ Bump \/ resolver' = resolver
        /\ UNCHANGED <<latest, flight, applied, case, observer>>
    BY <1>13 DEF RecordProviderInvocationFailure, Proceeds
  <2>2. OperationHolds /\ AttemptsHold
    BY <1>13, FailureWrites
  <2> QED
    BY <2>1, <2>2, ProceedsKeeps, Bookkeeping DEF OperationHolds, AttemptsHold
<1>14. ASSUME NEW w \in Callers, RecordExternalOperationResult(w) PROVE TypeOK'
  BY <1>14, ResultWrites, IdleKeeps, Bookkeeping
     DEF RecordExternalOperationResult, OperationHolds, AttemptsHold
<1>15. ASSUME NEW w \in Callers, CallerLost(w) PROVE TypeOK'
  BY <1>15 DEF CallerLost, Idle, Caller
<1>16. ASSUME NEW a \in 1..MaxAttempts, ProviderApplies(a) PROVE TypeOK'
  BY <1>16 DEF ProviderApplies
<1>17. ASSUME NEW a \in 1..MaxAttempts, ProviderDrops(a) PROVE TypeOK'
  BY <1>17 DEF ProviderDrops
<1>18. CASE RecoverStaleOperation
  BY <1>18, RecoveryWrites, Bookkeeping DEF RecoverStaleOperation, OperationHolds, AttemptsHold
<1>19. CASE ObserveEffect
  BY <1>19 DEF ObserveEffect
<1>20. CASE SettleObservation
  BY <1>20, SettlementWrites, Bookkeeping DEF SettleObservation, OperationHolds, AttemptsHold
<1>21. CASE BeginResolution
  BY <1>21 DEF BeginResolution
<1>22. CASE AbortResolution
  BY <1>22 DEF AbortResolution
<1>23. ASSUME NEW v \in {"intended", "absent", "differently"}, ResolveReconciliationCase(v)
       PROVE  TypeOK'
  BY <1>23, ResolutionWrites, Bookkeeping DEF ResolveReconciliationCase, OperationHolds, AttemptsHold
<1> QED
  BY <1>1, <1>2, <1>3, <1>4, <1>5, <1>6, <1>7, <1>8, <1>9, <1>10, <1>11,
     <1>12, <1>13, <1>14, <1>15, <1>16, <1>17, <1>18, <1>19, <1>20, <1>21, <1>22,
     <1>23 DEF Next

LEMMA OwnedStep ==
    ASSUME IInv, Next
    PROVE  Owned'
<1>1. ASSUME NEW w \in Callers, ClaimOperation(w) PROVE Owned'
  BY <1>1, LedgerAssumption
     DEF IInv, TypeOK, Owned, Engaged, ClaimOperation, CreateAttempt, Caller, CallerState
<1>2. ASSUME NEW w \in Callers, LoseClaim(w) PROVE Owned'
  BY <1>2 DEF IInv, TypeOK, Owned, Engaged, LoseClaim, Caller, CallerState
<1>3. ASSUME NEW w \in Callers, Proceeds(w) PROVE Owned'
  BY <1>3, ProceedsKeeps DEF IInv, Owned
<1>4. ASSUME NEW w \in Callers, callers' = [callers EXCEPT ![w] = Idle], UNCHANGED latest
      PROVE  Owned'
  BY <1>4, IdleKeeps DEF IInv, Owned, Engaged
<1>5. CASE UNCHANGED <<callers, latest>>
  BY <1>5 DEF IInv, Owned, Engaged
<1> QED
  BY <1>1, <1>2, <1>3, <1>4, <1>5 DEF Next, Proceeds,
     MarkExternalOperationUnknown, RecordExternalOperationResult, CallerLost,
     RefuseRepetition, ProviderApplies, ProviderDrops, RecoverStaleOperation,
     ObserveEffect, SettleObservation, BeginResolution, AbortResolution,
     ResolveReconciliationCase

(* Only an operation that happened nowhere is claimed.                      *)
LEMMA NothingClaimed ==
    ASSUME IInv, NEW w \in Callers, ClaimOperation(w)
    PROVE  Active = {}
<1>1. latest = 0 \/ op.status = "failed" \/ op.exec = "reconciled"
  BY DEF ClaimOperation, MayRepeat, VerifiedAbsent, DefinitePreDispatch, IInv, Harmless
<1>2. latest = 0 => Active = {}
  BY DEF IInv, TypeOK, Tracked, Active
<1> QED
  BY <1>1, <1>2 DEF IInv, Harmless

LEMMA TruthfulStep ==
    ASSUME IInv, Next
    PROVE  Truthful'
<1> USE DEF IInv
<1>1. ASSUME NEW w \in Callers, ClaimOperation(w) PROVE Truthful'
  <2>1. Active = {}
    BY <1>1, NothingClaimed
  <2> QED
    BY <1>1, <2>1 DEF TypeOK, CallerState, Truthful, Engaged, Active, ClaimOperation, CreateAttempt, Caller
<1>2. ASSUME NEW w \in Callers, LoseClaim(w) PROVE Truthful'
  BY <1>2 DEF TypeOK, CallerState, Truthful, Engaged, Active, LoseClaim, Caller
(* A caller that proceeds is told the truth, and the others were.           *)
<1>3. ASSUME NEW w \in Callers, Proceeds(w), UNCHANGED <<flight, applied>>,
             callers'[w].at \in {"claimed", "prepared"} => callers[w].a \notin Active,
             callers'[w].got = "refused" => callers[w].a \notin Active,
             callers'[w].got = "ok" => callers[w].a \in applied
      PROVE  Truthful'
  BY <1>3, ProceedsKeeps DEF Truthful, Active
<1>4. ASSUME NEW w \in Callers, PrepareProviderInvocation(w) PROVE Truthful'
  <2>1. callers[w].a \notin Active
    BY <1>4 DEF PrepareProviderInvocation, Truthful
  <2>2. Proceeds(w) /\ UNCHANGED <<flight, applied>> /\ callers'[w].got \in {"none", "doubt"}
    BY <1>4 DEF PrepareProviderInvocation, Proceeds, TypeOK, Goes, Caller
  <2> QED
    BY <1>3, <2>1, <2>2
<1>5. ASSUME NEW w \in Callers, PrepareFails(w) PROVE Truthful'
  <2>1. /\ Proceeds(w) /\ UNCHANGED <<flight, applied>>
        /\ callers'[w].at = "recorded" /\ callers'[w].got = "doubt"
    BY <1>5 DEF PrepareFails, Proceeds, TypeOK, Goes, Caller
  <2> QED
    BY <1>3, <2>1
<1>6. ASSUME NEW w \in Callers, MarkProviderRequestMayHaveLeft(w) PROVE Truthful'
  <2>1. callers[w].at = "prepared" /\ Proceeds(w) /\ applied' = applied
    BY <1>6 DEF MarkProviderRequestMayHaveLeft, Proceeds
  <2>2. callers[w].a \notin Active /\ Engaged(w)
    BY <2>1 DEF Truthful, Engaged
  <2>3. CASE flight' = flight /\ Goes(w, "answered", "doubt")
    BY <1>3, <2>1, <2>3 DEF TypeOK, Goes, Caller
  <2>4. CASE flight' = flight \union {callers[w].a} /\ Goes(w, "calling", "none")
    <3>1. callers'[w].at = "calling" /\ callers'[w].got = "none"
      BY <2>4 DEF TypeOK, Goes, Caller
    <3>2. Active' = Active \union {callers[w].a} /\ flight' \intersect applied' = {}
      BY <2>1, <2>2, <2>4 DEF Active, Truthful
    <3>3. \A v \in Callers \ {w} : Engaged(v) => callers[v].a # callers[w].a
      BY <2>2 DEF Owned
    <3> QED
      BY <2>1, <3>1, <3>2, <3>3, ProceedsKeeps DEF Truthful, Engaged
  <2> QED
    BY <1>6, <2>3, <2>4 DEF MarkProviderRequestMayHaveLeft
<1>7. ASSUME NEW w \in Callers, MarkFails(w) PROVE Truthful'
  <2>1. /\ Proceeds(w) /\ UNCHANGED <<flight, applied>>
        /\ callers'[w].at = "answered" /\ callers'[w].got \in {"refused", "doubt"}
    BY <1>7 DEF MarkFails, Proceeds, TypeOK, Goes, Caller
  <2>2. callers[w].a \notin Active
    BY <1>7 DEF MarkFails, Truthful
  <2> QED
    BY <1>3, <2>1, <2>2
<1>8. ASSUME NEW w \in Callers, AdapterRefuses(w) PROVE Truthful'
  <2>1. /\ callers[w].a \in flight /\ flight' = flight \ {callers[w].a} /\ applied' = applied
        /\ Proceeds(w) /\ callers'[w].at = "answered" /\ callers'[w].got = "refused"
    BY <1>8 DEF AdapterRefuses, Proceeds, TypeOK, Goes, Caller
  <2>2. callers[w].a \notin Active' /\ Active' \subseteq Active /\ flight' \intersect applied' = {}
    BY <2>1 DEF Truthful, Active
  <2> QED
    BY <2>1, <2>2, ProceedsKeeps DEF Truthful
<1>9. ASSUME NEW w \in Callers, CallEnds(w) PROVE Truthful'
  <2>1. /\ Proceeds(w) /\ UNCHANGED <<flight, applied>> /\ callers'[w].at = "answered"
        /\ \/ callers'[w].got = "ok" /\ callers[w].a \in applied
           \/ callers'[w].got = "doubt"
    BY <1>9 DEF CallEnds, Proceeds, TypeOK, Goes, Caller
  <2> QED
    BY <1>3, <2>1
<1>10. ASSUME NEW w \in Callers, RecordProviderInvocationAcknowledged(w) \/ AcknowledgementFails(w)
       PROVE  Truthful'
  <2>1. /\ Proceeds(w) /\ UNCHANGED <<flight, applied>> /\ callers[w].got = "ok"
        /\ callers'[w].at \in {"recorded", "answered"} /\ callers'[w].got \in {"ok", "doubt"}
    BY <1>10 DEF RecordProviderInvocationAcknowledged, AcknowledgementFails, Proceeds, TypeOK, Goes, Caller
  <2> QED
    BY <1>3, <2>1 DEF Truthful
<1>11. ASSUME NEW w \in Callers, RecordProviderInvocationFailure(w) PROVE Truthful'
  <2>1. /\ Proceeds(w) /\ UNCHANGED <<flight, applied>>
        /\ callers'[w].at = "recorded" /\ callers'[w].got = callers[w].got
    BY <1>11 DEF RecordProviderInvocationFailure, Proceeds, TypeOK, Goes, Caller
  <2> QED
    BY <1>3, <2>1 DEF Truthful
<1>12. ASSUME NEW w \in Callers, callers' = [callers EXCEPT ![w] = Idle], UNCHANGED <<flight, applied>>
       PROVE  Truthful'
  BY <1>12, IdleKeeps DEF Truthful, Engaged, Active
<1>13. ASSUME UNCHANGED callers, flight' \union applied' \subseteq Active, applied \subseteq applied',
              flight' \intersect applied' = {}
       PROVE  Truthful'
  BY <1>13 DEF Truthful, Engaged, Active
<1>14. ASSUME NEW a \in 1..MaxAttempts, ProviderApplies(a) \/ ProviderDrops(a) PROVE Truthful'
  BY <1>13, <1>14 DEF ProviderApplies, ProviderDrops, Active, Truthful
<1>15. CASE UNCHANGED <<callers, flight, applied>>
  BY <1>13, <1>15 DEF Active, Truthful
<1> QED
  BY <1>1, <1>2, <1>4, <1>5, <1>6, <1>7, <1>8, <1>9, <1>10, <1>11, <1>12,
     <1>14, <1>15 DEF Next, MarkExternalOperationUnknown,
     RecordExternalOperationResult, CallerLost, RefuseRepetition,
     RecoverStaleOperation, ObserveEffect, SettleObservation, BeginResolution,
     AbortResolution, ResolveReconciliationCase

LEMMA RowsStep ==
    ASSUME IInv, Next
    PROVE  Tracked' /\ Harmless' /\ Proven'
<1> USE DEF IInv
<1>1. ASSUME NEW w \in Callers, ClaimOperation(w) PROVE Tracked' /\ Harmless' /\ Proven'
  <2>1. Active = {} /\ Active' = {}
    BY <1>1, NothingClaimed DEF ClaimOperation, CreateAttempt, Active
  <2> QED
    BY <1>1, <2>1 DEF TypeOK, AttemptRow, Active, Tracked, Harmless, Proven, ClaimOperation, CreateAttempt, Attempt, Operation
<1>2. ASSUME NEW w \in Callers, RefuseRepetition(w) PROVE Tracked' /\ Harmless' /\ Proven'
  BY <1>2 DEF Active, Tracked, Harmless, Proven, RefuseRepetition, Operation
<1>3. ASSUME NEW w \in Callers, LoseClaim(w) PROVE Tracked' /\ Harmless' /\ Proven'
  BY <1>3 DEF Active, Tracked, Harmless, Proven, LoseClaim
<1>4. ASSUME NEW w \in Callers, MarkExternalOperationUnknown(w) PROVE Tracked' /\ Harmless' /\ Proven'
  BY <1>4 DEF Active, Tracked, Harmless, Proven, MarkExternalOperationUnknown, Operation
<1>5. ASSUME NEW w \in Callers, PrepareProviderInvocation(w) PROVE Tracked' /\ Harmless' /\ Proven'
  BY <1>5 DEF Active, Tracked, Harmless, Proven, PrepareProviderInvocation, TypeOK, AttemptRow, Attempt, Operation, MayHaveLeft, Barrier
<1>6. ASSUME NEW w \in Callers, PrepareFails(w) PROVE Tracked' /\ Harmless' /\ Proven'
  BY <1>6 DEF Active, Tracked, Harmless, Proven, PrepareFails
<1>7. ASSUME NEW w \in Callers, MarkProviderRequestMayHaveLeft(w) PROVE Tracked' /\ Harmless' /\ Proven'
  <2> DEFINE a == callers[w].a
             row == Attempt(attempts[a].st, "request_may_have_left", TRUE, attempts[a].detail)
  <2>1. /\ a = latest /\ attempts[a].st = "provider_in_flight"
        /\ op.status = "running" /\ op.exec = "provider_in_flight"
        /\ attempts' = [attempts EXCEPT ![a] = row]
        /\ Active' \subseteq Active \union {a}
        /\ UNCHANGED <<op, latest, applied, observer>>
    BY <1>7 DEF MarkProviderRequestMayHaveLeft, Active
  <2>2. /\ a \in 1..MaxAttempts
        /\ row.left /\ row.inv = "request_may_have_left" /\ ~Barrier(row)
    BY <1>7, <2>1, ProceedsKeeps DEF Proceeds, Attempt, Barrier
  <2> HIDE DEF row
  <2>3. attempts'[a] = row /\ \A b \in 1..MaxAttempts \ {a} : attempts'[b] = attempts[b]
    BY <2>1, <2>2 DEF TypeOK
  <2>4. Tracked'
    BY <2>1, <2>2, <2>3 DEF Tracked, TypeOK, Active, MayHaveLeft
  <2>5. Harmless' /\ Proven'
    BY <2>1, <2>2, <2>3 DEF Harmless, Proven
  <2> QED
    BY <2>4, <2>5
<1>8. ASSUME NEW w \in Callers, MarkFails(w) PROVE Tracked' /\ Harmless' /\ Proven'
  BY <1>8 DEF Active, Tracked, Harmless, Proven, MarkFails
<1>9. ASSUME NEW w \in Callers, AdapterRefuses(w) PROVE Tracked' /\ Harmless' /\ Proven'
  BY <1>9 DEF Active, Tracked, Harmless, Proven, AdapterRefuses
<1>10. ASSUME NEW w \in Callers, CallEnds(w) PROVE Tracked' /\ Harmless' /\ Proven'
  BY <1>10 DEF Active, Tracked, Harmless, Proven, CallEnds
<1>11. ASSUME NEW w \in Callers, RecordProviderInvocationAcknowledged(w) PROVE Tracked' /\ Harmless' /\ Proven'
  BY <1>11, AcknowledgementWrites, WritesPreserve DEF RecordProviderInvocationAcknowledged, RequestObservation
<1>12. ASSUME NEW w \in Callers, AcknowledgementFails(w) PROVE Tracked' /\ Harmless' /\ Proven'
  BY <1>12 DEF Active, Tracked, Harmless, Proven, AcknowledgementFails
<1>13. ASSUME NEW w \in Callers, RecordProviderInvocationFailure(w) PROVE Tracked' /\ Harmless' /\ Proven'
  BY <1>13, FailureWrites, WritesPreserve DEF RecordProviderInvocationFailure
<1>14. ASSUME NEW w \in Callers, RecordExternalOperationResult(w) PROVE Tracked' /\ Harmless' /\ Proven'
  BY <1>14, ResultWrites, WritesPreserve DEF RecordExternalOperationResult, RequestObservation
<1>15. ASSUME NEW w \in Callers, CallerLost(w) PROVE Tracked' /\ Harmless' /\ Proven'
  BY <1>15 DEF Active, Tracked, Harmless, Proven, CallerLost
<1>16. ASSUME NEW a \in 1..MaxAttempts, ProviderApplies(a) PROVE Tracked' /\ Harmless' /\ Proven'
  BY <1>16 DEF Active, Tracked, Harmless, Proven, ProviderApplies
<1>17. ASSUME NEW a \in 1..MaxAttempts, ProviderDrops(a) PROVE Tracked' /\ Harmless' /\ Proven'
  BY <1>17 DEF Active, Tracked, Harmless, Proven, ProviderDrops
<1>18. CASE RecoverStaleOperation
  BY <1>18, RecoveryWrites, WritesPreserve DEF RecoverStaleOperation, RequestObservation
<1>19. CASE ObserveEffect
  BY <1>19 DEF Active, Tracked, Harmless, Proven, ObserveEffect, Shows
<1>20. CASE SettleObservation
  BY <1>20, SettlementWrites, WritesPreserve DEF SettleObservation
<1>21. CASE BeginResolution
  BY <1>21 DEF Active, Tracked, Harmless, Proven, BeginResolution
<1>22. CASE AbortResolution
  BY <1>22 DEF Active, Tracked, Harmless, Proven, AbortResolution
<1>23. ASSUME NEW v \in {"intended", "absent", "differently"}, ResolveReconciliationCase(v)
       PROVE  Tracked' /\ Harmless' /\ Proven'
  BY <1>23, ResolutionWrites, WritesPreserve DEF ResolveReconciliationCase
<1> QED
  BY <1>1, <1>2, <1>3, <1>4, <1>5, <1>6, <1>7, <1>8, <1>9, <1>10, <1>11,
     <1>12, <1>13, <1>14, <1>15, <1>16, <1>17, <1>18, <1>19, <1>20, <1>21, <1>22,
     <1>23 DEF Next

LEMMA WatchedStep ==
    ASSUME IInv, Next
    PROVE  Watched'
<1> USE DEF IInv
<1>1. ASSUME NEW w \in Callers, ClaimOperation(w) PROVE Watched'
  BY <1>1 DEF Watched, TypeOK, ClaimOperation, CreateAttempt, Operation, Bump
<1>2. ASSUME NEW w \in Callers, RefuseRepetition(w) PROVE Watched'
  BY <1>2 DEF Watched, TypeOK, RefuseRepetition, Operation, Bump
<1>3. ASSUME NEW w \in Callers, LoseClaim(w) PROVE Watched'
  BY <1>3 DEF Watched, TypeOK, LoseClaim
<1>4. ASSUME NEW w \in Callers, MarkExternalOperationUnknown(w) PROVE Watched'
  BY <1>4 DEF Watched, TypeOK, MarkExternalOperationUnknown, Operation, Bump, Settled
<1>5. ASSUME NEW w \in Callers, PrepareProviderInvocation(w) PROVE Watched'
  BY <1>5 DEF Watched, TypeOK, PrepareProviderInvocation, Operation
<1>6. ASSUME NEW w \in Callers, PrepareFails(w) PROVE Watched'
  BY <1>6 DEF Watched, TypeOK, PrepareFails
<1>7. ASSUME NEW w \in Callers, MarkProviderRequestMayHaveLeft(w) PROVE Watched'
  BY <1>7 DEF Watched, TypeOK, MarkProviderRequestMayHaveLeft
<1>8. ASSUME NEW w \in Callers, MarkFails(w) PROVE Watched'
  BY <1>8 DEF Watched, TypeOK, MarkFails
<1>9. ASSUME NEW w \in Callers, AdapterRefuses(w) PROVE Watched'
  BY <1>9 DEF Watched, TypeOK, AdapterRefuses
<1>10. ASSUME NEW w \in Callers, CallEnds(w) PROVE Watched'
  BY <1>10 DEF Watched, TypeOK, CallEnds
<1>11. ASSUME NEW w \in Callers, RecordProviderInvocationAcknowledged(w) PROVE Watched'
  BY <1>11, AcknowledgementWrites DEF Watched, TypeOK, RecordProviderInvocationAcknowledged, Bump, Done, Executing, Settled
<1>12. ASSUME NEW w \in Callers, AcknowledgementFails(w) PROVE Watched'
  BY <1>12 DEF Watched, TypeOK, AcknowledgementFails
<1>13. ASSUME NEW w \in Callers, RecordProviderInvocationFailure(w) PROVE Watched'
  BY <1>13, FailureWrites DEF Watched, TypeOK, RecordProviderInvocationFailure, Bump, Done, Executing, Settled
<1>14. ASSUME NEW w \in Callers, RecordExternalOperationResult(w) PROVE Watched'
  BY <1>14, ResultWrites DEF Watched, TypeOK, RecordExternalOperationResult, Bump, Done, Executing, Settled
<1>15. ASSUME NEW w \in Callers, CallerLost(w) PROVE Watched'
  BY <1>15 DEF Watched, TypeOK, CallerLost
<1>16. ASSUME NEW a \in 1..MaxAttempts, ProviderApplies(a) PROVE Watched'
  BY <1>16 DEF Watched, TypeOK, ProviderApplies
<1>17. ASSUME NEW a \in 1..MaxAttempts, ProviderDrops(a) PROVE Watched'
  BY <1>17 DEF Watched, TypeOK, ProviderDrops
<1>18. CASE RecoverStaleOperation
  <2>1. op'.exec \in {Done, "known_failed", "reconciliation_required"}
    BY <1>18, RecoveryWrites
  <2>2. Bump /\ (case => case')
    BY <1>18 DEF RecoverStaleOperation
  <2> QED
    BY <2>1, <2>2, RecoveryWrites, <1>18 DEF Watched, TypeOK, Bump, Done, Executing
<1>19. CASE ObserveEffect
  BY <1>19 DEF Watched, TypeOK, ObserveEffect
<1>20. CASE SettleObservation
  BY <1>20, SettlementWrites DEF Watched
<1>21. CASE BeginResolution
  BY <1>21 DEF Watched, TypeOK, BeginResolution
<1>22. CASE AbortResolution
  BY <1>22 DEF Watched, TypeOK, AbortResolution
<1>23. ASSUME NEW v \in {"intended", "absent", "differently"}, ResolveReconciliationCase(v)
       PROVE  Watched'
  BY <1>23 DEF Watched, ResolveReconciliationCase
<1> QED
  BY <1>1, <1>2, <1>3, <1>4, <1>5, <1>6, <1>7, <1>8, <1>9, <1>10, <1>11,
     <1>12, <1>13, <1>14, <1>15, <1>16, <1>17, <1>18, <1>19, <1>20, <1>21, <1>22,
     <1>23 DEF Next

-----------------------------------------------------------------------------
(* THEOREMS                                                                 *)

(* The invariant the others follow from holds however claims, calls, losses,*)
(* recoveries, observations and resolutions of idempotent-call.ts, wrap.ts  *)
(* and reconciliation.ts interleave.                                        *)
THEOREM Inductive == Spec => []IInv
<1>1. Init => IInv
  <2> SUFFICES ASSUME Init PROVE IInv
    OBVIOUS
  <2> USE DEF Init
  <2>1. /\ Operation("absent", "none", "none") \in OperationRow
        /\ NoAttempt \in AttemptRow /\ Idle \in CallerState
    BY LedgerAssumption, OperationIsRow
       DEF Statuses, NoAttempt, Attempt, AttemptRow, Outcomes, Idle, Caller, CallerState
  <2>2. TypeOK
    <3>1. op \in OperationRow /\ latest \in 0..MaxAttempts
      BY <2>1, LedgerAssumption
    <3>2. attempts \in [1..MaxAttempts -> AttemptRow]
      BY <2>1
    <3>3. callers \in [Callers -> CallerState]
      BY <2>1
    <3> QED
      BY <3>1, <3>2, <3>3 DEF TypeOK
  <2>3. Owned /\ Truthful /\ Tracked
    BY DEF Owned, Truthful, Tracked, Engaged, Active, Idle, Caller
  <2>4. Harmless /\ Proven /\ Watched
    BY DEF Harmless, Proven, Watched, Active, Operation, NoAttempt, Attempt
  <2> QED
    BY <2>2, <2>3, <2>4 DEF IInv
<1>2. IInv /\ [Next]_vars => IInv'
  <2> SUFFICES ASSUME IInv, [Next]_vars PROVE IInv'
    OBVIOUS
  <2>1. CASE Next
    BY <2>1, TypeStep, OwnedStep, TruthfulStep, RowsStep, WatchedStep DEF IInv
  <2>2. CASE UNCHANGED vars
    BY <2>2 DEF vars, IInv, TypeOK, Owned, Engaged, Truthful, Tracked, Harmless, Proven, Watched, Active
  <2> QED
    BY <2>1, <2>2
<1> QED
  BY <1>1, <1>2, PTL DEF Spec

(* The rows of the ledger keep their types.                                 *)
THEOREM TypeCorrect == Spec => []TypeOK
<1>1. IInv => TypeOK
  BY DEF IInv
<1> QED
  BY <1>1, Inductive, PTL

(* The provider applies the request of one logical operation at most once,  *)
(* whatever number of callers reach it and attempts are authorized: the     *)
(* retry evidence of claimOperation (idempotent-call.ts:299-326) and the    *)
(* fence of the mark (:520-563) are enough.                                 *)
THEOREM AppliedOnce == Spec => []AppliedAtMostOnce
<1>1. IInv => AppliedAtMostOnce
  <2> SUFFICES ASSUME IInv PROVE AppliedAtMostOnce
    OBVIOUS
  <2>1. applied = {} \/ applied = {latest}
    BY DEF IInv, Tracked, Active
  <2>2. Cardinality({}) = 0 /\ Cardinality({latest}) = 1
    BY FS_EmptySet, FS_Singleton
  <2>3. Cardinality(applied) = 0 \/ Cardinality(applied) = 1
    BY <2>1, <2>2
  <2> QED
    BY <2>3 DEF AppliedAtMostOnce
<1> QED
  BY <1>1, Inductive, PTL

(* An operation recorded as failed, which the next caller may repeat,       *)
(* happened nowhere and cannot happen any more.                             *)
THEOREM FailuresAreHarmless == Spec => []FailureIsHarmless
<1>1. IInv => FailureIsHarmless
  BY DEF IInv, Harmless, FailureIsHarmless, Active
<1> QED
  BY <1>1, Inductive, PTL

(* An operation recorded as succeeded took effect at the provider.          *)
THEOREM SuccessesAreProven == Spec => []SuccessIsProven
<1>1. IInv => SuccessIsProven
  BY DEF IInv, Proven, SuccessIsProven
<1> QED
  BY <1>1, Inductive, PTL

(* hasUnresolvedProviderDelivery (idempotent-call.ts:72-88) finds every     *)
(* request that was or may yet be applied.                                  *)
THEOREM EgressesAreTracked == Spec => []EgressIsTracked
<1>1. IInv => EgressIsTracked
  <2> SUFFICES ASSUME IInv, Active # {} PROVE HasUnresolvedProviderDelivery(attempts)
    BY DEF EgressIsTracked, Active
  <2>1. \A a \in Active : /\ a = latest /\ attempts[a].left /\ attempts[a].inv \in MayHaveLeft
                          /\ ~Barrier(attempts[a])
    BY DEF IInv, Tracked
  <2> QED
    BY <2>1, DeliverySeen DEF IInv
<1> QED
  BY <1>1, Inductive, PTL

(* No step takes back a verification by readback: the guards of             *)
(* settleExternalEffectObservation, of the recordings and of the recovery,  *)
(* and the closing of the case with the verification, leave none that could.*)
THEOREM VerificationsStay == ASSUME Observed PROVE Spec => VerifiedIsMonotonic
<1>1. ASSUME IInv, Next, op.exec = "verified" PROVE op'.exec = "verified"
  <2> USE <1>1
  <2>1. op.status = "succeeded"
    BY DEF IInv, Proven
  <2>2. ASSUME NEW w \in Callers, ClaimOperation(w) \/ RefuseRepetition(w) PROVE FALSE
    BY <2>1, <2>2 DEF ClaimOperation, MayRepeat, RefuseRepetition
  <2>3. ASSUME NEW w \in Callers, MarkExternalOperationUnknown(w) PROVE op' = op
    BY <2>3 DEF MarkExternalOperationUnknown, Settled
  <2>4. ASSUME NEW w \in Callers, PrepareProviderInvocation(w) PROVE FALSE
    BY <2>1, <2>4 DEF PrepareProviderInvocation
  <2>5. ASSUME NEW w \in Callers, RecordProviderInvocationAcknowledged(w) PROVE op' = op
    BY <2>5, AcknowledgementWrites
  <2>6. ASSUME NEW w \in Callers, RecordProviderInvocationFailure(w) PROVE op' = op
    BY <2>6, FailureWrites DEF Executing
  <2>7. ASSUME NEW w \in Callers, RecordExternalOperationResult(w) PROVE op' = op
    BY <2>7, ResultWrites DEF Settled
  <2>8. ~RecoverStaleOperation
    BY RecoveryWrites DEF Executing
  <2>9. CASE SettleObservation
    BY <2>9, SettlementWrites
  <2>10. ASSUME NEW v \in {"intended", "absent", "differently"}, ResolveReconciliationCase(v)
         PROVE  op'.exec = "verified"
    BY <2>10, ResolutionWrites
  <2>11. CASE UNCHANGED op
    BY <2>11
  <2> QED
    BY <2>2, <2>3, <2>4, <2>5, <2>6, <2>7, <2>8, <2>9, <2>10, <2>11
       DEF Next, LoseClaim, PrepareFails, MarkProviderRequestMayHaveLeft, MarkFails, AdapterRefuses,
           CallEnds, AcknowledgementFails, CallerLost, ProviderApplies, ProviderDrops,
           ObserveEffect, BeginResolution, AbortResolution
<1>2. IInv /\ [Next]_vars => (op.exec = "verified" => op'.exec = "verified")
  BY <1>1 DEF vars
<1>3. Spec => []IInv
  BY Inductive
<1> QED
  BY <1>2, <1>3, PTL DEF Spec, VerifiedIsMonotonic

-----------------------------------------------------------------------------
(* THE REFINEMENT                                                           *)

(* The invariant makes every judgement of the ledger a true one, so that a  *)
(* step which leaves the requests alone is a judgement of OutsideEffect.    *)
LEMMA JudgementsAreTrue ==
    ASSUME IInv', UNCHANGED <<flight, applied>>
    PROVE  Promise!Judge
<1>1. op'.status = "succeeded" => applied # {}
  BY DEF IInv, Proven
<1>2. op'.status = "failed" \/ op'.exec = "reconciled" => flight \union applied = {}
  BY DEF IInv, Harmless, Active
<1>3. op'.status = "absent" => flight \union applied = {}
  BY DEF IInv, Harmless, Tracked, TypeOK, Active
<1>4. (op.status = "succeeded")' \in BOOLEAN
      /\ (op.status \in {"absent", "failed"} \/ VerifiedAbsent)' \in BOOLEAN
  OBVIOUS
<1> QED
  BY <1>1, <1>2, <1>3, <1>4 DEF Promise!Judge, VerifiedAbsent

(* The mark finds nothing under way and nothing applied: what there could   *)
(* be is of the latest attempt, and that is the caller's own.               *)
LEMMA MarkSends ==
    ASSUME IInv, IInv', NEW w \in Callers, MarkProviderRequestMayHaveLeft(w)
    PROVE  Promise!Next
<1>1. callers[w].a = latest /\ callers[w].a \in 1..MaxAttempts /\ callers[w].at = "prepared"
  BY ProceedsKeeps DEF MarkProviderRequestMayHaveLeft, Proceeds, IInv
<1>2. flight = {} /\ applied = {}
  BY <1>1 DEF IInv, Truthful, Tracked, Active
<1>3. CASE UNCHANGED flight
  BY <1>3, JudgementsAreTrue DEF MarkProviderRequestMayHaveLeft, Promise!Next
<1>4. CASE flight' = flight \union {callers[w].a}
  <2>1. /\ op.status = "running" /\ op.exec = "provider_in_flight"
        /\ UNCHANGED <<op, applied>>
    BY DEF MarkProviderRequestMayHaveLeft
  <2>2. Promise!Send(callers[w].a)
    BY <1>2, <1>4, <2>1 DEF Promise!Send, VerifiedAbsent
  <2> QED
    BY <1>1, <2>2 DEF Promise!Next
<1> QED
  BY <1>3, <1>4 DEF MarkProviderRequestMayHaveLeft

(* Every behaviour of the ledger is one of OutsideEffect: callers, claims,  *)
(* invocations, recoveries, cases and observations add nothing to what is   *)
(* promised of the effect (idempotent-call.ts:299-326, 520-563).            *)
THEOREM LedgerKeepsPromise == Spec => KeepsPromise
<1>1. Init => Promise!Init
  BY DEF Init, Promise!Init, Operation
<1>2. IInv /\ IInv' /\ [Next]_vars => [Promise!Next]_(Promise!state)
  <2> SUFFICES ASSUME IInv, IInv', [Next]_vars PROVE [Promise!Next]_(Promise!state)
    OBVIOUS
  <2>1. CASE UNCHANGED <<flight, applied>>
    BY <2>1, JudgementsAreTrue DEF Promise!Next
  <2>2. ASSUME NEW w \in Callers, MarkProviderRequestMayHaveLeft(w) PROVE Promise!Next
    BY <2>2, MarkSends
  <2>3. ASSUME NEW w \in Callers, AdapterRefuses(w) PROVE Promise!Next
    <3>1. callers[w].a \in 1..MaxAttempts
      BY <2>3 DEF AdapterRefuses, IInv, TypeOK
    <3>2. Promise!GetLost(callers[w].a)
      BY <2>3 DEF AdapterRefuses, Promise!GetLost, VerifiedAbsent
    <3> QED
      BY <3>1, <3>2 DEF Promise!Next
  <2>4. ASSUME NEW a \in 1..MaxAttempts, ProviderApplies(a) PROVE Promise!Next
    <3>1. Promise!TakeEffect(a)
      BY <2>4 DEF ProviderApplies, Promise!TakeEffect, VerifiedAbsent
    <3> QED
      BY <3>1 DEF Promise!Next
  <2>5. ASSUME NEW a \in 1..MaxAttempts, ProviderDrops(a) PROVE Promise!Next
    <3>1. Promise!GetLost(a)
      BY <2>5 DEF ProviderDrops, Promise!GetLost, VerifiedAbsent
    <3> QED
      BY <3>1 DEF Promise!Next
  <2> QED
    BY <2>1, <2>2, <2>3, <2>4, <2>5
       DEF Next, vars, ClaimOperation, CreateAttempt, RefuseRepetition, LoseClaim,
           MarkExternalOperationUnknown, PrepareProviderInvocation, PrepareFails, MarkFails, CallEnds,
           RecordProviderInvocationAcknowledged, AcknowledgementFails,
           RecordProviderInvocationFailure, RecordExternalOperationResult, CallerLost,
           RecoverStaleOperation, ObserveEffect, SettleObservation, BeginResolution,
           AbortResolution, ResolveReconciliationCase
<1> QED
  BY <1>1, <1>2, Inductive, PTL DEF Spec, KeepsPromise, Promise!Spec
=============================================================================
