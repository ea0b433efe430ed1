------------------------------ MODULE JobQueue ------------------------------
(***************************************************************************)
(* The durable job queue of the worker fleet: the rows of the `jobs` and   *)
(* `job_delivery_attempts` tables, and the slots of the worker processes   *)
(* that claim, run and settle them (apps/worker/src/queue.ts,              *)
(* apps/worker/src/job-heartbeat.ts).                                      *)
(*                                                                         *)
(* A claim is identified by its fence.  The code writes a fresh uuid       *)
(* (claim_token) together with claim_fence + 1 on every claim and clears   *)
(* the token when the claim ends, so `holder` (who owns the open claim)    *)
(* and `fence` (which claim it is) carry the same information as           *)
(* (lease_owner, claim_token, claim_fence).                                *)
(*                                                                         *)
(* One SQL statement or transaction is one step; between two of them any   *)
(* other slot, the recovery sweep, the clock and a crash may intervene.    *)
(***************************************************************************)
EXTENDS Naturals, FiniteSets

CONSTANTS
    Jobs,         \* the durable obligations
    Safe,         \* retry_safety pure, locally_idempotent, durably_effect_guarded
    Immediate,    \* leaseRecovery "immediate_after_expiry" (implies Safe)
    Provable,     \* reconcilable types with a durable proof of "nothing dispatched"
    Retired,      \* rows of the retired vertical: no handler can be registered
    Workers,      \* execution slots of the fleet
    NoWorker,     \* lease_owner IS NULL
    NoJob,        \* what an idle slot holds
    MaxAttempts,  \* jobs.max_attempts
    MaxReturns,   \* bound on uncharged deliveries (drain, capacity) per job
    LeaseTicks    \* lease length, in clock ticks

ASSUME ConstantsAssumption ==
    /\ Safe \subseteq Jobs
    /\ Immediate \subseteq Safe
    /\ Provable \subseteq Jobs \ Safe
    /\ Retired \subseteq Jobs \ Safe
    /\ NoWorker \notin Workers
    /\ NoJob \notin Jobs
    /\ MaxAttempts \in Nat \ {0}
    /\ MaxReturns \in Nat
    /\ LeaseTicks \in Nat \ {0}

VARIABLES
    status,    \* jobs.status
    attempts,  \* jobs.attempts
    fence,     \* jobs.claim_fence
    holder,    \* jobs.lease_owner (with claim_token: see above)
    lease,     \* ticks until jobs.lease_expires_at; 0 = expired
    due,       \* jobs.run_at <= now()
    delivery,  \* job_delivery_attempts.outcome by (job, claim_fence)
    slot,      \* what each slot of the fleet is executing
    draining,  \* the AbortSignal each slot watches
    acted,     \* history: claims whose handler reached outside the database
    finished   \* history: claims whose handler returned normally

jobVars == <<status, attempts, fence, holder, lease, due, delivery>>
vars == <<status, attempts, fence, holder, lease, due, delivery,
          slot, draining, acted, finished>>

Terminal == {"completed", "dead_letter", "quarantined"}
Status == {"absent", "queued", "running"} \union Terminal

Uncharged == {"capacity_deferred", "drained_before_dispatch"}
Outcome == {"none", "running", "completed", "known_failed", "dead_lettered",
            "lease_lost", "reconciliation_required"} \union Uncharged

(* A physical delivery either consumes one of MaxAttempts or is returned    *)
(* uncharged; MaxReturns bounds the latter, hence the number of claims.     *)
Claims == 1..(MaxAttempts + MaxReturns)

Busy == {"claimed", "handling", "returned", "threw", "capacity"}
Idle == [pc |-> "idle", job |-> NoJob, fence |-> 0, attempts |-> 0, lost |-> FALSE]
Slot == {Idle} \union
        [pc : Busy, job : Jobs, fence : Claims, attempts : 1..MaxAttempts, lost : BOOLEAN]

TypeOK ==
    /\ status \in [Jobs -> Status]
    /\ attempts \in [Jobs -> 0..MaxAttempts]
    /\ fence \in [Jobs -> 0..(MaxAttempts + MaxReturns)]
    /\ holder \in [Jobs -> Workers \union {NoWorker}]
    /\ lease \in [Jobs -> 0..LeaseTicks]
    /\ due \in [Jobs -> BOOLEAN]
    /\ delivery \in [Jobs -> [Claims -> Outcome]]
    /\ slot \in [Workers -> Slot]
    /\ draining \in [Workers -> BOOLEAN]
    /\ acted \in [Jobs -> SUBSET Claims]
    /\ finished \in [Jobs -> SUBSET Claims]

(* Only rows written before the vertical was retired exist at the start     *)
(* (the ones still queued; one that was running or dead-lettered meets the  *)
(* same statement of the sweep).                                            *)
Init ==
    /\ status = [j \in Jobs |-> IF j \in Retired THEN "queued" ELSE "absent"]
    /\ attempts = [j \in Jobs |-> 0]
    /\ fence = [j \in Jobs |-> 0]
    /\ holder = [j \in Jobs |-> NoWorker]
    /\ lease = [j \in Jobs |-> 0]
    /\ due = [j \in Jobs |-> TRUE]
    /\ delivery = [j \in Jobs |-> [f \in Claims |-> "none"]]
    /\ slot = [w \in Workers |-> Idle]
    /\ draining = [w \in Workers |-> FALSE]
    /\ acted = [j \in Jobs |-> {}]
    /\ finished = [j \in Jobs |-> {}]

-----------------------------------------------------------------------------
(* The row conditions the SQL statements share.                             *)

(* Fault: the row condition without the status.                             *)
OwnsEndedClaim(w) == fence[slot[w].job] = slot[w].fence

(* status='running' AND lease_owner=$2 AND claim_token=$3 AND claim_fence=$4 *)
Owns(w) ==
    LET j == slot[w].job IN
    /\ status[j] = "running"
    /\ holder[j] = w
    /\ fence[j] = slot[w].fence

LeaseLive(j) == lease[j] > 0

(* Deliveries of j that were handed back without consuming an attempt.      *)
Returns(j) == {f \in Claims : delivery[j][f] \in Uncharged}

(* Deliveries of j that consumed an attempt, the open one included.         *)
Charged(j) == {f \in Claims : delivery[j][f] \notin Uncharged \union {"none"}}

(* The statement that ends a claim: the row leaves 'running', its lease is  *)
(* cleared, and the open delivery attempt gets its outcome.                 *)
EndClaim(j, next, outcome) ==
    /\ status' = [status EXCEPT ![j] = next]
    /\ holder' = [holder EXCEPT ![j] = NoWorker]
    /\ lease' = [lease EXCEPT ![j] = 0]
    /\ delivery' = [delivery EXCEPT ![j][fence[j]] = outcome]
    /\ UNCHANGED fence

LetGo(w) == slot' = [slot EXCEPT ![w] = Idle]
GoTo(w, pc) == slot' = [slot EXCEPT ![w].pc = pc]

-----------------------------------------------------------------------------
(* Producers, clock and process lifecycle.                                  *)

(* INSERT ... ON CONFLICT (idempotency_key) DO NOTHING: a second enqueue of *)
(* the same obligation changes nothing.                                     *)
Enqueue(j) ==
    /\ j \notin Retired
    /\ status[j] = "absent"
    /\ status' = [status EXCEPT ![j] = "queued"]
    /\ UNCHANGED <<attempts, fence, holder, lease, due, delivery,
                   slot, draining, acted, finished>>

LeaseTick(j) ==
    /\ status[j] = "running"
    /\ LeaseLive(j)
    /\ lease' = [lease EXCEPT ![j] = @ - 1]
    /\ UNCHANGED <<status, attempts, fence, holder, due, delivery,
                   slot, draining, acted, finished>>

BecomeDue(j) ==
    /\ status[j] = "queued"
    /\ ~due[j]
    /\ due' = [due EXCEPT ![j] = TRUE]
    /\ UNCHANGED <<status, attempts, fence, holder, lease, delivery,
                   slot, draining, acted, finished>>

(* SIGTERM aborts the signal of a slot at any point of its tick.  MaxReturns *)
(* bounds how often a claim not yet dispatched is caught by it.             *)
Drain(w) ==
    /\ ~draining[w]
    /\ slot[w].pc = "claimed" => Cardinality(Returns(slot[w].job)) < MaxReturns
    /\ draining' = [draining EXCEPT ![w] = TRUE]
    /\ UNCHANGED <<jobVars, slot, acted, finished>>

(* runSlot leaves its loop, the process exits and a fresh one replaces it.  *)
Restart(w) ==
    /\ draining[w]
    /\ slot[w].pc = "idle"
    /\ draining' = [draining EXCEPT ![w] = FALSE]
    /\ UNCHANGED <<jobVars, slot, acted, finished>>

(* The process dies, or a query of the tick fails with the outcome unknown  *)
(* and the error leaves tick(): the slot forgets its claim, the row does    *)
(* not.                                                                     *)
Crash(w) ==
    /\ slot[w].pc # "idle"
    /\ LetGo(w)
    /\ draining' = [draining EXCEPT ![w] = FALSE]
    /\ UNCHANGED <<jobVars, acted, finished>>

-----------------------------------------------------------------------------
(* One tick of a slot.                                                      *)

(* Fault: a row that was claimed before keeps its fence.                    *)
ClaimReusingFence(w, j) ==
    LET f == IF fence[j] = 0 THEN 1 ELSE fence[j] IN
    /\ slot[w].pc = "idle"
    /\ ~draining[w]
    /\ j \notin Retired
    /\ status[j] = "queued"
    /\ due[j]
    /\ status' = [status EXCEPT ![j] = "running"]
    /\ attempts' = [attempts EXCEPT ![j] = @ + 1]
    /\ fence' = [fence EXCEPT ![j] = f]
    /\ holder' = [holder EXCEPT ![j] = w]
    /\ lease' = [lease EXCEPT ![j] = LeaseTicks]
    /\ delivery' = [delivery EXCEPT ![j][f] = "running"]
    /\ slot' = [slot EXCEPT ![w] =
                  [pc |-> "claimed", job |-> j, fence |-> f,
                   attempts |-> attempts[j] + 1, lost |-> FALSE]]
    /\ UNCHANGED <<due, draining, acted, finished>>

(* The claim transaction: FOR UPDATE SKIP LOCKED selects any one due row, a *)
(* signal aborted before COMMIT rolls it back.  Which due row comes first   *)
(* (lane, priority, aging, tenant quota) is left open.                      *)
Claim(w, j) ==
    /\ slot[w].pc = "idle"
    /\ ~draining[w]
    /\ j \notin Retired
    /\ status[j] = "queued"
    /\ due[j]
    /\ status' = [status EXCEPT ![j] = "running"]
    /\ attempts' = [attempts EXCEPT ![j] = @ + 1]
    /\ fence' = [fence EXCEPT ![j] = @ + 1]
    /\ holder' = [holder EXCEPT ![j] = w]
    /\ lease' = [lease EXCEPT ![j] = LeaseTicks]
    /\ delivery' = [delivery EXCEPT ![j][fence[j] + 1] = "running"]
    /\ slot' = [slot EXCEPT ![w] =
                  [pc |-> "claimed", job |-> j, fence |-> fence[j] + 1,
                   attempts |-> attempts[j] + 1, lost |-> FALSE]]
    /\ UNCHANGED <<due, draining, acted, finished>>

(* Heartbeat: the renewal statement is fenced and requires a lease that has *)
(* not expired; anything else marks the claim lost and ends the renewals.   *)
Renew(w) ==
    LET j == slot[w].job IN
    /\ slot[w].pc \in {"claimed", "handling"}
    /\ ~slot[w].lost
    /\ IF Owns(w) /\ LeaseLive(j)
         THEN /\ lease' = [lease EXCEPT ![j] = LeaseTicks]
              /\ UNCHANGED slot
         ELSE /\ slot' = [slot EXCEPT ![w].lost = TRUE]
              /\ UNCHANGED lease
    /\ UNCHANGED <<status, attempts, fence, holder, due, delivery,
                   draining, acted, finished>>

(* The renewal query throws, or a registered claim callback (the workflow   *)
(* step heartbeat) answers false.                                           *)
RenewBreaks(w) ==
    /\ slot[w].pc \in {"claimed", "handling"}
    /\ ~slot[w].lost
    /\ slot' = [slot EXCEPT ![w].lost = TRUE]
    /\ UNCHANGED <<jobVars, draining, acted, finished>>

Dispatch(w) ==
    /\ slot[w].pc = "claimed"
    /\ ~draining[w]
    /\ GoTo(w, "handling")
    /\ UNCHANGED <<jobVars, draining, acted, finished>>

(* Fault: the refund of the attempt is not under the fence.                 *)
ReturnRefundingAlways(w) ==
    LET j == slot[w].job IN
    /\ slot[w].pc = "claimed"
    /\ draining[w]
    /\ IF Owns(w)
         THEN EndClaim(j, "queued", "drained_before_dispatch")
         ELSE UNCHANGED <<status, fence, holder, lease, delivery>>
    /\ attempts' = [attempts EXCEPT ![j] = @ - 1]
    /\ LetGo(w)
    /\ UNCHANGED <<due, draining, acted, finished>>

(* WorkerDrainBeforeDispatchError: hand the claim back with its attempt.    *)
(* The statement is fenced but does not look at the lease; when it matches  *)
(* no row the tick throws.  Either way the slot lets go.                    *)
ReturnUndispatched(w) ==
    LET j == slot[w].job IN
    /\ slot[w].pc = "claimed"
    /\ draining[w]
    /\ IF Owns(w)
         THEN /\ EndClaim(j, "queued", "drained_before_dispatch")
              /\ attempts' = [attempts EXCEPT ![j] = @ - 1]
         ELSE UNCHANGED <<status, attempts, fence, holder, lease, delivery>>
    /\ LetGo(w)
    /\ UNCHANGED <<due, draining, acted, finished>>

(* The handler reaches outside the database.  Nothing stops it when the     *)
(* lease is gone: heartbeat.lost is only read after the handler returned.   *)
Act(w) ==
    LET j == slot[w].job IN
    /\ slot[w].pc = "handling"
    /\ slot[w].fence \notin acted[j]
    /\ acted' = [acted EXCEPT ![j] = @ \union {slot[w].fence}]
    /\ UNCHANGED <<jobVars, slot, draining, finished>>

HandlerReturns(w) ==
    LET j == slot[w].job IN
    /\ slot[w].pc = "handling"
    /\ GoTo(w, "returned")
    /\ finished' = [finished EXCEPT ![j] = @ \union {slot[w].fence}]
    /\ UNCHANGED <<jobVars, draining, acted>>

HandlerThrows(w) ==
    /\ slot[w].pc = "handling"
    /\ GoTo(w, "threw")
    /\ UNCHANGED <<jobVars, draining, acted, finished>>

(* ComputeCapacityUnavailableError; MaxReturns bounds how often.            *)
HandlerMeetsCapacity(w) ==
    /\ slot[w].pc = "handling"
    /\ Cardinality(Returns(slot[w].job)) < MaxReturns
    /\ GoTo(w, "capacity")
    /\ UNCHANGED <<jobVars, draining, acted, finished>>

(* After the handler returned: a lost heartbeat or a completion statement   *)
(* that matches no row (fenced, lease not expired) throws into the catch    *)
(* block; so does an acknowledgement that is lost after the row changed.    *)
Complete(w) ==
    LET j == slot[w].job
        commits == ~slot[w].lost /\ Owns(w) /\ LeaseLive(j)
    IN
    /\ slot[w].pc = "returned"
    /\ \/ /\ commits
          /\ EndClaim(j, "completed", "completed")
          /\ \/ LetGo(w)
             \/ GoTo(w, "threw")
       \/ /\ ~commits
          /\ GoTo(w, "threw")
          /\ UNCHANGED <<status, fence, holder, lease, delivery>>
    /\ UNCHANGED <<attempts, due, draining, acted, finished>>

(* The disposition of a delivery that failed: replayable work is queued     *)
(* again or dead-lettered when its attempts are used up, everything else is *)
(* quarantined.  `exhausted` uses the attempt number read at claim time.    *)
FailedStatus(j, exhausted) ==
    IF j \notin Safe THEN "quarantined"
    ELSE IF exhausted THEN "dead_letter" ELSE "queued"
FailedOutcome(j, exhausted) ==
    IF j \notin Safe THEN "reconciliation_required"
    ELSE IF exhausted THEN "dead_lettered" ELSE "known_failed"

(* The failure statement of the catch block: fenced, no condition on the    *)
(* lease, so an owner whose lease ran out may still settle until the        *)
(* recovery sweep or a later claim has taken the row from it.               *)
SettleFailure(w) ==
    LET j == slot[w].job
        exhausted == slot[w].attempts >= MaxAttempts
    IN
    /\ IF Owns(w)
         THEN /\ EndClaim(j, FailedStatus(j, exhausted), FailedOutcome(j, exhausted))
              /\ due' = [due EXCEPT ![j] = FALSE]
         ELSE UNCHANGED <<status, fence, holder, lease, delivery, due>>
    /\ LetGo(w)
    /\ UNCHANGED <<attempts, draining, acted, finished>>

Fail(w) ==
    /\ slot[w].pc = "threw"
    /\ SettleFailure(w)

(* Fault: the proof of "nothing dispatched" is not asked for.               *)
DeferUnproven(w) ==
    LET j == slot[w].job IN
    /\ slot[w].pc = "capacity"
    /\ j \in Safe \union Provable
    /\ IF Owns(w)
         THEN /\ EndClaim(j, "queued", "capacity_deferred")
              /\ attempts' = [attempts EXCEPT ![j] = @ - 1]
              /\ due' = [due EXCEPT ![j] = FALSE]
         ELSE UNCHANGED <<status, attempts, fence, holder, lease, delivery, due>>
    /\ LetGo(w)
    /\ UNCHANGED <<draining, acted, finished>>

(* Capacity contention: replayable work, or a reconcilable job whose        *)
(* durable rows prove that this delivery dispatched nothing, is handed back *)
(* with its attempt.                                                        *)
Defer(w) ==
    LET j == slot[w].job IN
    /\ slot[w].pc = "capacity"
    /\ \/ j \in Safe
       \/ j \in Provable /\ slot[w].fence \notin acted[j]
    /\ IF Owns(w)
         THEN /\ EndClaim(j, "queued", "capacity_deferred")
              /\ attempts' = [attempts EXCEPT ![j] = @ - 1]
              /\ due' = [due EXCEPT ![j] = FALSE]
         ELSE UNCHANGED <<status, attempts, fence, holder, lease, delivery, due>>
    /\ LetGo(w)
    /\ UNCHANGED <<draining, acted, finished>>

(* The proof is not there, or reading it fails (.catch(() => false)).       *)
DeferRefused(w) ==
    /\ slot[w].pc = "capacity"
    /\ slot[w].job \notin Safe
    /\ SettleFailure(w)

-----------------------------------------------------------------------------
(* The recovery sweep of the elected leader: one transaction over any batch *)
(* (LIMIT 100, SKIP LOCKED) of retired rows and of expired running rows.    *)

RetiredOpen == {j \in Retired : status[j] \in {"queued", "running", "dead_letter"}}
ExpiredOrLive == {j \in Jobs : status[j] = "running"}  \* fault: lease not looked at
NoneExpired == {}                                      \* fault: sweep finds nothing
Expired == {j \in Jobs : status[j] = "running" /\ ~LeaseLive(j)}

(* Fault: recovery never exhausts attempts.                                 *)
RecoveredUnbounded(j) == FailedStatus(j, FALSE)

RecoveredStatus(j) == FailedStatus(j, attempts[j] >= MaxAttempts)

(* Fault: the sweep does not close the deliveries it takes away.            *)
RecoverLeavingLedger(S) ==
    /\ S # {}
    /\ S \subseteq RetiredOpen \union Expired
    /\ status' = [j \in Jobs |-> IF j \in S THEN RecoveredStatus(j) ELSE status[j]]
    /\ holder' = [j \in Jobs |-> IF j \in S THEN NoWorker ELSE holder[j]]
    /\ lease' = [j \in Jobs |-> IF j \in S THEN 0 ELSE lease[j]]
    /\ due' = [j \in Jobs |-> j \in Immediate \/ (due[j] /\ j \notin S)]
    /\ UNCHANGED <<attempts, fence, delivery, slot, draining, acted, finished>>

RecoverExpiredRunningJobs(S) ==
    /\ S # {}
    /\ S \subseteq RetiredOpen \union Expired
    /\ status' = [j \in Jobs |-> IF j \in S THEN RecoveredStatus(j) ELSE status[j]]
    /\ holder' = [j \in Jobs |-> IF j \in S THEN NoWorker ELSE holder[j]]
    /\ lease' = [j \in Jobs |-> IF j \in S THEN 0 ELSE lease[j]]
    /\ due' = [j \in Jobs |-> IF j \in S /\ status[j] = "running" /\ attempts[j] < MaxAttempts
                                THEN j \in Immediate ELSE due[j]]
    /\ delivery' = [j \in Jobs |-> [f \in Claims |->
                      IF j \in S /\ status[j] = "running" /\ f = fence[j]
                        THEN IF j \in Safe THEN "lease_lost" ELSE "reconciliation_required"
                        ELSE delivery[j][f]]]
    /\ UNCHANGED <<attempts, fence, slot, draining, acted, finished>>

Recover == \E S \in SUBSET Jobs : RecoverExpiredRunningJobs(S)

-----------------------------------------------------------------------------
SlotStep(w) ==
    \/ Renew(w)
    \/ RenewBreaks(w)
    \/ Dispatch(w)
    \/ ReturnUndispatched(w)
    \/ Act(w)
    \/ HandlerReturns(w)
    \/ HandlerThrows(w)
    \/ HandlerMeetsCapacity(w)
    \/ Complete(w)
    \/ Fail(w)
    \/ Defer(w)
    \/ DeferRefused(w)

Next ==
    \/ \E j \in Jobs : Enqueue(j) \/ LeaseTick(j) \/ BecomeDue(j)
    \/ \E w \in Workers : Drain(w) \/ Restart(w) \/ Crash(w)
    \/ \E w \in Workers, j \in Jobs : Claim(w, j)
    \/ \E w \in Workers : SlotStep(w)
    \/ Recover

Spec == Init /\ [][Next]_vars

(***************************************************************************)
(* Fairness.  Time passes.  The sweep runs every 30 s under an elected     *)
(* leader.  A slot goes on with its tick, and a handler is taken to return *)
(* or throw.  A due row is claimed if slots come by for it again and again *)
(* (they may be drained and replaced in between).  Nothing is assumed of   *)
(* producers, renewals, drains, crashes or outside effects.                *)
(***************************************************************************)
Progress(w) ==
    \/ Dispatch(w) \/ ReturnUndispatched(w)
    \/ HandlerReturns(w) \/ HandlerThrows(w)
    \/ Complete(w) \/ Fail(w) \/ Defer(w) \/ DeferRefused(w)

Fairness ==
    /\ \A j \in Jobs :
         /\ WF_vars(LeaseTick(j))
         /\ WF_vars(BecomeDue(j))
         /\ SF_vars(\E w \in Workers : Claim(w, j))
         /\ WF_vars(\E S \in SUBSET Jobs : j \in S /\ RecoverExpiredRunningJobs(S))
    /\ \A w \in Workers : WF_vars(Restart(w)) /\ WF_vars(Progress(w))

FairSpec == Spec /\ Fairness

-----------------------------------------------------------------------------
(* Safety.                                                                  *)

(* The delivery ledger and the job rows never drift apart: a delivery is    *)
(* open exactly while its job is running under that fence, every fence ever *)
(* issued has its audit row and no other fence has one.  (Settlement, drain,*)
(* deferral and recovery each rewrite both tables in one statement.)        *)
LedgerMatchesJobs ==
    \A j \in Jobs, f \in Claims :
        /\ delivery[j][f] = "running" <=> status[j] = "running" /\ f = fence[j]
        /\ delivery[j][f] = "none" <=> f > fence[j]

(* Attempts count what the ledger says was really tried: a delivery handed  *)
(* back by a drain or by capacity contention is refunded exactly once, and  *)
(* no stale worker can refund (or charge) the attempt of a successor.       *)
AttemptsMatchLedger ==
    \A j \in Jobs :
        attempts[j] = Cardinality(Charged(j))

(* Work that may not be replayed reaches outside at most once, whatever     *)
(* crashes, drains, lease losses and late settlements happen to it.         *)
UnsafeActsOnce ==
    \A j \in Jobs \ Safe : \A f, g \in acted[j] : f = g

(* Completed means that the handler of the last claim returned normally: a  *)
(* superseded delivery never completes the job for its successor.           *)
CompletionIsEarned ==
    \A j \in Jobs : status[j] = "completed" => fence[j] \in finished[j]

(* Where a job ends up follows its retry contract: only replayable work is  *)
(* dead-lettered and only after all its attempts, only other work is        *)
(* quarantined, and a queued job always has an attempt left.                *)
DispositionFollowsContract ==
    \A j \in Jobs :
        /\ status[j] \in {"absent", "queued"} => attempts[j] < MaxAttempts
        /\ status[j] = "dead_letter" => j \in Safe /\ attempts[j] = MaxAttempts
        /\ status[j] = "quarantined" => j \notin Safe

(* Two slots never execute under the same claim.                            *)
ClaimsAreExclusive ==
    \A v, w \in Workers :
        slot[v].pc # "idle" /\ slot[v].job = slot[w].job /\ slot[v].fence = slot[w].fence
            => v = w

-----------------------------------------------------------------------------
(* What has to be known besides, for the invariants above to be inductive.  *)

HolderIffRunning ==
    \A j \in Jobs : status[j] = "running" <=> holder[j] # NoWorker

(* A slot is never ahead of the row it was claimed from; if the row is      *)
(* still on the slot's claim, the slot holds it and counted its attempts.   *)
SlotsFollowRows ==
    \A w \in Workers : LET j == slot[w].job IN
        slot[w].pc # "idle" =>
            /\ slot[w].fence <= fence[j]
            /\ status[j] = "running" /\ slot[w].fence = fence[j]
                 => holder[j] = w /\ slot[w].attempts = attempts[j]
            /\ slot[w].pc = "returned" => slot[w].fence \in finished[j]
            /\ slot[w].pc = "claimed" => slot[w].fence \notin acted[j]

ActedIsPast == \A j \in Jobs : \A f \in acted[j] : f <= fence[j]

(* While a slot works for a claim on unsafe work, or once that claim has    *)
(* reached outside, no later claim on it exists or can come to exist.       *)
UnsafeIsConfined ==
    /\ \A j \in Jobs \ Safe : \A f \in acted[j] :
         f = fence[j] /\ status[j] \in {"running", "completed", "quarantined"}
    /\ \A w \in Workers : LET j == slot[w].job IN
         slot[w].pc # "idle" /\ j \notin Safe =>
             slot[w].fence = fence[j] /\ status[j] \in {"running", "completed", "quarantined"}

ReturnsAreBounded ==
    /\ \A j \in Jobs : Cardinality(Returns(j)) <= MaxReturns
    /\ \A w \in Workers :
         /\ slot[w].pc = "capacity" \/ (slot[w].pc = "claimed" /\ draining[w])
         /\ Owns(w)
         => Cardinality(Returns(slot[w].job)) < MaxReturns

RunningIsCharged == \A j \in Jobs : status[j] = "running" => attempts[j] > 0

IInv ==
    /\ TypeOK
    /\ LedgerMatchesJobs
    /\ AttemptsMatchLedger
    /\ CompletionIsEarned
    /\ DispositionFollowsContract
    /\ ClaimsAreExclusive
    /\ HolderIffRunning
    /\ SlotsFollowRows
    /\ ActedIsPast
    /\ UnsafeIsConfined
    /\ ReturnsAreBounded
    /\ RunningIsCharged

-----------------------------------------------------------------------------
(* Action properties.                                                       *)

(* An owner with a live lease is never dispossessed: its claim ends only in *)
(* a step of the slot that holds it.                                        *)
LiveOwnerKeepsClaim ==
    [][\A j \in Jobs :
         status[j] = "running" /\ LeaseLive(j)
             /\ (status'[j] # "running" \/ fence'[j] # fence[j])
         => slot'[holder[j]] # slot[holder[j]]]_vars

(* A settled job stays settled, and a verdict in the ledger is never        *)
(* rewritten: whatever a stale worker still sends is without effect.        *)
VerdictsAreFinal ==
    [][\A j \in Jobs :
         /\ status[j] \in Terminal => status'[j] = status[j]
         /\ \A f \in Claims :
              delivery[j][f] \notin {"none", "running"} => delivery'[j][f] = delivery[j][f]]_vars

(* The queue implements JobObligation: whatever slots, leases, drains and   *)
(* crashes do, a job only ever moves as that module allows.  Several jobs   *)
(* move in one sweep, late deliveries reach outside only for replayable     *)
(* work, and a turn is refunded or concluded only while it is open.         *)
Phase(j) ==
    CASE status[j] = "queued" -> "waiting"
      [] status[j] = "running" -> "open"
      [] OTHER -> status[j]

Obligation(j) ==
    [phase |-> Phase(j), turn |-> fence[j], tried |-> attempts[j],
     acts |-> acted[j], done |-> finished[j]]

Promise == INSTANCE JobObligation WITH ob <- [j \in Jobs |-> Obligation(j)]

KeepsPromise == Promise!Spec

(* Every accepted obligation is eventually completed, dead-lettered or      *)
(* quarantined: a crash, a lost lease or a drain never strands it.          *)
EveryJobSettles ==
    \A j \in Jobs : status[j] = "queued" ~> status[j] \in Terminal

=============================================================================
