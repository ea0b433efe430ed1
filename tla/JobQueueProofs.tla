--------------------------- MODULE JobQueueProofs ---------------------------
(***************************************************************************)
(* Proofs, for every value of the constants of JobQueue, of its type       *)
(* invariant and of its safety invariants, from one inductive invariant    *)
(* (IInv), of its action properties, and of the refinement: JobQueue       *)
(* implements JobObligation, as its initial states map to initial states   *)
(* and each of its steps maps, for every job, to a step or to none.        *)
(***************************************************************************)
EXTENDS JobQueue, FiniteSetTheorems, TLAPS

-----------------------------------------------------------------------------
(* Counting in the delivery ledger.                                         *)

(* The sets of deliveries that the accounting compares are finite, and      *)
(* their sizes are natural numbers.                                         *)
LEMMA LedgerFinite ==
    ASSUME NEW j \in Jobs
    PROVE  /\ IsFiniteSet(Charged(j)) /\ Cardinality(Charged(j)) \in Nat
           /\ IsFiniteSet(Returns(j)) /\ Cardinality(Returns(j)) \in Nat
<1>1. IsFiniteSet(Claims)
  BY ConstantsAssumption, FS_Interval DEF Claims
<1>2. Charged(j) \in SUBSET Claims /\ Returns(j) \in SUBSET Claims
  BY DEF Charged, Returns
<1> QED
  BY <1>1, <1>2, FS_Subset, FS_CardinalityType

(* Every fence ever issued was either charged to the attempt budget or      *)
(* handed back.                                                             *)
LEMMA FencesAreAccounted ==
    ASSUME TypeOK, LedgerMatchesJobs, AttemptsMatchLedger, NEW j \in Jobs
    PROVE  fence[j] = attempts[j] + Cardinality(Returns(j))
<1> DEFINE C == Charged(j)
           R == Returns(j)
<1>1. fence[j] \in 0..(MaxAttempts + MaxReturns) /\ delivery[j] \in [Claims -> Outcome]
  BY DEF TypeOK
<1>2. C \union R = 1..fence[j]
  <2>1. ASSUME NEW f \in Claims PROVE f \in C \union R <=> f <= fence[j]
    BY <2>1, <1>1, ConstantsAssumption
       DEF LedgerMatchesJobs, Charged, Returns, Uncharged, Claims
  <2> QED
    BY <2>1, <1>1, ConstantsAssumption DEF Charged, Returns, Claims
<1>3. C \intersect R = {}
  BY DEF Charged, Returns
<1>4. Cardinality(1..fence[j]) = fence[j]
  BY <1>1, ConstantsAssumption, FS_Interval
<1>5. Cardinality(C \union R) = Cardinality(C) + Cardinality(R)
  <2>1. Cardinality(C \union R) = Cardinality(C) + Cardinality(R) - Cardinality(C \intersect R)
    BY LedgerFinite, FS_Union
  <2>2. Cardinality(C \intersect R) = 0
    BY <1>3, FS_EmptySet
  <2> QED
    BY <2>1, <2>2, LedgerFinite
<1> QED
  BY <1>2, <1>4, <1>5 DEF AttemptsMatchLedger

(* Rewriting one entry of the ledger with an outcome that is still charged  *)
(* leaves both counts as they were.                                         *)
LEMMA RewriteCharged ==
    ASSUME TypeOK, TypeOK', NEW j \in Jobs, NEW f \in Claims,
           \A g \in Claims : g # f => delivery'[j][g] = delivery[j][g],
           delivery[j][f] = "running",
           delivery'[j][f] \notin Uncharged \union {"none"}
    PROVE  Charged(j)' = Charged(j) /\ Returns(j)' = Returns(j)
<1>1. "running" \notin Uncharged \union {"none"}
  BY DEF Uncharged
<1> QED
  BY <1>1 DEF Charged, Returns

(* Handing a delivery back moves it from one count to the other.            *)
LEMMA RewriteReturned ==
    ASSUME TypeOK, TypeOK', NEW j \in Jobs, NEW f \in Claims,
           \A g \in Claims : g # f => delivery'[j][g] = delivery[j][g],
           delivery[j][f] = "running",
           delivery'[j][f] \in Uncharged
    PROVE  /\ Cardinality(Charged(j)') = Cardinality(Charged(j)) - 1
           /\ Cardinality(Returns(j)') = Cardinality(Returns(j)) + 1
<1>1. "running" \notin Uncharged \union {"none"}
  BY DEF Uncharged
<1>2. Charged(j)' = Charged(j) \ {f} /\ f \in Charged(j)
  BY <1>1 DEF Charged
<1>3. Returns(j)' = Returns(j) \union {f} /\ f \notin Returns(j)
  BY <1>1 DEF Returns
<1>4. Cardinality(Charged(j) \ {f}) = Cardinality(Charged(j)) - 1
  BY <1>2, LedgerFinite, FS_RemoveElement
<1>5. Cardinality(Returns(j) \union {f}) = Cardinality(Returns(j)) + 1
  BY <1>3, LedgerFinite, FS_AddElement
<1> QED
  BY <1>2, <1>3, <1>4, <1>5

(* Opening a delivery charges one attempt.                                  *)
LEMMA OpenCharges ==
    ASSUME TypeOK, NEW j \in Jobs, NEW f \in Claims,
           \A g \in Claims : g # f => delivery'[j][g] = delivery[j][g],
           delivery[j][f] = "none",
           delivery'[j][f] = "running"
    PROVE  /\ Cardinality(Charged(j)') = Cardinality(Charged(j)) + 1
           /\ Returns(j)' = Returns(j)
<1>1. "running" \notin Uncharged \union {"none"} /\ "none" \notin Uncharged
  BY DEF Uncharged
<1>2. Charged(j)' = Charged(j) \union {f} /\ f \notin Charged(j)
  BY <1>1 DEF Charged
<1>3. Returns(j)' = Returns(j)
  BY <1>1 DEF Returns
<1> QED
  BY <1>2, <1>3, LedgerFinite, FS_AddElement

(* A job whose ledger does not change keeps its counts.                     *)
LEMMA SameLedger ==
    ASSUME NEW j \in Jobs, delivery'[j] = delivery[j]
    PROVE  Charged(j)' = Charged(j) /\ Returns(j)' = Returns(j)
  BY DEF Charged, Returns

-----------------------------------------------------------------------------
(* Steps that leave both tables alone.                                      *)

(* Such a step, by one slot that keeps its claim or forgets it, preserves   *)
(* the inductive invariant if the slot's new state is itself in order.      *)
LEMMA SlotOnly ==
    ASSUME IInv, UNCHANGED jobVars, NEW w \in Workers, NEW s \in Slot,
           slot' = [slot EXCEPT ![w] = s],
           s.pc # "idle" => /\ slot[w].pc # "idle" /\ s.job = slot[w].job
                            /\ s.fence = slot[w].fence /\ s.attempts = slot[w].attempts,
           s.pc = "claimed" => slot[w].pc = "claimed",
           s.pc = "returned" => s.fence \in finished'[s.job],
           /\ s.pc = "capacity" \/ (s.pc = "claimed" /\ draining'[w])
           /\ Owns(w)
           => Cardinality(Returns(s.job)) < MaxReturns,
           draining' \in [Workers -> BOOLEAN],
           \A v \in Workers : v # w => draining'[v] = draining[v],
           acted' = acted,
           finished' \in [Jobs -> SUBSET Claims],
           \A j \in Jobs : finished[j] \subseteq finished'[j]
    PROVE  IInv'
<1> USE DEF jobVars
<1>0. /\ slot \in [Workers -> Slot] /\ acted \in [Jobs -> SUBSET Claims]
      /\ slot'[w] = s /\ \A v \in Workers : v # w => slot'[v] = slot[v]
  BY DEF IInv, TypeOK
<1>1. TypeOK'
  BY DEF IInv, TypeOK
<1>2. LedgerMatchesJobs' /\ CompletionIsEarned' /\ DispositionFollowsContract'
      /\ HolderIffRunning' /\ RunningIsCharged'
  BY DEF IInv, LedgerMatchesJobs, CompletionIsEarned, DispositionFollowsContract,
         HolderIffRunning, RunningIsCharged
<1>3. \A j \in Jobs : Charged(j)' = Charged(j) /\ Returns(j)' = Returns(j)
  BY SameLedger
<1>4. AttemptsMatchLedger'
  BY <1>3 DEF IInv, AttemptsMatchLedger
<1>5. ClaimsAreExclusive'
  <2> SUFFICES ASSUME NEW u \in Workers, NEW v \in Workers, slot'[u].pc # "idle",
                      slot'[u].job = slot'[v].job, slot'[u].fence = slot'[v].fence
               PROVE  u = v
    BY DEF ClaimsAreExclusive
  <2>1. slot[u].pc # "idle" /\ slot'[u].job = slot[u].job /\ slot'[u].fence = slot[u].fence
    BY <1>0
  <2>2. slot[u].job \in Jobs
    BY <2>1, <1>0 DEF Slot, Idle
  <2>3. slot'[v].pc # "idle"
    BY <1>1, <2>1, <2>2, ConstantsAssumption DEF TypeOK, Slot, Idle, Busy
  <2>4. slot'[v].job = slot[v].job /\ slot'[v].fence = slot[v].fence
    BY <2>3, <1>0
  <2> QED
    BY <2>1, <2>4 DEF IInv, ClaimsAreExclusive
<1>6. SlotsFollowRows'
  BY <1>0 DEF IInv, SlotsFollowRows, Slot, Idle
<1>7. ActedIsPast' /\ UnsafeIsConfined'
  BY <1>0 DEF IInv, ActedIsPast, UnsafeIsConfined, Slot, Idle
<1>8. ReturnsAreBounded'
  <2>1. \A j \in Jobs : Cardinality(Returns(j)') <= MaxReturns
    BY <1>3 DEF IInv, ReturnsAreBounded
  <2>2. ASSUME NEW v \in Workers,
               slot'[v].pc = "capacity" \/ (slot'[v].pc = "claimed" /\ draining'[v]),
               Owns(v)'
        PROVE  Cardinality(Returns(slot[v].job)') < MaxReturns /\ slot'[v].job = slot[v].job
    <3>1. slot'[v].pc # "idle" /\ slot'[v] \in Slot
      BY <2>2, <1>1 DEF TypeOK
    <3>2. slot[v].pc # "idle" /\ slot'[v].job = slot[v].job /\ slot'[v].fence = slot[v].fence
      BY <3>1, <1>0
    <3>3. slot[v].job \in Jobs
      BY <3>2, <1>0 DEF Slot, Idle
    <3>4. Cardinality(Returns(slot[v].job)) < MaxReturns
      <4>0. Owns(v)
        BY <2>2, <3>2 DEF Owns
      <4>1. CASE v = w
        BY <4>0, <4>1, <2>2, <1>0, <3>2
      <4>2. CASE v # w
        BY <4>0, <4>2, <2>2, <1>0 DEF IInv, ReturnsAreBounded
      <4> QED
        BY <4>1, <4>2
    <3> QED
      BY <3>2, <3>3, <3>4, <1>3
  <2> QED
    BY <2>1, <2>2 DEF ReturnsAreBounded
<1> QED
  BY <1>1, <1>2, <1>4, <1>5, <1>6, <1>7, <1>8 DEF IInv

(* A slot that moves on, or loses its heartbeat, is still on its claim.     *)
LEMMA SlotUpdates ==
    ASSUME NEW r \in Slot, r.pc # "idle"
    PROVE  /\ r.job \in Jobs /\ r.fence \in Claims /\ r.attempts \in 1..MaxAttempts
           /\ LET s == [r EXCEPT !.lost = TRUE] IN
                /\ s \in Slot /\ s.pc = r.pc /\ s.job = r.job
                /\ s.fence = r.fence /\ s.attempts = r.attempts
           /\ \A pc \in Busy : LET s == [r EXCEPT !.pc = pc] IN
                /\ s \in Slot /\ s.pc = pc /\ s.job = r.job
                /\ s.fence = r.fence /\ s.attempts = r.attempts
<1>1. r \in [pc : Busy, job : Jobs, fence : Claims, attempts : 1..MaxAttempts, lost : BOOLEAN]
  BY DEF Slot, Idle
<1> QED
  BY <1>1 DEF Slot

LEMMA MovePc ==
    ASSUME IInv, UNCHANGED <<jobVars, draining, acted>>, NEW w \in Workers,
           slot[w].pc # "idle", NEW pc \in Busy \ {"claimed"},
           slot' = [slot EXCEPT ![w].pc = pc],
           pc = "returned" => slot[w].fence \in finished'[slot[w].job],
           pc = "capacity" => Cardinality(Returns(slot[w].job)) < MaxReturns,
           finished' \in [Jobs -> SUBSET Claims],
           \A j \in Jobs : finished[j] \subseteq finished'[j]
    PROVE  IInv'
<1> DEFINE s == [slot[w] EXCEPT !.pc = pc]
<1>1. slot \in [Workers -> Slot] /\ draining \in [Workers -> BOOLEAN]
  BY DEF IInv, TypeOK
<1>2. /\ s \in Slot /\ s.pc = pc /\ s.job = slot[w].job
      /\ s.fence = slot[w].fence /\ s.attempts = slot[w].attempts
  BY <1>1, SlotUpdates
<1>3. slot' = [slot EXCEPT ![w] = s]
  BY <1>1
<1> HIDE DEF s
<1> QED
  BY <1>1, <1>2, <1>3, SlotOnly DEF jobVars

(* The steps of this kind.                                                  *)
LEMMA SlotActions ==
    ASSUME IInv, NEW w \in Workers,
           \/ Drain(w) \/ Restart(w) \/ Crash(w) \/ RenewBreaks(w) \/ Dispatch(w)
           \/ HandlerReturns(w) \/ HandlerThrows(w) \/ HandlerMeetsCapacity(w)
    PROVE  IInv'
<1> USE DEF jobVars
<1>0. /\ slot \in [Workers -> Slot] /\ draining \in [Workers -> BOOLEAN]
      /\ finished \in [Jobs -> SUBSET Claims] /\ slot[w] \in Slot
  BY DEF IInv, TypeOK
<1>2. CASE Drain(w)
  <2>1. slot' = [slot EXCEPT ![w] = slot[w]]
    BY <1>2, <1>0 DEF Drain
  <2>2. slot[w].pc = "returned" => slot[w].fence \in finished'[slot[w].job]
    BY <1>2 DEF Drain, IInv, SlotsFollowRows
  <2>3. /\ slot[w].pc = "capacity" \/ (slot[w].pc = "claimed" /\ draining'[w])
        /\ Owns(w)
        => Cardinality(Returns(slot[w].job)) < MaxReturns
    BY <1>2 DEF Drain, IInv, ReturnsAreBounded
  <2> QED
    BY <1>2, <1>0, <2>1, <2>2, <2>3, SlotOnly DEF Drain
<1>3. CASE Restart(w)
  <2>1. slot' = [slot EXCEPT ![w] = slot[w]]
    BY <1>3, <1>0 DEF Restart
  <2> QED
    BY <1>3, <1>0, <2>1, SlotOnly DEF Restart
<1>4. CASE Crash(w)
  <2>1. Idle \in Slot /\ Idle.pc = "idle"
    BY DEF Slot, Idle
  <2> QED
    BY <1>4, <1>0, <2>1, SlotOnly DEF Crash, LetGo
<1>5. CASE RenewBreaks(w)
  <2> DEFINE s == [slot[w] EXCEPT !.lost = TRUE]
  <2>1. slot' = [slot EXCEPT ![w] = s] /\ slot[w].pc \in {"claimed", "handling"}
    BY <1>5, <1>0 DEF RenewBreaks
  <2>2. /\ s \in Slot /\ s.pc = slot[w].pc /\ s.job = slot[w].job
        /\ s.fence = slot[w].fence /\ s.attempts = slot[w].attempts
    BY <1>0, <2>1, SlotUpdates
  <2>3. slot[w].pc = "claimed" /\ draining[w] /\ Owns(w) =>
            Cardinality(Returns(slot[w].job)) < MaxReturns
    BY DEF IInv, ReturnsAreBounded
  <2> HIDE DEF s
  <2> QED
    BY <1>5, <1>0, <2>1, <2>2, <2>3, SlotOnly DEF RenewBreaks
<1>6. CASE Dispatch(w)
  BY <1>6, <1>0, MovePc DEF Dispatch, GoTo, Busy
<1>7. CASE HandlerReturns(w)
  <2>1. slot[w].job \in Jobs /\ slot[w].fence \in Claims
    BY <1>7, <1>0, SlotUpdates DEF HandlerReturns
  <2> QED
    BY <1>7, <1>0, <2>1, MovePc DEF HandlerReturns, GoTo, Busy
<1>8. CASE HandlerThrows(w)
  BY <1>8, <1>0, MovePc DEF HandlerThrows, GoTo, Busy
<1>9. CASE HandlerMeetsCapacity(w)
  BY <1>9, <1>0, MovePc DEF HandlerMeetsCapacity, GoTo, Busy
<1> QED
  BY <1>2, <1>3, <1>4, <1>5, <1>6, <1>7, <1>8, <1>9

(* A handler reaching outside: no other slot can be on the same claim, and  *)
(* unsafe work is confined to the claim that acts.                          *)
LEMMA ActSound ==
    ASSUME IInv, NEW w \in Workers, Act(w)
    PROVE  IInv'
<1> DEFINE j == slot[w].job
           f == slot[w].fence
<1> USE DEF jobVars
<1>1. /\ slot \in [Workers -> Slot] /\ acted \in [Jobs -> SUBSET Claims]
      /\ j \in Jobs /\ f \in Claims /\ slot[w].pc = "handling"
  BY SlotUpdates DEF IInv, TypeOK, Act
<1>2. /\ acted'[j] = acted[j] \union {f}
      /\ \A k \in Jobs : k # j => acted'[k] = acted[k]
  BY <1>1 DEF Act
<1>3. TypeOK' /\ LedgerMatchesJobs' /\ CompletionIsEarned' /\ DispositionFollowsContract'
      /\ HolderIffRunning' /\ RunningIsCharged' /\ ClaimsAreExclusive'
  BY <1>1 DEF IInv, Act, TypeOK, LedgerMatchesJobs, CompletionIsEarned, ClaimsAreExclusive,
         DispositionFollowsContract, HolderIffRunning, RunningIsCharged
<1>4. AttemptsMatchLedger' /\ ReturnsAreBounded'
  <2>1. \A k \in Jobs : Charged(k)' = Charged(k) /\ Returns(k)' = Returns(k)
    BY SameLedger DEF Act
  <2>2. AttemptsMatchLedger'
    BY <2>1 DEF IInv, Act, AttemptsMatchLedger
  <2>3. ReturnsAreBounded'
    BY <2>1 DEF IInv, Act, ReturnsAreBounded, Owns, Returns
  <2> QED
    BY <2>2, <2>3
<1>5. SlotsFollowRows'
  <2>1. ASSUME NEW v \in Workers, slot[v].pc = "claimed"
        PROVE  slot[v].fence \notin acted'[slot[v].job]
    <3>1. v # w
      BY <1>1, <2>1
    <3>2. slot[v].job = j => slot[v].fence # f
      BY <3>1, <1>1 DEF IInv, ClaimsAreExclusive
    <3>3. slot[v].fence \notin acted[slot[v].job] /\ slot[v].job \in Jobs
      BY <2>1, <1>1, SlotUpdates DEF IInv, SlotsFollowRows
    <3> QED
      BY <3>2, <3>3, <1>2
  <2> QED
    BY <2>1 DEF IInv, Act, SlotsFollowRows
<1>6. ActedIsPast' /\ UnsafeIsConfined'
  <2>1. f <= fence[j] /\ (j \notin Safe => f = fence[j] /\ status[j] \in {"running", "completed", "quarantined"})
    BY <1>1 DEF IInv, SlotsFollowRows, UnsafeIsConfined
  <2>2. ActedIsPast'
    BY <2>1, <1>2 DEF IInv, Act, ActedIsPast
  <2>3. UnsafeIsConfined'
    BY <2>1, <1>2 DEF IInv, Act, UnsafeIsConfined
  <2> QED
    BY <2>2, <2>3
<1> QED
  BY <1>3, <1>4, <1>5, <1>6 DEF IInv

-----------------------------------------------------------------------------
(* Steps of the tables that leave the ledger alone.                         *)

(* Producers, the clock and lease renewal.                                  *)
LEMMA ClockSound ==
    ASSUME IInv, NEW j \in Jobs, Enqueue(j) \/ LeaseTick(j) \/ BecomeDue(j)
    PROVE  IInv'
<1>1. LeaseTick(j) => lease[j] - 1 \in 0..LeaseTicks
  BY ConstantsAssumption DEF IInv, TypeOK, LeaseTick, LeaseLive
<1>2. TypeOK'
  BY <1>1 DEF IInv, TypeOK, Enqueue, LeaseTick, BecomeDue, Status
<1>3. /\ UNCHANGED <<attempts, fence, holder, delivery, slot, draining, acted, finished>>
      /\ \A k \in Jobs : status'[k] # status[k] =>
           k = j /\ status[k] = "absent" /\ status'[k] = "queued"
  BY DEF IInv, TypeOK, Enqueue, LeaseTick, BecomeDue
<1>4. \A k \in Jobs : Charged(k)' = Charged(k) /\ Returns(k)' = Returns(k)
  BY <1>3, SameLedger
<1>5. \A w \in Workers : slot[w].pc # "idle" => slot[w].job \in Jobs
  BY SlotUpdates DEF IInv, TypeOK
<1>6. LedgerMatchesJobs' /\ CompletionIsEarned' /\ HolderIffRunning'
      /\ RunningIsCharged' /\ ClaimsAreExclusive' /\ ActedIsPast'
  BY <1>3 DEF IInv, LedgerMatchesJobs, CompletionIsEarned, ClaimsAreExclusive,
         HolderIffRunning, RunningIsCharged, ActedIsPast
<1>7. DispositionFollowsContract'
  BY <1>3 DEF IInv, DispositionFollowsContract
<1>8. AttemptsMatchLedger' /\ ReturnsAreBounded'
  <2>1. AttemptsMatchLedger'
    BY <1>3, <1>4 DEF IInv, AttemptsMatchLedger
  <2>2. ReturnsAreBounded'
    BY <1>3, <1>4, <1>5 DEF IInv, ReturnsAreBounded, Owns
  <2> QED
    BY <2>1, <2>2
<1>9. SlotsFollowRows' /\ UnsafeIsConfined'
  <2>1. SlotsFollowRows'
    BY <1>3, <1>5 DEF IInv, SlotsFollowRows
  <2>2. UnsafeIsConfined'
    BY <1>3, <1>5 DEF IInv, UnsafeIsConfined
  <2> QED
    BY <2>1, <2>2
<1> QED
  BY <1>2, <1>6, <1>7, <1>8, <1>9 DEF IInv

LEMMA RenewSound ==
    ASSUME IInv, NEW w \in Workers, Renew(w)
    PROVE  IInv'
<1> DEFINE j == slot[w].job
           s == [slot[w] EXCEPT !.lost = TRUE]
<1>1. /\ slot \in [Workers -> Slot] /\ slot[w] \in Slot /\ j \in Jobs
      /\ slot[w].pc \in {"claimed", "handling"}
  BY SlotUpdates DEF IInv, TypeOK, Renew
<1>2. CASE Owns(w) /\ LeaseLive(j)
  <2>1. UNCHANGED <<status, attempts, fence, holder, due, delivery, slot, draining, acted, finished>>
    BY <1>2 DEF Renew
  <2>2. TypeOK'
    BY <1>2, ConstantsAssumption DEF IInv, TypeOK, Renew
  <2>3. \A k \in Jobs : Charged(k)' = Charged(k) /\ Returns(k)' = Returns(k)
    BY <2>1, SameLedger
  <2>4. AttemptsMatchLedger' /\ ReturnsAreBounded'
    BY <2>1 DEF IInv, AttemptsMatchLedger, ReturnsAreBounded, Owns, Charged, Returns
  <2> QED
    BY <2>1, <2>2, <2>4
       DEF IInv, LedgerMatchesJobs, CompletionIsEarned, DispositionFollowsContract,
           ClaimsAreExclusive, HolderIffRunning, SlotsFollowRows, ActedIsPast,
           UnsafeIsConfined, RunningIsCharged
<1>3. CASE ~(Owns(w) /\ LeaseLive(j))
  <2>1. slot' = [slot EXCEPT ![w] = s] /\ UNCHANGED <<jobVars, draining, acted, finished>>
    BY <1>1, <1>3 DEF Renew, jobVars
  <2>2. /\ s \in Slot /\ s.pc = slot[w].pc /\ s.job = slot[w].job
        /\ s.fence = slot[w].fence /\ s.attempts = slot[w].attempts
    BY <1>1, SlotUpdates
  <2>3. slot[w].pc = "claimed" /\ draining[w] /\ Owns(w) =>
            Cardinality(Returns(slot[w].job)) < MaxReturns
    BY DEF IInv, ReturnsAreBounded
  <2>4. draining \in [Workers -> BOOLEAN] /\ finished \in [Jobs -> SUBSET Claims]
    BY DEF IInv, TypeOK
  <2> HIDE DEF s
  <2> QED
    BY <1>1, <2>1, <2>2, <2>3, <2>4, SlotOnly
<1> QED
  BY <1>2, <1>3

-----------------------------------------------------------------------------
(* Steps that open and close a delivery.                                    *)

LEMMA ClaimSound ==
    ASSUME IInv, NEW w \in Workers, NEW j \in Jobs, Claim(w, j)
    PROVE  IInv'
<1> DEFINE f == fence[j] + 1
<1>1. /\ status \in [Jobs -> Status] /\ attempts \in [Jobs -> 0..MaxAttempts]
      /\ fence \in [Jobs -> 0..(MaxAttempts + MaxReturns)]
      /\ holder \in [Jobs -> Workers \union {NoWorker}]
      /\ delivery \in [Jobs -> [Claims -> Outcome]] /\ slot \in [Workers -> Slot]
      /\ acted \in [Jobs -> SUBSET Claims]
  BY DEF IInv, TypeOK
<1>2. attempts[j] < MaxAttempts
  BY DEF IInv, DispositionFollowsContract, Claim
<1>3. f \in Claims
  <2>1. fence[j] = attempts[j] + Cardinality(Returns(j))
    BY FencesAreAccounted DEF IInv
  <2>2. Cardinality(Returns(j)) <= MaxReturns /\ Cardinality(Returns(j)) \in Nat
    BY LedgerFinite DEF IInv, ReturnsAreBounded
  <2> QED
    BY <1>1, <1>2, <2>1, <2>2, ConstantsAssumption DEF Claims
<1>4. /\ status'[j] = "running" /\ attempts'[j] = attempts[j] + 1 /\ fence'[j] = f
      /\ holder'[j] = w /\ delivery'[j][f] = "running"
      /\ \A g \in Claims : g # f => delivery'[j][g] = delivery[j][g]
      /\ \A k \in Jobs : k # j =>
           /\ status'[k] = status[k] /\ attempts'[k] = attempts[k] /\ fence'[k] = fence[k]
           /\ holder'[k] = holder[k] /\ delivery'[k] = delivery[k]
      /\ slot'[w] = [pc |-> "claimed", job |-> j, fence |-> f,
                     attempts |-> attempts[j] + 1, lost |-> FALSE]
      /\ \A v \in Workers : v # w => slot'[v] = slot[v]
      /\ UNCHANGED <<draining, acted, finished>>
  BY <1>1, <1>3 DEF Claim
<1>5. TypeOK'
  <2>1. slot'[w] \in Slot
    BY <1>1, <1>2, <1>3, <1>4, ConstantsAssumption DEF Slot, Busy
  <2>2. attempts' \in [Jobs -> 0..MaxAttempts] /\ lease' \in [Jobs -> 0..LeaseTicks]
        /\ fence' \in [Jobs -> 0..(MaxAttempts + MaxReturns)]
    BY <1>1, <1>2, <1>3, ConstantsAssumption DEF IInv, TypeOK, Claim, Claims
  <2>3. status' \in [Jobs -> Status] /\ holder' \in [Jobs -> Workers \union {NoWorker}]
        /\ delivery' \in [Jobs -> [Claims -> Outcome]]
    BY <1>1, <1>3 DEF Claim, Status, Outcome
  <2>4. slot' \in [Workers -> Slot]
    BY <1>1, <1>4, <2>1 DEF Claim
  <2> QED
    BY <2>2, <2>3, <2>4 DEF IInv, TypeOK, Claim
<1>6. LedgerMatchesJobs'
  <2>1. ASSUME NEW k \in Jobs, NEW g \in Claims
        PROVE  /\ delivery'[k][g] = "running" <=> status'[k] = "running" /\ g = fence'[k]
               /\ delivery'[k][g] = "none" <=> g > fence'[k]
    <3>1. CASE k # j
      BY <3>1, <1>4 DEF IInv, LedgerMatchesJobs
    <3>2. CASE k = j /\ g = f
      BY <3>2, <1>4, <1>3 DEF Claims
    <3>3. CASE k = j /\ g # f
      <4>1. status[j] = "queued"
        BY DEF Claim
      <4>2. g > fence[j] <=> g > f
        BY <1>1, <1>3, <3>3 DEF Claims
      <4> QED
        BY <3>3, <4>1, <4>2, <1>4 DEF IInv, LedgerMatchesJobs
    <3> QED
      BY <3>1, <3>2, <3>3
  <2> QED
    BY <2>1 DEF LedgerMatchesJobs
<1>7. AttemptsMatchLedger' /\ \A k \in Jobs : Returns(k)' = Returns(k)
  <2>1. delivery[j][f] = "none"
    BY <1>1, <1>3 DEF IInv, LedgerMatchesJobs, Claims
  <2>2. Cardinality(Charged(j)') = Cardinality(Charged(j)) + 1 /\ Returns(j)' = Returns(j)
    BY <1>3, <1>4, <2>1, OpenCharges DEF IInv
  <2>3. \A k \in Jobs : k # j => Charged(k)' = Charged(k) /\ Returns(k)' = Returns(k)
    BY <1>4, SameLedger
  <2> QED
    BY <1>4, <2>2, <2>3 DEF IInv, AttemptsMatchLedger
<1>8. CompletionIsEarned' /\ DispositionFollowsContract' /\ HolderIffRunning' /\ RunningIsCharged'
  <2>1. CompletionIsEarned'
    BY <1>4 DEF IInv, CompletionIsEarned
  <2>2. DispositionFollowsContract'
    BY <1>4 DEF IInv, DispositionFollowsContract
  <2>3. HolderIffRunning'
    BY <1>4, ConstantsAssumption DEF IInv, HolderIffRunning
  <2>4. RunningIsCharged'
    BY <1>1, <1>4 DEF IInv, RunningIsCharged
  <2> QED
    BY <2>1, <2>2, <2>3, <2>4
<1>9. \A v \in Workers : v # w /\ slot[v].pc # "idle" =>
          /\ slot[v].job \in Jobs /\ slot[v].fence \in Claims
          /\ slot[v].fence <= fence[slot[v].job]
          /\ slot[v].job = j => slot[v].fence # f
  <2>1. ASSUME NEW v \in Workers, slot[v].pc # "idle"
        PROVE  slot[v].job \in Jobs /\ slot[v].fence \in Claims /\ slot[v].fence <= fence[slot[v].job]
    BY <1>1, <2>1, SlotUpdates DEF IInv, SlotsFollowRows
  <2> QED
    BY <1>1, <2>1 DEF Claims
<1>10. ClaimsAreExclusive'
  <2> SUFFICES ASSUME NEW u \in Workers, NEW v \in Workers, slot'[u].pc # "idle",
                      slot'[u].job = slot'[v].job, slot'[u].fence = slot'[v].fence
               PROVE  u = v
    BY DEF ClaimsAreExclusive
  <2>1. slot'[u] \in Slot /\ slot'[v] \in Slot
    BY <1>5 DEF TypeOK
  <2>2. slot'[u].job \in Jobs
    BY <2>1, SlotUpdates
  <2>3. slot'[v].pc # "idle"
    BY <2>1, <2>2, ConstantsAssumption DEF Slot, Idle, Busy
  <2> QED
    BY <2>3, <1>4, <1>9 DEF IInv, ClaimsAreExclusive
<1>11. \A g \in acted[j] : g <= fence[j] /\ g # f
  BY <1>1 DEF IInv, ActedIsPast, Claims
<1>12. ActedIsPast'
  <2>1. ASSUME NEW k \in Jobs, NEW g \in acted[k] PROVE g <= fence'[k]
    <3>1. CASE k = j
      BY <3>1, <1>1, <1>4, <1>11 DEF Claims
    <3>2. CASE k # j
      BY <3>2, <1>4 DEF IInv, ActedIsPast
    <3> QED
      BY <3>1, <3>2
  <2> QED
    BY <2>1, <1>4 DEF ActedIsPast
<1>13. SlotsFollowRows'
  <2>1. ASSUME NEW v \in Workers, slot'[v].pc # "idle"
        PROVE  LET k == slot'[v].job IN
               /\ slot'[v].fence <= fence'[k]
               /\ status'[k] = "running" /\ slot'[v].fence = fence'[k]
                    => holder'[k] = v /\ slot'[v].attempts = attempts'[k]
               /\ slot'[v].pc = "returned" => slot'[v].fence \in finished'[k]
               /\ slot'[v].pc = "claimed" => slot'[v].fence \notin acted'[k]
    <3>1. CASE v = w
      BY <3>1, <1>1, <1>4, <1>11
    <3>2. CASE v # w /\ slot[v].job # j
      BY <2>1, <3>2, <1>4, <1>9 DEF IInv, SlotsFollowRows
    <3>3. CASE v # w /\ slot[v].job = j
      <4>1. slot[v].fence <= f /\ slot[v].fence # f
        BY <2>1, <3>3, <1>1, <1>4, <1>9 DEF Claims
      <4> QED
        BY <2>1, <3>3, <4>1, <1>4 DEF IInv, SlotsFollowRows
    <3> QED
      BY <3>1, <3>2, <3>3
  <2> QED
    BY <2>1 DEF SlotsFollowRows
<1>14. UnsafeIsConfined'
  <2>1. j \notin Safe => acted[j] = {}
    BY DEF IInv, UnsafeIsConfined, Claim
  <2>2. \A v \in Workers : v # w /\ slot[v].pc # "idle" /\ slot[v].job \notin Safe => slot[v].job # j
    BY DEF IInv, UnsafeIsConfined, Claim
  <2> QED
    BY <2>1, <2>2, <1>4, <1>9 DEF IInv, UnsafeIsConfined
<1>15. ReturnsAreBounded'
  <2>1. ASSUME NEW v \in Workers,
               slot'[v].pc = "capacity" \/ (slot'[v].pc = "claimed" /\ draining'[v]),
               Owns(v)'
        PROVE  Cardinality(Returns(slot[v].job)') < MaxReturns /\ slot'[v] = slot[v]
    <3>1. v # w
      BY <2>1, <1>4 DEF Claim
    <3>2. slot[v].pc # "idle" /\ slot'[v] = slot[v]
      BY <2>1, <3>1, <1>4
    <3>3. slot[v].job # j
      BY <2>1, <3>1, <3>2, <1>4, <1>9 DEF Owns
    <3>4. Owns(v) /\ slot[v].job \in Jobs
      BY <2>1, <3>2, <3>3, <1>4, <1>9, <3>1 DEF Owns
    <3>5. slot[v].pc = "capacity" \/ (slot[v].pc = "claimed" /\ draining[v])
      BY <2>1, <3>2, <1>4
    <3>6. Cardinality(Returns(slot[v].job)) < MaxReturns
      BY <3>4, <3>5 DEF IInv, ReturnsAreBounded
    <3> QED
      BY <3>2, <3>4, <3>6, <1>7
  <2>2. \A k \in Jobs : Cardinality(Returns(k)') <= MaxReturns
    BY <1>7 DEF IInv, ReturnsAreBounded
  <2> QED
    BY <2>1, <2>2 DEF ReturnsAreBounded
<1> QED
  BY <1>5, <1>6, <1>7, <1>8, <1>10, <1>12, <1>13, <1>14, <1>15 DEF IInv

(* The end of a claim by the slot that owns it: the obligations under which *)
(* a settlement, a return or a deferral preserves the invariant.            *)
LEMMA EndClaimSound ==
    ASSUME IInv, NEW w \in Workers, NEW next, NEW outcome, NEW s, NEW j,
           slot[w].pc # "idle", slot[w].job = j, Owns(w), EndClaim(j, next, outcome),
           slot' = [slot EXCEPT ![w] = s],
           next \in Terminal \union {"queued"},
           outcome \in Outcome \ {"none", "running"},
           s = Idle \/ (next # "queued" /\ s = [slot[w] EXCEPT !.pc = "threw"]),
           attempts' = IF outcome \in Uncharged
                         THEN [attempts EXCEPT ![j] = @ - 1] ELSE attempts,
           due' \in [Jobs -> BOOLEAN], UNCHANGED <<draining, acted, finished>>,
           next = "queued" => /\ attempts'[j] < MaxAttempts
                              /\ \/ j \in Safe
                                 \/ slot[w].fence \notin acted[j],
           next = "dead_letter" => /\ j \in Safe
                                   /\ attempts'[j] = MaxAttempts,
           next = "quarantined" => j \notin Safe,
           next = "completed" => slot[w].fence \in finished[j],
           outcome \in Uncharged => Cardinality(Returns(j)) < MaxReturns
    PROVE  IInv'
<1> DEFINE f == fence[j]
<1>1. /\ status \in [Jobs -> Status] /\ attempts \in [Jobs -> 0..MaxAttempts]
      /\ fence \in [Jobs -> 0..(MaxAttempts + MaxReturns)]
      /\ holder \in [Jobs -> Workers \union {NoWorker}]
      /\ lease \in [Jobs -> 0..LeaseTicks]
      /\ delivery \in [Jobs -> [Claims -> Outcome]] /\ slot \in [Workers -> Slot]
      /\ acted \in [Jobs -> SUBSET Claims]
  BY DEF IInv, TypeOK
<1>2. /\ j \in Jobs /\ f \in Claims /\ f = slot[w].fence
      /\ status[j] = "running" /\ holder[j] = w
  BY <1>1, SlotUpdates DEF Owns
<1>3. attempts[j] > 0 /\ attempts[j] - 1 \in 0..MaxAttempts
  BY <1>1, <1>2, ConstantsAssumption DEF IInv, RunningIsCharged
<1>4. /\ status'[j] = next /\ holder'[j] = NoWorker /\ delivery'[j][f] = outcome
      /\ next # "running" /\ next # "absent"
      /\ \A g \in Claims : g # f => delivery'[j][g] = delivery[j][g]
      /\ \A k \in Jobs : k # j =>
           /\ status'[k] = status[k] /\ attempts'[k] = attempts[k]
           /\ holder'[k] = holder[k] /\ delivery'[k] = delivery[k]
      /\ \A v \in Workers : v # w => slot'[v] = slot[v]
      /\ UNCHANGED <<fence, draining, acted, finished>>
  BY <1>1, <1>2 DEF EndClaim, Terminal
<1>5. /\ slot'[w] = s /\ s \in Slot
      /\ s.pc # "idle" => /\ s.pc = "threw" /\ s.job = j /\ s.fence = f
                          /\ s.attempts = slot[w].attempts /\ next # "queued"
  <2>1. CASE s = Idle
    BY <2>1, <1>1 DEF Idle, Slot
  <2>2. CASE next # "queued" /\ s = [slot[w] EXCEPT !.pc = "threw"]
    <3>1. slot[w] \in Slot /\ slot[w].pc # "idle" /\ "threw" \in Busy
      BY <1>1 DEF Busy
    <3>2. /\ s \in Slot /\ s.pc = "threw" /\ s.job = slot[w].job
          /\ s.fence = slot[w].fence /\ s.attempts = slot[w].attempts
      BY <2>2, <3>1, SlotUpdates
    <3> QED
      BY <2>2, <3>2, <1>1, <1>2
  <2> QED
    BY <2>1, <2>2
<1>6. TypeOK'
  <2>1. status' \in [Jobs -> Status]
    BY <1>1 DEF EndClaim, Status
  <2>2. /\ holder' \in [Jobs -> Workers \union {NoWorker}]
        /\ lease' \in [Jobs -> 0..LeaseTicks] /\ delivery' \in [Jobs -> [Claims -> Outcome]]
    BY <1>1, <1>2, ConstantsAssumption DEF EndClaim
  <2>3. attempts' \in [Jobs -> 0..MaxAttempts]
    BY <1>1, <1>3
  <2>4. slot' \in [Workers -> Slot]
    BY <1>1, <1>5
  <2> QED
    BY <2>1, <2>2, <2>3, <2>4, <1>4 DEF IInv, TypeOK
<1>7. LedgerMatchesJobs'
  <2>1. ASSUME NEW k \in Jobs, NEW g \in Claims
        PROVE  /\ delivery'[k][g] = "running" <=> status'[k] = "running" /\ g = fence'[k]
               /\ delivery'[k][g] = "none" <=> g > fence'[k]
    <3>1. CASE k # j
      BY <3>1, <1>4 DEF IInv, LedgerMatchesJobs
    <3>2. CASE k = j /\ g = f
      BY <3>2, <1>4, <1>2 DEF IInv, LedgerMatchesJobs
    <3>3. CASE k = j /\ g # f
      BY <3>3, <1>4, <1>2 DEF IInv, LedgerMatchesJobs
    <3> QED
      BY <3>1, <3>2, <3>3
  <2> QED
    BY <2>1 DEF LedgerMatchesJobs
<1>8. delivery[j][f] = "running"
  BY <1>2 DEF IInv, LedgerMatchesJobs
<1>9. AttemptsMatchLedger' /\ \A k \in Jobs : Cardinality(Returns(k)') <= MaxReturns
  <2>1. ASSUME NEW k \in Jobs, k # j
        PROVE  attempts'[k] = Cardinality(Charged(k)') /\ Cardinality(Returns(k)') <= MaxReturns
    BY <2>1, <1>4, SameLedger DEF IInv, AttemptsMatchLedger, ReturnsAreBounded
  <2>2. CASE outcome \in Uncharged
    <3>1. /\ Cardinality(Charged(j)') = Cardinality(Charged(j)) - 1
          /\ Cardinality(Returns(j)') = Cardinality(Returns(j)) + 1
      BY <2>2, <1>2, <1>4, <1>6, <1>8, RewriteReturned DEF IInv
    <3>2. attempts'[j] = attempts[j] - 1
      BY <2>2, <1>1, <1>2
    <3>3. attempts'[j] = Cardinality(Charged(j)')
      BY <3>1, <3>2, <1>2 DEF IInv, AttemptsMatchLedger
    <3>4. Cardinality(Returns(j)') <= MaxReturns
      BY <2>2, <3>1, <1>2, LedgerFinite, ConstantsAssumption
    <3> QED
      BY <3>3, <3>4, <2>1 DEF AttemptsMatchLedger
  <2>3. CASE outcome \notin Uncharged
    <3>1. Charged(j)' = Charged(j) /\ Returns(j)' = Returns(j)
      BY <2>3, <1>2, <1>4, <1>6, <1>8, RewriteCharged DEF IInv
    <3>2. attempts'[j] = Cardinality(Charged(j)') /\ Cardinality(Returns(j)') <= MaxReturns
      BY <2>3, <3>1, <1>2 DEF IInv, AttemptsMatchLedger, ReturnsAreBounded
    <3> QED
      BY <3>2, <2>1 DEF AttemptsMatchLedger
  <2> QED
    BY <2>2, <2>3
<1>10. CompletionIsEarned' /\ DispositionFollowsContract' /\ HolderIffRunning' /\ RunningIsCharged'
  <2>1. CompletionIsEarned'
    BY <1>2, <1>4 DEF IInv, CompletionIsEarned
  <2>2. DispositionFollowsContract'
    BY <1>4 DEF IInv, DispositionFollowsContract
  <2>3. HolderIffRunning'
    BY <1>4, ConstantsAssumption DEF IInv, HolderIffRunning
  <2>4. RunningIsCharged'
    BY <1>4 DEF IInv, RunningIsCharged
  <2> QED
    BY <2>1, <2>2, <2>3, <2>4
<1>11. ASSUME NEW v \in Workers, slot'[v].pc # "idle"
       PROVE  /\ slot[v].pc # "idle" /\ slot[v].job \in Jobs /\ slot'[v].job = slot[v].job
              /\ slot'[v].fence = slot[v].fence /\ slot'[v].attempts = slot[v].attempts
              /\ slot'[v].pc # "threw" => slot'[v].pc = slot[v].pc /\ v # w
              /\ v = w => next # "queued"
  BY <1>11, <1>1, <1>2, <1>4, <1>5, SlotUpdates
<1>12. ClaimsAreExclusive'
  <2> SUFFICES ASSUME NEW u \in Workers, NEW v \in Workers, slot'[u].pc # "idle",
                      slot'[u].job = slot'[v].job, slot'[u].fence = slot'[v].fence
               PROVE  u = v
    BY DEF ClaimsAreExclusive
  <2>1. slot'[v] \in Slot /\ slot'[v].job \in Jobs
    BY <1>6, <1>11 DEF TypeOK
  <2>2. slot'[v].pc # "idle"
    BY <2>1, ConstantsAssumption DEF Slot, Idle, Busy
  <2> QED
    BY <2>2, <1>11 DEF IInv, ClaimsAreExclusive
<1>13. SlotsFollowRows'
  <2>1. ASSUME NEW v \in Workers, slot'[v].pc # "idle"
        PROVE  LET k == slot'[v].job IN
               /\ slot'[v].fence <= fence'[k]
               /\ status'[k] = "running" /\ slot'[v].fence = fence'[k]
                    => holder'[k] = v /\ slot'[v].attempts = attempts'[k]
               /\ slot'[v].pc = "returned" => slot'[v].fence \in finished'[k]
               /\ slot'[v].pc = "claimed" => slot'[v].fence \notin acted'[k]
    <3>1. CASE slot[v].job = j
      BY <2>1, <3>1, <1>4, <1>11 DEF IInv, SlotsFollowRows
    <3>2. CASE slot[v].job # j
      BY <2>1, <3>2, <1>4, <1>11 DEF IInv, SlotsFollowRows
    <3> QED
      BY <3>1, <3>2
  <2> QED
    BY <2>1 DEF SlotsFollowRows
<1>14. ActedIsPast' /\ UnsafeIsConfined'
  <2>1. ActedIsPast'
    BY <1>4 DEF IInv, ActedIsPast
  <2>2. ASSUME NEW v \in Workers, slot[v].pc # "idle", slot[v].job = j, j \notin Safe
        PROVE  v = w
    BY <2>2, <1>2 DEF IInv, UnsafeIsConfined, ClaimsAreExclusive
  <2>3. j \notin Safe => next # "dead_letter" /\ (next = "queued" => f \notin acted[j])
    BY <1>2
  <2>4. ASSUME NEW k \in Jobs \ Safe, NEW g \in acted'[k]
        PROVE  g = fence'[k] /\ status'[k] \in {"running", "completed", "quarantined"}
    BY <2>3, <2>4, <1>4 DEF IInv, UnsafeIsConfined, Terminal
  <2>5. ASSUME NEW v \in Workers, slot'[v].pc # "idle", slot'[v].job \notin Safe
        PROVE  /\ slot'[v].fence = fence'[slot'[v].job]
               /\ status'[slot'[v].job] \in {"running", "completed", "quarantined"}
    <3>1. CASE slot[v].job # j
      BY <2>5, <3>1, <1>4, <1>11 DEF IInv, UnsafeIsConfined
    <3>2. CASE slot[v].job = j
      <4>1. v = w /\ next # "queued" /\ next # "dead_letter"
        BY <2>2, <2>3, <2>5, <3>2, <1>11
      <4> QED
        BY <4>1, <2>5, <3>2, <1>2, <1>4, <1>11 DEF Terminal
    <3> QED
      BY <3>1, <3>2
  <2> QED
    BY <2>1, <2>4, <2>5 DEF UnsafeIsConfined
<1>15. ReturnsAreBounded'
  <2>1. ASSUME NEW v \in Workers,
               slot'[v].pc = "capacity" \/ (slot'[v].pc = "claimed" /\ draining'[v]),
               Owns(v)'
        PROVE  Cardinality(Returns(slot[v].job)') < MaxReturns /\ slot'[v] = slot[v]
    <3>1. slot'[v].pc # "idle" /\ slot'[v].pc # "threw"
      BY <2>1
    <3>2. v # w /\ slot'[v] = slot[v] /\ slot[v].job \in Jobs
      BY <3>1, <1>4, <1>11
    <3>3. slot[v].job # j
      BY <2>1, <3>2, <1>4 DEF Owns
    <3>4. Owns(v)
      BY <2>1, <3>2, <3>3, <1>4 DEF Owns
    <3>5. Cardinality(Returns(slot[v].job)) < MaxReturns
      BY <2>1, <3>2, <3>4, <1>4 DEF IInv, ReturnsAreBounded
    <3>6. delivery'[slot[v].job] = delivery[slot[v].job]
      BY <3>2, <3>3, <1>4
    <3> QED
      BY <3>2, <3>5, <3>6 DEF Returns
  <2> QED
    BY <2>1, <1>9 DEF ReturnsAreBounded
<1> QED
  BY <1>6, <1>7, <1>9, <1>10, <1>12, <1>13, <1>14, <1>15 DEF IInv

(* Returning, completing, failing and deferring.                            *)

(* A slot that lets go of a row it no longer owns changes nothing else.     *)
LEMMA LetGoSound ==
    ASSUME IInv, NEW w \in Workers, LetGo(w), UNCHANGED <<jobVars, draining, acted, finished>>
    PROVE  IInv'
<1>1. Idle \in Slot /\ Idle.pc = "idle"
  BY DEF Slot, Idle
<1>2. draining \in [Workers -> BOOLEAN] /\ finished \in [Jobs -> SUBSET Claims]
  BY DEF IInv, TypeOK
<1> QED
  BY <1>1, <1>2, SlotOnly DEF LetGo

LEMMA SettleFailureSound ==
    ASSUME IInv, NEW w \in Workers, slot[w].pc # "idle", SettleFailure(w)
    PROVE  IInv'
<1>1. PICK j : j = slot[w].job
  OBVIOUS
<1> DEFINE exhausted == slot[w].attempts >= MaxAttempts
<1>2. CASE ~Owns(w)
  BY <1>2, LetGoSound DEF SettleFailure, jobVars
<1>3. CASE Owns(w)
  <2>1. j \in Jobs /\ slot[w].attempts = attempts[j] /\ attempts[j] \in 0..MaxAttempts
    <3>1. j \in Jobs /\ slot[w].job \in Jobs
      BY <1>1, SlotUpdates DEF IInv, TypeOK
    <3> QED
      BY <1>1, <1>3, <3>1 DEF IInv, TypeOK, Owns, SlotsFollowRows
  <2>2. /\ EndClaim(j, FailedStatus(j, exhausted), FailedOutcome(j, exhausted))
        /\ due' = [due EXCEPT ![j] = FALSE]
        /\ slot' = [slot EXCEPT ![w] = Idle]
        /\ UNCHANGED <<attempts, draining, acted, finished>>
    BY <1>1, <1>3 DEF SettleFailure, LetGo
  <2>3. due' \in [Jobs -> BOOLEAN]
    BY <2>1, <2>2 DEF IInv, TypeOK
  <2>4. exhausted <=> attempts[j] = MaxAttempts
    BY <2>1, ConstantsAssumption
  <2> HIDE DEF exhausted
  <2>5. CASE j \notin Safe
    <3>1. EndClaim(j, "quarantined", "reconciliation_required")
      BY <2>2, <2>5 DEF FailedStatus, FailedOutcome
    <3> QED
      BY <1>1, <1>3, <2>1, <2>2, <2>3, <2>5, <3>1, EndClaimSound DEF Terminal, Outcome, Uncharged
  <2>6. CASE j \in Safe /\ exhausted
    <3>1. EndClaim(j, "dead_letter", "dead_lettered")
      BY <2>2, <2>6 DEF FailedStatus, FailedOutcome
    <3> QED
      BY <1>1, <1>3, <2>1, <2>2, <2>3, <2>4, <2>6, <3>1, EndClaimSound DEF Terminal, Outcome, Uncharged
  <2>7. CASE j \in Safe /\ ~exhausted
    <3>1. EndClaim(j, "queued", "known_failed") /\ attempts[j] < MaxAttempts
      BY <2>1, <2>2, <2>4, <2>7, ConstantsAssumption DEF FailedStatus, FailedOutcome
    <3> QED
      BY <1>1, <1>3, <2>1, <2>2, <2>3, <2>7, <3>1, EndClaimSound DEF Terminal, Outcome, Uncharged
  <2> QED
    BY <2>5, <2>6, <2>7
<1> QED
  BY <1>2, <1>3

(* A delivery handed back with its attempt.                                 *)
LEMMA HandBackSound ==
    ASSUME IInv, NEW w \in Workers, NEW j, slot[w].pc # "idle", slot[w].job = j, Owns(w),
           NEW outcome \in Uncharged, EndClaim(j, "queued", outcome), LetGo(w),
           attempts' = [attempts EXCEPT ![j] = @ - 1],
           due' \in [Jobs -> BOOLEAN], UNCHANGED <<draining, acted, finished>>,
           j \in Safe \/ slot[w].fence \notin acted[j],
           Cardinality(Returns(j)) < MaxReturns
    PROVE  IInv'
<1>1. j \in Jobs /\ attempts[j] \in 0..MaxAttempts /\ attempts \in [Jobs -> 0..MaxAttempts]
  BY SlotUpdates DEF IInv, TypeOK
<1>2. attempts'[j] < MaxAttempts
  BY <1>1, ConstantsAssumption
<1>3. outcome \in Outcome \ {"none", "running"}
  BY DEF Outcome, Uncharged
<1> QED
  BY <1>1, <1>2, <1>3, EndClaimSound DEF LetGo, Terminal

LEMMA SettleActions ==
    ASSUME IInv, NEW w \in Workers,
           \/ ReturnUndispatched(w) \/ Complete(w) \/ Fail(w) \/ Defer(w) \/ DeferRefused(w)
    PROVE  IInv'
<1>1. PICK j : j = slot[w].job
  OBVIOUS
<1>2. slot[w].pc # "idle" => j \in Jobs
  BY <1>1, SlotUpdates DEF IInv, TypeOK
<1>3. due \in [Jobs -> BOOLEAN] /\ finished \in [Jobs -> SUBSET Claims]
  BY DEF IInv, TypeOK
<1>4. CASE ReturnUndispatched(w)
  <2>1. CASE Owns(w)
    <3>1. /\ EndClaim(j, "queued", "drained_before_dispatch") /\ LetGo(w)
          /\ attempts' = [attempts EXCEPT ![j] = @ - 1]
          /\ UNCHANGED <<due, draining, acted, finished>>
          /\ slot[w].pc = "claimed" /\ draining[w]
      BY <1>1, <1>4, <2>1 DEF ReturnUndispatched
    <3>2. slot[w].fence \notin acted[j]
      BY <1>1, <3>1 DEF IInv, SlotsFollowRows
    <3>3. Cardinality(Returns(j)) < MaxReturns
      BY <1>1, <2>1, <3>1 DEF IInv, ReturnsAreBounded
    <3> QED
      BY <1>1, <1>3, <2>1, <3>1, <3>2, <3>3, HandBackSound DEF Uncharged
  <2>2. CASE ~Owns(w)
    <3>1. LetGo(w) /\ UNCHANGED <<status, fence, holder, lease, due, delivery, draining, acted, finished>>
      BY <1>4, <2>2 DEF ReturnUndispatched
    <3>2. UNCHANGED attempts
      BY <1>4, <2>2 DEF ReturnUndispatched
    <3> QED
      BY <3>1, <3>2, LetGoSound DEF jobVars
  <2> QED
    BY <2>1, <2>2
<1>5. CASE Complete(w)
  <2> DEFINE commits == ~slot[w].lost /\ Owns(w) /\ LeaseLive(j)
  <2>1. slot[w].pc = "returned" /\ UNCHANGED <<attempts, due, draining, acted, finished>>
    BY <1>5 DEF Complete
  <2>2. slot[w].fence \in finished[j]
    BY <1>1, <2>1 DEF IInv, SlotsFollowRows
  <2>3. CASE commits
    <3>1. EndClaim(j, "completed", "completed") /\ (LetGo(w) \/ GoTo(w, "threw"))
      BY <1>1, <1>5, <2>3 DEF Complete
    <3>2. PICK s : /\ slot' = [slot EXCEPT ![w] = s]
                   /\ s = Idle \/ s = [slot[w] EXCEPT !.pc = "threw"]
      <4>1. CASE LetGo(w)
        BY <4>1 DEF LetGo
      <4>2. CASE GoTo(w, "threw")
        BY <4>2 DEF GoTo, IInv, TypeOK
      <4> QED
        BY <3>1, <4>1, <4>2
    <3>3. "completed" \in Terminal \union {"queued"}
          /\ "completed" \in Outcome \ {"none", "running"} /\ "completed" \notin Uncharged
      BY DEF Terminal, Outcome, Uncharged
    <3> QED
      BY <1>1, <1>3, <2>1, <2>2, <2>3, <3>1, <3>2, <3>3, EndClaimSound
  <2>4. CASE ~commits
    <3>1. GoTo(w, "threw") /\ UNCHANGED <<jobVars, draining, acted, finished>>
      BY <1>1, <1>5, <2>1, <2>4 DEF Complete, jobVars
    <3> QED
      BY <1>3, <2>1, <3>1, MovePc DEF GoTo, Busy
  <2> QED
    BY <2>3, <2>4
<1>6. CASE Fail(w)
  BY <1>6, SettleFailureSound DEF Fail
<1>7. CASE Defer(w)
  <2>1. CASE Owns(w)
    <3>1. /\ EndClaim(j, "queued", "capacity_deferred") /\ LetGo(w)
          /\ attempts' = [attempts EXCEPT ![j] = @ - 1]
          /\ due' = [due EXCEPT ![j] = FALSE]
          /\ UNCHANGED <<draining, acted, finished>>
          /\ slot[w].pc = "capacity" /\ (j \in Safe \/ slot[w].fence \notin acted[j])
      BY <1>1, <1>7, <2>1 DEF Defer
    <3>2. due' \in [Jobs -> BOOLEAN]
      BY <1>3, <3>1
    <3>3. Cardinality(Returns(j)) < MaxReturns
      BY <1>1, <2>1, <3>1 DEF IInv, ReturnsAreBounded
    <3> QED
      BY <1>1, <2>1, <3>1, <3>2, <3>3, HandBackSound DEF Uncharged
  <2>2. CASE ~Owns(w)
    BY <1>7, <2>2, LetGoSound DEF Defer, jobVars
  <2> QED
    BY <2>1, <2>2
<1>8. CASE DeferRefused(w)
  BY <1>8, SettleFailureSound DEF DeferRefused
<1> QED
  BY <1>4, <1>5, <1>6, <1>7, <1>8

-----------------------------------------------------------------------------
(* The recovery sweep.                                                      *)

LEMMA RecoverSound ==
    ASSUME IInv, NEW S \in SUBSET Jobs, RecoverExpiredRunningJobs(S)
    PROVE  IInv'
<1>1. /\ status \in [Jobs -> Status] /\ attempts \in [Jobs -> 0..MaxAttempts]
      /\ fence \in [Jobs -> 0..(MaxAttempts + MaxReturns)]
      /\ holder \in [Jobs -> Workers \union {NoWorker}] /\ lease \in [Jobs -> 0..LeaseTicks]
      /\ due \in [Jobs -> BOOLEAN]
      /\ delivery \in [Jobs -> [Claims -> Outcome]] /\ slot \in [Workers -> Slot]
  BY DEF IInv, TypeOK
<1>2. UNCHANGED <<attempts, fence, slot, draining, acted, finished>>
  BY DEF RecoverExpiredRunningJobs
<1>3. ASSUME NEW j \in S
      PROVE  /\ status'[j] = RecoveredStatus(j) /\ holder'[j] = NoWorker
             /\ \/ status[j] = "running"
                \/ j \notin Safe /\ status[j] \in {"queued", "dead_letter"}
  BY <1>3, ConstantsAssumption DEF RecoverExpiredRunningJobs, RetiredOpen, Expired
<1>4. ASSUME NEW j \in S
      PROVE  /\ j \notin Safe => status'[j] = "quarantined"
             /\ j \in Safe => \/ status'[j] = "dead_letter" /\ attempts[j] = MaxAttempts
                              \/ status'[j] = "queued" /\ attempts[j] < MaxAttempts
  <2>1. status'[j] = FailedStatus(j, attempts[j] >= MaxAttempts)
    BY <1>3, <1>4 DEF RecoveredStatus
  <2> DEFINE a == attempts[j]
  <2>0. a \in 0..MaxAttempts
    BY <1>1, <1>4
  <2> HIDE DEF a
  <2>2. a >= MaxAttempts <=> a = MaxAttempts
    BY <2>0, ConstantsAssumption
  <2>3. a # MaxAttempts => a < MaxAttempts
    BY <2>0, ConstantsAssumption
  <2> USE DEF a
  <2>4. CASE attempts[j] = MaxAttempts
    BY <2>1, <2>2, <2>4 DEF FailedStatus
  <2>5. CASE attempts[j] # MaxAttempts
    BY <2>1, <2>2, <2>3, <2>5 DEF FailedStatus
  <2> QED
    BY <2>4, <2>5
<1>5. \A j \in Jobs \ S : status'[j] = status[j] /\ holder'[j] = holder[j]
  BY DEF RecoverExpiredRunningJobs
<1>6. ASSUME NEW j \in Jobs, NEW f \in Claims
      PROVE  \/ delivery'[j][f] = delivery[j][f] /\ ~(j \in S /\ status[j] = "running" /\ f = fence[j])
             \/ /\ j \in S /\ status[j] = "running" /\ f = fence[j]
                /\ delivery'[j][f] \in {"lease_lost", "reconciliation_required"}
  BY <1>6 DEF RecoverExpiredRunningJobs
<1>7. TypeOK'
  <2>1. status' \in [Jobs -> Status]
    BY <1>1, <1>2 DEF RecoverExpiredRunningJobs, RecoveredStatus, FailedStatus, Status, Terminal
  <2>2. holder' \in [Jobs -> Workers \union {NoWorker}] /\ lease' \in [Jobs -> 0..LeaseTicks]
    BY <1>1, ConstantsAssumption DEF RecoverExpiredRunningJobs
  <2>4. due' \in [Jobs -> BOOLEAN]
    <3>1. ASSUME NEW j \in Jobs
          PROVE  (IF j \in S /\ status[j] = "running" /\ attempts[j] < MaxAttempts
                    THEN j \in Immediate ELSE due[j]) \in BOOLEAN
      <4>1. (j \in Immediate) \in BOOLEAN /\ due[j] \in BOOLEAN
        BY <1>1
      <4> QED
        BY <4>1
    <3> QED
      BY <3>1 DEF RecoverExpiredRunningJobs
  <2>3. delivery' \in [Jobs -> [Claims -> Outcome]]
    BY <1>1 DEF RecoverExpiredRunningJobs, Outcome
  <2> QED
    BY <1>2, <2>1, <2>2, <2>3, <2>4 DEF IInv, TypeOK
<1>8. LedgerMatchesJobs'
  <2>1. ASSUME NEW j \in Jobs, NEW f \in Claims
        PROVE  /\ delivery'[j][f] = "running" <=> status'[j] = "running" /\ f = fence'[j]
               /\ delivery'[j][f] = "none" <=> f > fence'[j]
    <3>1. CASE j \notin S
      BY <3>1, <1>2, <1>5, <1>6 DEF IInv, LedgerMatchesJobs
    <3>2. CASE j \in S
      <4>1. status'[j] # "running"
        BY <3>2, <1>4
      <4> QED
        BY <3>2, <4>1, <1>2, <1>3, <1>6 DEF IInv, LedgerMatchesJobs
    <3> QED
      BY <3>1, <3>2
  <2> QED
    BY <2>1 DEF LedgerMatchesJobs
<1>9. \A j \in Jobs : Charged(j)' = Charged(j) /\ Returns(j)' = Returns(j)
  <2> SUFFICES ASSUME NEW j \in Jobs PROVE Charged(j)' = Charged(j) /\ Returns(j)' = Returns(j)
    OBVIOUS
  <2>1. CASE j \in S /\ status[j] = "running" /\ fence[j] \in Claims
    <3>1. delivery[j][fence[j]] = "running"
      BY <2>1 DEF IInv, LedgerMatchesJobs
    <3>2. delivery'[j][fence[j]] \notin Uncharged \union {"none"}
      BY <2>1, <1>6 DEF Uncharged
    <3> QED
      BY <2>1, <3>1, <3>2, <1>6, <1>7, RewriteCharged DEF IInv
  <2>2. CASE ~(j \in S /\ status[j] = "running" /\ fence[j] \in Claims)
    BY <2>2, <1>6 DEF Charged, Returns
  <2> QED
    BY <2>1, <2>2
<1>10. AttemptsMatchLedger'
  BY <1>2, <1>9 DEF IInv, AttemptsMatchLedger
<1>11. CompletionIsEarned' /\ DispositionFollowsContract' /\ HolderIffRunning' /\ RunningIsCharged'
  <2>1. CompletionIsEarned'
    BY <1>2, <1>4, <1>5 DEF IInv, CompletionIsEarned
  <2>2. DispositionFollowsContract'
    BY <1>2, <1>4, <1>5 DEF IInv, DispositionFollowsContract
  <2>3. HolderIffRunning'
    BY <1>3, <1>4, <1>5 DEF IInv, HolderIffRunning
  <2>4. RunningIsCharged'
    BY <1>2, <1>4, <1>5 DEF IInv, RunningIsCharged
  <2> QED
    BY <2>1, <2>2, <2>3, <2>4
<1>12. \A w \in Workers : slot[w].pc # "idle" => slot[w].job \in Jobs
  BY <1>1, SlotUpdates
<1>13. ClaimsAreExclusive' /\ ActedIsPast'
  BY <1>2 DEF IInv, ClaimsAreExclusive, ActedIsPast
<1>14. SlotsFollowRows'
  <2>1. \A w \in Workers : slot[w].pc # "idle" =>
          (status'[slot[w].job] = "running" => slot[w].job \notin S)
    BY <1>4
  <2> QED
    BY <1>2, <1>5, <1>12, <2>1 DEF IInv, SlotsFollowRows
<1>15. UnsafeIsConfined'
  <2>1. ASSUME NEW j \in Jobs \ Safe, status[j] \in {"running", "completed", "quarantined"}
        PROVE  status'[j] \in {"running", "completed", "quarantined"}
    BY <2>1, <1>4, <1>5
  <2> QED
    BY <1>2, <1>12, <2>1 DEF IInv, UnsafeIsConfined
<1>16. ReturnsAreBounded'
  <2>1. \A j \in Jobs : Cardinality(Returns(j)') <= MaxReturns
    BY <1>9 DEF IInv, ReturnsAreBounded
  <2>2. ASSUME NEW w \in Workers,
               slot'[w].pc = "capacity" \/ (slot'[w].pc = "claimed" /\ draining'[w]),
               Owns(w)'
        PROVE  Cardinality(Returns(slot[w].job)') < MaxReturns /\ slot'[w] = slot[w]
    <3>1. slot[w].job \in Jobs /\ slot[w].job \notin S
      BY <2>2, <1>2, <1>4, <1>12 DEF Owns
    <3>2. Owns(w)
      BY <2>2, <3>1, <1>2, <1>5 DEF Owns
    <3>3. Cardinality(Returns(slot[w].job)) < MaxReturns
      BY <2>2, <3>2, <1>2 DEF IInv, ReturnsAreBounded
    <3> QED
      BY <3>1, <3>3, <1>2, <1>9
  <2> QED
    BY <2>1, <2>2 DEF ReturnsAreBounded
<1> QED
  BY <1>7, <1>8, <1>10, <1>11, <1>13, <1>14, <1>15, <1>16 DEF IInv

-----------------------------------------------------------------------------
(* The theorems.                                                            *)

LEMMA InitSound == Init => IInv
<1> SUFFICES ASSUME Init PROVE IInv
  OBVIOUS
<1>0. \A w \in Workers : slot[w] = Idle /\ Idle.pc = "idle"
  BY DEF Init, Idle
<1>1. TypeOK
  BY ConstantsAssumption DEF Init, TypeOK, Status, Outcome, Claims, Slot
<1>2. LedgerMatchesJobs
  BY ConstantsAssumption DEF Init, LedgerMatchesJobs, Claims
<1>3. AttemptsMatchLedger /\ ReturnsAreBounded
  <2>1. \A j \in Jobs : Charged(j) = {} /\ Returns(j) = {}
    BY DEF Init, Charged, Returns, Uncharged
  <2>2. AttemptsMatchLedger
    BY <2>1, FS_EmptySet DEF Init, AttemptsMatchLedger
  <2>3. \A j \in Jobs : Cardinality(Returns(j)) = 0
    BY <2>1, FS_EmptySet
  <2>4. \A w \in Workers : slot[w].pc # "capacity" /\ slot[w].pc # "claimed"
    BY <1>0
  <2> QED
    BY <2>2, <2>3, <2>4, ConstantsAssumption DEF ReturnsAreBounded
<1>4. CompletionIsEarned /\ DispositionFollowsContract /\ HolderIffRunning
      /\ RunningIsCharged /\ ActedIsPast
  BY ConstantsAssumption DEF Init, CompletionIsEarned, DispositionFollowsContract,
         HolderIffRunning, RunningIsCharged, ActedIsPast
<1>5. ClaimsAreExclusive /\ SlotsFollowRows /\ UnsafeIsConfined
  BY <1>0 DEF Init, ClaimsAreExclusive, SlotsFollowRows, UnsafeIsConfined
<1> QED
  BY <1>1, <1>2, <1>3, <1>4, <1>5 DEF IInv

LEMMA NextSound == IInv /\ [Next]_vars => IInv'
<1> SUFFICES ASSUME IInv, [Next]_vars PROVE IInv'
  OBVIOUS
<1>1. CASE UNCHANGED vars
  BY <1>1 DEF vars, IInv, TypeOK, LedgerMatchesJobs, AttemptsMatchLedger, CompletionIsEarned,
       DispositionFollowsContract, ClaimsAreExclusive, HolderIffRunning, SlotsFollowRows,
       ActedIsPast, UnsafeIsConfined, ReturnsAreBounded, RunningIsCharged, Charged, Returns, Owns
<1>2. CASE \E j \in Jobs : Enqueue(j) \/ LeaseTick(j) \/ BecomeDue(j)
  BY <1>2, ClockSound
<1>3. CASE \E w \in Workers : Drain(w) \/ Restart(w) \/ Crash(w)
  BY <1>3, SlotActions
<1>4. CASE \E w \in Workers, j \in Jobs : Claim(w, j)
  BY <1>4, ClaimSound
<1>5. CASE \E w \in Workers : SlotStep(w)
  BY <1>5, RenewSound, SlotActions, ActSound, SettleActions DEF SlotStep
<1>6. CASE Recover
  BY <1>6, RecoverSound DEF Recover
<1> QED
  BY <1>1, <1>2, <1>3, <1>4, <1>5, <1>6 DEF Next

(* The conjunction of the queue's invariants holds in every reachable state *)
(* of any number of jobs, slots, attempts and lease lengths.                *)
THEOREM Inductive == Spec => []IInv
  BY InitSound, NextSound, PTL DEF Spec

(* Rows, slots and ledger stay in their declared ranges: no fence or        *)
(* attempt ever exceeds what max_attempts and the bounded returns allow.    *)
THEOREM TypeCorrect == Spec => []TypeOK
<1>1. IInv => TypeOK
  BY DEF IInv
<1> QED
  BY <1>1, Inductive, PTL

(* The rows of `jobs` and of `job_delivery_attempts` never drift apart.     *)
THEOREM LedgerIsFaithful == Spec => []LedgerMatchesJobs
<1>1. IInv => LedgerMatchesJobs
  BY DEF IInv
<1> QED
  BY <1>1, Inductive, PTL

(* An attempt is charged for every delivery tried, refunded once for every  *)
(* delivery handed back, and never by or for another slot's claim.          *)
THEOREM AttemptsAreCounted == Spec => []AttemptsMatchLedger
<1>1. IInv => AttemptsMatchLedger
  BY DEF IInv
<1> QED
  BY <1>1, Inductive, PTL

(* Work that must not be replayed reaches outside under one claim only.     *)
THEOREM UnsafeWorkActsOnce == Spec => []UnsafeActsOnce
<1>1. IInv => UnsafeActsOnce
  <2> SUFFICES ASSUME IInv, NEW j \in Jobs \ Safe, NEW f \in acted[j], NEW g \in acted[j]
               PROVE  f = g
    BY DEF UnsafeActsOnce
  <2> QED
    BY DEF IInv, UnsafeIsConfined
<1> QED
  BY <1>1, Inductive, PTL

(* A settled job is where its retry contract and its attempts put it.       *)
THEOREM DispositionsAreRight == Spec => []DispositionFollowsContract
<1>1. IInv => DispositionFollowsContract
  BY DEF IInv
<1> QED
  BY <1>1, Inductive, PTL

(* A completed job was brought to its end under its last claim.             *)
THEOREM CompletionsAreEarned == Spec => []CompletionIsEarned
<1>1. IInv => CompletionIsEarned
  BY DEF IInv
<1> QED
  BY <1>1, Inductive, PTL

(* No two slots of the fleet ever run under the same claim.                 *)
THEOREM ClaimsNeverShared == Spec => []ClaimsAreExclusive
<1>1. IInv => ClaimsAreExclusive
  BY DEF IInv
<1> QED
  BY <1>1, Inductive, PTL

-----------------------------------------------------------------------------
(* What a step may not do.                                                  *)

(* The steps that change the status, the fence or the ledger of a job are   *)
(* its enqueueing, its claim, a settlement by its owner, and the sweep.     *)
LEMMA RowSteps ==
    ASSUME IInv, [Next]_vars, NEW j \in Jobs
    PROVE  \/ /\ status'[j] = status[j] /\ fence'[j] = fence[j]
              /\ delivery'[j] = delivery[j]
           \/ status[j] = "absent" /\ status'[j] = "queued" /\ delivery' = delivery
           \/ \E w \in Workers : Claim(w, j)
           \/ \E w \in Workers : \E next, outcome :
                 /\ slot[w].pc # "idle" /\ slot[w].job = j /\ Owns(w)
                 /\ EndClaim(j, next, outcome) /\ slot'[w] # slot[w]
           \/ \E S \in SUBSET Jobs : j \in S /\ RecoverExpiredRunningJobs(S)
<1>1. /\ slot \in [Workers -> Slot] /\ status \in [Jobs -> Status]
      /\ fence \in [Jobs -> 0..(MaxAttempts + MaxReturns)]
      /\ delivery \in [Jobs -> [Claims -> Outcome]]
  BY DEF IInv, TypeOK
<1>2. CASE UNCHANGED <<status, fence, delivery>>
  BY <1>2
<1>3. CASE \E k \in Jobs : Enqueue(k) \/ LeaseTick(k) \/ BecomeDue(k)
  <2>1. PICK k \in Jobs : Enqueue(k) \/ LeaseTick(k) \/ BecomeDue(k)
    BY <1>3
  <2>2. CASE Enqueue(k)
    BY <1>1, <2>2 DEF Enqueue
  <2>3. CASE LeaseTick(k) \/ BecomeDue(k)
    BY <1>2, <2>3 DEF LeaseTick, BecomeDue
  <2> QED
    BY <2>1, <2>2, <2>3
<1>4. CASE \E w \in Workers, k \in Jobs : Claim(w, k)
  <2>1. PICK w \in Workers, k \in Jobs : Claim(w, k)
    BY <1>4
  <2>2. CASE k = j
    BY <2>1, <2>2
  <2>3. CASE k # j
    BY <1>1, <2>1, <2>3 DEF Claim
  <2> QED
    BY <2>2, <2>3
<1>5. ASSUME NEW w \in Workers, NEW k, NEW next, NEW outcome,
             slot[w].pc # "idle", slot[w].job = k, Owns(w), EndClaim(k, next, outcome),
             slot'[w] # slot[w]
      PROVE  \/ /\ status'[j] = status[j] /\ fence'[j] = fence[j]
                /\ delivery'[j] = delivery[j]
             \/ \E v \in Workers : \E n, o :
                   /\ slot[v].pc # "idle" /\ slot[v].job = j /\ Owns(v)
                   /\ EndClaim(j, n, o) /\ slot'[v] # slot[v]
  <2>1. CASE k = j
    BY <1>5, <2>1
  <2>2. CASE k # j
    BY <1>1, <1>5, <2>2 DEF EndClaim
  <2> QED
    BY <2>1, <2>2
<1>6. ASSUME NEW w \in Workers, SlotStep(w)
      PROVE  \/ UNCHANGED <<status, fence, delivery>>
             \/ \E k, next, outcome :
                   /\ slot[w].pc # "idle" /\ slot[w].job = k /\ Owns(w)
                   /\ EndClaim(k, next, outcome) /\ slot'[w] # slot[w]
  <2>1. /\ slot[w].pc # "idle" /\ LetGo(w) => slot'[w] # slot[w]
        /\ slot[w].pc = "returned" /\ GoTo(w, "threw") => slot'[w] # slot[w]
    <3>1. slot[w].pc # "idle" /\ LetGo(w) => slot'[w].pc = "idle"
      BY <1>1 DEF LetGo, Idle
    <3>2. slot[w].pc = "returned" /\ GoTo(w, "threw") => slot'[w].pc = "threw"
      <4>1. CASE slot[w].pc = "returned"
        BY <1>1, <4>1, SlotUpdates DEF GoTo, Busy
      <4> QED
        BY <4>1
    <3> QED
      BY <3>1, <3>2
  <2>2. CASE Renew(w) \/ RenewBreaks(w) \/ Dispatch(w) \/ Act(w) \/ HandlerReturns(w)
             \/ HandlerThrows(w) \/ HandlerMeetsCapacity(w)
    BY <2>2 DEF Renew, RenewBreaks, Dispatch, Act, HandlerReturns, HandlerThrows,
         HandlerMeetsCapacity, jobVars
  <2>3. CASE ReturnUndispatched(w)
    BY <2>1, <2>3 DEF ReturnUndispatched
  <2>4. CASE Complete(w)
    BY <2>1, <2>4 DEF Complete
  <2>5. CASE Fail(w)
    BY <2>1, <2>5 DEF Fail, SettleFailure
  <2>6. CASE Defer(w)
    BY <2>1, <2>6 DEF Defer
  <2>7. CASE DeferRefused(w)
    BY <2>1, <2>7 DEF DeferRefused, SettleFailure
  <2> QED
    BY <1>6, <2>2, <2>3, <2>4, <2>5, <2>6, <2>7 DEF SlotStep
<1>7. ASSUME NEW S \in SUBSET Jobs, RecoverExpiredRunningJobs(S), j \notin S
      PROVE  /\ status'[j] = status[j] /\ fence'[j] = fence[j]
             /\ delivery'[j] = delivery[j]
  <2>1. status'[j] = status[j] /\ fence'[j] = fence[j]
    BY <1>7 DEF RecoverExpiredRunningJobs
  <2>2. delivery'[j] = [f \in Claims |-> delivery[j][f]]
    BY <1>7 DEF RecoverExpiredRunningJobs
  <2> QED
    BY <1>1, <2>1, <2>2
<1>8. CASE Recover
  BY <1>7, <1>8 DEF Recover
<1>9. CASE \E w \in Workers : Drain(w) \/ Restart(w) \/ Crash(w)
  BY <1>2, <1>9 DEF Drain, Restart, Crash, jobVars
<1>10. CASE \E w \in Workers : SlotStep(w)
  BY <1>2, <1>5, <1>6, <1>10
<1> QED
  BY <1>2, <1>3, <1>4, <1>8, <1>9, <1>10 DEF Next, vars

(* Rows of the retired vertical are never claimed.                          *)
RetiredNeverRuns == \A j \in Retired : status[j] # "running"

LEMMA RetiredInductive == Spec => []RetiredNeverRuns
<1>1. Init => RetiredNeverRuns
  BY ConstantsAssumption DEF Init, RetiredNeverRuns
<1>2. IInv /\ RetiredNeverRuns /\ [Next]_vars => RetiredNeverRuns'
  <2> SUFFICES ASSUME IInv, RetiredNeverRuns, [Next]_vars, NEW j \in Retired
               PROVE  status'[j] # "running"
    BY DEF RetiredNeverRuns
  <2>1. j \in Jobs /\ j \notin Safe /\ status[j] # "running"
    BY ConstantsAssumption DEF RetiredNeverRuns
  <2>2. ~\E w \in Workers : Claim(w, j)
    BY DEF Claim
  <2>3. ASSUME NEW S \in SUBSET Jobs, j \in S, RecoverExpiredRunningJobs(S)
        PROVE  status'[j] # "running"
    BY <2>1, <2>3 DEF RecoverExpiredRunningJobs, RecoveredStatus, FailedStatus
  <2> QED
    BY <2>1, <2>2, <2>3, RowSteps DEF Owns
<1> QED
  BY <1>1, <1>2, Inductive, PTL DEF Spec

(* A claim with a live lease ends only in a step of the slot that holds it: *)
(* no sweep, claim or settlement of another slot can take it away.          *)
THEOREM LiveOwnerIsSafe == Spec => LiveOwnerKeepsClaim
<1> DEFINE Kept(j) == status[j] = "running" /\ LeaseLive(j)
                        /\ (status'[j] # "running" \/ fence'[j] # fence[j])
                      => slot'[holder[j]] # slot[holder[j]]
<1>1. IInv /\ RetiredNeverRuns /\ [Next]_vars => [\A j \in Jobs : Kept(j)]_vars
  <2> SUFFICES ASSUME IInv, RetiredNeverRuns, [Next]_vars, NEW j \in Jobs,
                      status[j] = "running", LeaseLive(j),
                      status'[j] # "running" \/ fence'[j] # fence[j]
               PROVE  slot'[holder[j]] # slot[holder[j]]
    OBVIOUS
  <2>1. CASE \E w \in Workers : \E next, outcome :
               /\ slot[w].pc # "idle" /\ slot[w].job = j /\ Owns(w)
               /\ EndClaim(j, next, outcome) /\ slot'[w] # slot[w]
    BY <2>1 DEF Owns
  <2>2. ~\E w \in Workers : Claim(w, j)
    BY DEF Claim
  <2>3. ~\E S \in SUBSET Jobs : j \in S /\ RecoverExpiredRunningJobs(S)
    BY DEF RecoverExpiredRunningJobs, RetiredOpen, Expired, RetiredNeverRuns
  <2> QED
    BY <2>1, <2>2, <2>3, RowSteps
<1>2. LiveOwnerKeepsClaim <=> [][\A j \in Jobs : Kept(j)]_vars
  BY DEF LiveOwnerKeepsClaim
<1> HIDE DEF Kept
<1> QED
  BY <1>1, <1>2, Inductive, RetiredInductive, PTL DEF Spec

(* What is settled stays settled: no stale worker, sweep or later claim     *)
(* rewrites a terminal status or a recorded delivery outcome.               *)
THEOREM VerdictsStay == Spec => VerdictsAreFinal
<1> DEFINE Final(j) ==
      /\ status[j] \in Terminal => status'[j] = status[j]
      /\ \A f \in Claims :
           delivery[j][f] \notin {"none", "running"} => delivery'[j][f] = delivery[j][f]
<1>1. IInv /\ [Next]_vars => [\A j \in Jobs : Final(j)]_vars
  <2> SUFFICES ASSUME IInv, [Next]_vars, NEW j \in Jobs PROVE Final(j)
    OBVIOUS
  <2>0. fence[j] \in 0..(MaxAttempts + MaxReturns) /\ delivery \in [Jobs -> [Claims -> Outcome]]
    BY DEF IInv, TypeOK
  <2>1. CASE status'[j] = status[j] /\ delivery'[j] = delivery[j]
    BY <2>1
  <2>2. CASE status[j] = "absent" /\ status'[j] = "queued" /\ delivery' = delivery
    BY <2>2 DEF Terminal
  <2>3. ASSUME NEW w \in Workers, Claim(w, j) PROVE Final(j)
    <3>1. status[j] = "queued"
      BY <2>3 DEF Claim
    <3>2. ASSUME NEW f \in Claims, delivery[j][f] \notin {"none", "running"}
          PROVE  delivery'[j][f] = delivery[j][f]
      <4>1. f # fence[j] + 1
        BY <3>2, <2>0 DEF IInv, LedgerMatchesJobs, Claims
      <4> QED
        BY <2>0, <2>3, <4>1 DEF Claim
    <3> QED
      BY <3>1, <3>2 DEF Terminal
  <2>4. ASSUME NEW w \in Workers, NEW next, NEW outcome, slot[w].job = j, Owns(w),
               EndClaim(j, next, outcome)
        PROVE  Final(j)
    <3>1. status[j] = "running"
      BY <2>4 DEF Owns
    <3>2. ASSUME NEW f \in Claims, delivery[j][f] \notin {"none", "running"}
          PROVE  delivery'[j][f] = delivery[j][f]
      <4>1. f # fence[j]
        BY <3>1, <3>2 DEF IInv, LedgerMatchesJobs
      <4> QED
        BY <2>0, <2>4, <4>1 DEF EndClaim
    <3> QED
      BY <3>1, <3>2 DEF Terminal
  <2>5. ASSUME NEW S \in SUBSET Jobs, j \in S, RecoverExpiredRunningJobs(S) PROVE Final(j)
    <3>1. status[j] \in {"queued", "running"}
      BY <2>5, ConstantsAssumption
         DEF IInv, DispositionFollowsContract, RecoverExpiredRunningJobs, RetiredOpen, Expired
    <3>2. ASSUME NEW f \in Claims, delivery[j][f] \notin {"none", "running"}
          PROVE  delivery'[j][f] = delivery[j][f]
      <4>1. ~(status[j] = "running" /\ f = fence[j])
        BY <3>2 DEF IInv, LedgerMatchesJobs
      <4> QED
        BY <2>5, <4>1 DEF RecoverExpiredRunningJobs
    <3> QED
      BY <3>1, <3>2 DEF Terminal
  <2> QED
    BY <2>1, <2>2, <2>3, <2>4, <2>5, RowSteps
<1>2. VerdictsAreFinal <=> [][\A j \in Jobs : Final(j)]_vars
  BY DEF VerdictsAreFinal
<1> HIDE DEF Final
<1> QED
  BY <1>1, <1>2, Inductive, PTL DEF Spec

-----------------------------------------------------------------------------
(* THE REFINEMENT *)

(* What a step leaves alone, seen from the obligation.                      *)
LEMMA SameRow ==
    ASSUME NEW j \in Jobs, status'[j] = status[j], fence'[j] = fence[j],
           attempts'[j] = attempts[j], acted'[j] = acted[j], finished'[j] = finished[j]
    PROVE  Obligation(j)' = Obligation(j)
  BY DEF Obligation, Phase

(* Abbreviation for the conclusion of the lemmas below.                     *)
Moves(j) == Obligation(j)' = Obligation(j) \/ Promise!Step(j, Obligation(j), Obligation(j)')

(* Producers, the clock, and the steps by which slots come and go.          *)
LEMMA QuietMoves ==
    ASSUME IInv, NEW j \in Jobs,
           \/ \E k \in Jobs : Enqueue(k) \/ LeaseTick(k) \/ BecomeDue(k)
           \/ \E w \in Workers : Drain(w) \/ Restart(w) \/ Crash(w)
           \/ UNCHANGED vars
    PROVE  Moves(j)
<1>1. CASE \E k \in Jobs : Enqueue(k)
  <2>1. PICK k \in Jobs : Enqueue(k)
    BY <1>1
  <2>2. CASE k = j
    <3>1. status[j] = "absent" /\ status'[j] = "queued" /\ j \notin Retired
      BY <2>1, <2>2 DEF Enqueue, IInv, TypeOK
    <3>2. Promise!Accept(j, Obligation(j), Obligation(j)')
      BY <2>1, <2>2, <3>1 DEF Enqueue, Obligation, Phase, Promise!Accept
    <3> QED
      BY <3>2 DEF Moves, Promise!Step
  <2>3. CASE k # j
    BY <2>1, <2>3, SameRow DEF Enqueue, Moves, IInv, TypeOK
  <2> QED
    BY <2>2, <2>3
<1>2. CASE \/ \E k \in Jobs : LeaseTick(k) \/ BecomeDue(k)
           \/ \E w \in Workers : Drain(w) \/ Restart(w) \/ Crash(w)
           \/ UNCHANGED vars
  BY <1>2, SameRow DEF LeaseTick, BecomeDue, Drain, Restart, Crash, Moves, jobVars, vars
<1> QED
  BY <1>1, <1>2

(* A claim opens the next turn.                                             *)
LEMMA ClaimMoves ==
    ASSUME IInv, NEW j \in Jobs, NEW w \in Workers, NEW k \in Jobs, Claim(w, k)
    PROVE  Moves(j)
<1>1. CASE k = j
  <2>1. /\ status[j] = "queued" /\ status'[j] = "running" /\ j \notin Retired
        /\ attempts[j] < MaxAttempts
        /\ attempts'[j] = attempts[j] + 1 /\ fence'[j] = fence[j] + 1
    BY <1>1 DEF Claim, IInv, TypeOK, DispositionFollowsContract
  <2>2. Promise!Deliver(j, Obligation(j), Obligation(j)')
    <3>1. /\ Obligation(j) = [phase |-> "waiting", turn |-> fence[j], tried |-> attempts[j],
                              acts |-> acted[j], done |-> finished[j]]
          /\ Obligation(j)' = [phase |-> "open", turn |-> fence[j] + 1,
                               tried |-> attempts[j] + 1,
                               acts |-> acted[j], done |-> finished[j]]
      BY <2>1 DEF Claim, Obligation, Phase
    <3> QED
      BY <2>1, <3>1 DEF Promise!Deliver, Promise!At
  <2> QED
    BY <2>2 DEF Moves, Promise!Step
<1>2. CASE k # j
  BY <1>2, SameRow DEF Claim, Moves, IInv, TypeOK
<1> QED
  BY <1>1, <1>2

(* A delivery, possibly a late one, reaches outside or comes to its end.    *)
LEMMA DeliveryMoves ==
    ASSUME IInv, NEW j \in Jobs, NEW w \in Workers, Act(w) \/ HandlerReturns(w)
    PROVE  Moves(j)
<1> DEFINE k == slot[w].job
           t == slot[w].fence
<1>1. /\ slot[w].pc # "idle" /\ k \in Jobs /\ t \in 1..fence[k]
      /\ acted[k] \in SUBSET Claims /\ finished[k] \in SUBSET Claims
  <2>1. slot[w].pc = "handling" /\ slot[w] \in Slot
    BY DEF Act, HandlerReturns, IInv, TypeOK
  <2>2. slot[w].pc # "idle" /\ k \in Jobs /\ t \in Claims
    BY <2>1 DEF Slot, Idle
  <2>3. t <= fence[k] /\ fence[k] \in Nat
    BY <2>2 DEF IInv, TypeOK, SlotsFollowRows
  <2> QED
    BY <2>2, <2>3 DEF Claims, IInv, TypeOK
<1>2. CASE k # j
  BY <1>1, <1>2, SameRow DEF Act, HandlerReturns, jobVars, Moves, IInv, TypeOK
<1>3. CASE k = j /\ Act(w)
  <2>1. acted'[j] = acted[j] \union {t} /\ t \notin acted[j]
    BY <1>1, <1>3 DEF Act, IInv, TypeOK
  <2>2. Obligation(j)' = [Obligation(j) EXCEPT !.acts = @ \union {t}]
    BY <1>3, <2>1 DEF Act, Obligation, Phase, jobVars
  <2>3. j \notin Safe => acted[j] = {} /\ t = fence[j] /\ status[j] # "queued"
    BY <1>1, <1>3, <2>1 DEF IInv, UnsafeIsConfined
  <2>4. Obligation(j).phase = "waiting" => status[j] = "queued"
    BY DEF Obligation, Phase, IInv, TypeOK, Status, Terminal
  <2>5. Promise!ReachOut(j, Obligation(j), Obligation(j)')
    BY <1>1, <1>3, <2>1, <2>2, <2>3, <2>4 DEF Promise!ReachOut, Obligation
  <2> QED
    BY <2>5 DEF Moves, Promise!Step
<1>4. CASE k = j /\ HandlerReturns(w)
  <2>1. finished'[j] = finished[j] \union {t}
    BY <1>1, <1>4 DEF HandlerReturns, IInv, TypeOK
  <2>2. Obligation(j)' = [Obligation(j) EXCEPT !.done = @ \union {t}]
    BY <1>4, <2>1 DEF HandlerReturns, Obligation, Phase, jobVars
  <2>3. Promise!Finish(Obligation(j), Obligation(j)')
    BY <1>1, <1>4, <2>2 DEF Promise!Finish, Obligation
  <2> QED
    BY <2>3 DEF Moves, Promise!Step
<1> QED
  BY <1>2, <1>3, <1>4

-----------------------------------------------------------------------------
(* The ways an open turn ends.                                              *)

(* The turn is handed back, by a drain or for want of capacity.             *)
LEMMA HandBackMoves ==
    ASSUME IInv, NEW j \in Jobs, NEW w \in Workers, slot[w].pc # "idle", slot[w].job = j,
           Owns(w), NEW outcome, EndClaim(j, "queued", outcome),
           attempts' = [attempts EXCEPT ![j] = @ - 1], UNCHANGED <<acted, finished>>,
           j \in Safe \/ slot[w].fence \notin acted[j]
    PROVE  Moves(j)
<1>1. status[j] = "running" /\ fence[j] = slot[w].fence /\ attempts[j] > 0
  BY DEF Owns, IInv, RunningIsCharged
<1>2. status'[j] = "queued" /\ fence'[j] = fence[j] /\ attempts'[j] = attempts[j] - 1
  BY DEF EndClaim, IInv, TypeOK
<1>3. j \in Safe \/ acted[j] = {}
  BY <1>1 DEF IInv, UnsafeIsConfined
<1>4. Promise!HandBack(j, Obligation(j), Obligation(j)')
  <2>1. /\ Obligation(j) = [phase |-> "open", turn |-> fence[j], tried |-> attempts[j],
                            acts |-> acted[j], done |-> finished[j]]
        /\ Obligation(j)' = [phase |-> "waiting", turn |-> fence[j],
                             tried |-> attempts[j] - 1,
                             acts |-> acted[j], done |-> finished[j]]
    BY <1>1, <1>2 DEF Obligation, Phase
  <2> QED
    BY <1>1, <1>3, <2>1 DEF Promise!HandBack, Promise!At
<1> QED
  BY <1>4 DEF Moves, Promise!Step

(* The turn failed or was lost with its lease.                              *)
LEMMA FailedMoves ==
    ASSUME IInv, NEW j \in Jobs, NEW exhausted \in BOOLEAN, status[j] = "running",
           exhausted <=> attempts[j] >= MaxAttempts,
           status'[j] = FailedStatus(j, exhausted), fence'[j] = fence[j],
           attempts'[j] = attempts[j], UNCHANGED <<acted, finished>>
    PROVE  Moves(j)
<1>1. attempts[j] \in 0..MaxAttempts
  BY DEF IInv, TypeOK
<1>2. CASE j \in Safe /\ ~exhausted
  <2>1. status'[j] = "queued" /\ attempts[j] < MaxAttempts
    BY <1>1, <1>2, ConstantsAssumption DEF FailedStatus
  <2>2. Promise!TryAgain(j, Obligation(j), Obligation(j)')
    BY <1>2, <2>1 DEF Obligation, Phase, Promise!TryAgain
  <2> QED
    BY <2>2 DEF Moves, Promise!Step
<1>3. CASE j \notin Safe \/ exhausted
  <2>1. \/ status'[j] = "dead_letter" /\ j \in Safe /\ attempts[j] = MaxAttempts
        \/ status'[j] = "quarantined" /\ j \notin Safe
    BY <1>1, <1>3, ConstantsAssumption DEF FailedStatus
  <2>2. Promise!Conclude(j, Obligation(j), Obligation(j)')
    BY <2>1 DEF Obligation, Phase, Promise!Conclude
  <2> QED
    BY <2>2 DEF Moves, Promise!Step
<1> QED
  BY <1>2, <1>3

LEMMA SettleFailureMoves ==
    ASSUME IInv, NEW j \in Jobs, NEW w \in Workers, slot[w].pc # "idle", SettleFailure(w)
    PROVE  Moves(j)
<1> DEFINE k == slot[w].job
<1>0. k \in Jobs
  BY SlotUpdates DEF IInv, TypeOK
<1>1. CASE ~Owns(w)
  BY <1>1, SameRow DEF SettleFailure, Moves
<1>2. CASE Owns(w) /\ k # j
  BY <1>2, SameRow DEF SettleFailure, EndClaim, Moves, IInv, TypeOK
<1>3. CASE Owns(w) /\ k = j
  <2>1. status[j] = "running" /\ attempts[j] = slot[w].attempts
    BY <1>3 DEF Owns, IInv, SlotsFollowRows
  <2>2. /\ status'[j] = FailedStatus(j, slot[w].attempts >= MaxAttempts)
        /\ fence'[j] = fence[j]
    BY <1>3 DEF SettleFailure, EndClaim, IInv, TypeOK
  <2>3. UNCHANGED <<attempts, acted, finished>>
    BY DEF SettleFailure
  <2>4. /\ (attempts[j] >= MaxAttempts) \in BOOLEAN
        /\ status'[j] = FailedStatus(j, attempts[j] >= MaxAttempts)
    BY <2>1, <2>2
  <2>5. attempts'[j] = attempts[j]
    BY <2>3
  <2> QED
    BY <2>1, <2>2, <2>3, <2>4, <2>5, FailedMoves
<1> QED
  BY <1>1, <1>2, <1>3

(* A slot ends its claim, or finds that it no longer has one.               *)
LEMMA SettleMoves ==
    ASSUME IInv, NEW j \in Jobs, NEW w \in Workers,
           \/ ReturnUndispatched(w) \/ Complete(w) \/ Fail(w) \/ Defer(w) \/ DeferRefused(w)
    PROVE  Moves(j)
<1> DEFINE k == slot[w].job
<1>0. slot[w].pc # "idle" /\ k \in Jobs
  <2>1. slot[w].pc # "idle"
    BY DEF ReturnUndispatched, Complete, Fail, Defer, DeferRefused
  <2> QED
    BY <2>1, SlotUpdates DEF IInv, TypeOK
<1>1. CASE Fail(w) \/ DeferRefused(w)
  BY <1>0, <1>1, SettleFailureMoves DEF Fail, DeferRefused
<1>2. CASE ReturnUndispatched(w) \/ Defer(w)
  <2>1. UNCHANGED <<acted, finished>>
    BY <1>2 DEF ReturnUndispatched, Defer
  <2>2. CASE ~Owns(w)
    BY <1>2, <2>1, <2>2, SameRow DEF ReturnUndispatched, Defer, Moves
  <2>3. CASE Owns(w) /\ k # j
    BY <1>2, <2>1, <2>3, SameRow DEF ReturnUndispatched, Defer, EndClaim, Moves, IInv, TypeOK
  <2>4. CASE Owns(w) /\ k = j
    <3>1. PICK outcome : EndClaim(j, "queued", outcome)
      <4>1. CASE ReturnUndispatched(w)
        BY <2>4, <4>1 DEF ReturnUndispatched
      <4>2. CASE Defer(w)
        BY <2>4, <4>2 DEF Defer
      <4> QED
        BY <1>2, <4>1, <4>2
    <3>2. attempts' = [attempts EXCEPT ![j] = @ - 1]
      BY <1>2, <2>4 DEF ReturnUndispatched, Defer
    <3>3. j \in Safe \/ slot[w].fence \notin acted[j]
      BY <1>0, <1>2, <2>4 DEF ReturnUndispatched, Defer, IInv, SlotsFollowRows
    <3> QED
      BY <1>0, <2>1, <2>4, <3>1, <3>2, <3>3, HandBackMoves
  <2> QED
    BY <2>2, <2>3, <2>4
<1>3. CASE Complete(w)
  <2>1. UNCHANGED <<attempts, acted, finished>> /\ slot[w].pc = "returned"
    BY <1>3 DEF Complete
  <2>2. CASE UNCHANGED <<status, fence>>
    BY <2>1, <2>2, SameRow DEF Moves
  <2>3. CASE Owns(w) /\ EndClaim(k, "completed", "completed")
    <3>1. CASE k # j
      BY <1>0, <2>1, <2>3, <3>1, SameRow DEF EndClaim, Moves, IInv, TypeOK
    <3>2. CASE k = j
      <4>1. status[j] = "running" /\ status'[j] = "completed" /\ fence'[j] = fence[j]
        BY <2>3, <3>2 DEF Owns, EndClaim, IInv, TypeOK
      <4>2. fence[j] \in finished[j]
        BY <1>0, <2>1, <2>3, <3>2 DEF Owns, IInv, SlotsFollowRows
      <4>3. Promise!Conclude(j, Obligation(j), Obligation(j)')
        BY <2>1, <4>1, <4>2 DEF Obligation, Phase, Promise!Conclude
      <4> QED
        BY <4>3 DEF Moves, Promise!Step
    <3> QED
      BY <3>1, <3>2
  <2> QED
    BY <1>3, <2>2, <2>3 DEF Complete
<1> QED
  BY <1>1, <1>2, <1>3

(* One sweep moves a whole batch, each job of it as its contract says.      *)
LEMMA SweepMoves ==
    ASSUME IInv, NEW j \in Jobs, NEW S \in SUBSET Jobs, RecoverExpiredRunningJobs(S)
    PROVE  Moves(j)
<1>1. /\ fence'[j] = fence[j] /\ attempts'[j] = attempts[j]
      /\ UNCHANGED <<acted, finished>>
      /\ status'[j] = IF j \in S THEN RecoveredStatus(j) ELSE status[j]
  BY DEF RecoverExpiredRunningJobs
<1>2. CASE j \notin S
  BY <1>1, <1>2, SameRow DEF Moves
<1>3. CASE j \in S /\ status[j] = "running"
  <2>1. (attempts[j] >= MaxAttempts) \in BOOLEAN
    OBVIOUS
  <2>2. status'[j] = FailedStatus(j, attempts[j] >= MaxAttempts)
    BY <1>1, <1>3 DEF RecoveredStatus
  <2> QED
    BY <1>1, <1>3, <2>1, <2>2, FailedMoves
<1>4. CASE j \in S /\ status[j] # "running"
  <2>1. j \in Retired /\ j \notin Safe /\ status[j] \in {"queued", "dead_letter"}
    BY <1>4, ConstantsAssumption DEF RecoverExpiredRunningJobs, RetiredOpen, Expired
  <2>2. status[j] = "queued" /\ status'[j] = "quarantined"
    BY <1>1, <1>4, <2>1 DEF RecoveredStatus, FailedStatus, IInv, DispositionFollowsContract
  <2>3. Promise!Withdraw(j, Obligation(j), Obligation(j)')
    BY <1>1, <2>1, <2>2 DEF Obligation, Phase, Promise!Withdraw
  <2> QED
    BY <2>3 DEF Moves, Promise!Step
<1> QED
  BY <1>2, <1>3, <1>4

-----------------------------------------------------------------------------
LEMMA StepMoves ==
    ASSUME IInv, [Next]_vars, NEW j \in Jobs
    PROVE  Moves(j)
<1>1. ASSUME NEW w \in Workers, SlotStep(w)
      PROVE  Moves(j)
  <2>1. CASE Renew(w) \/ RenewBreaks(w) \/ Dispatch(w) \/ HandlerThrows(w)
             \/ HandlerMeetsCapacity(w)
    BY <2>1, SameRow DEF Renew, RenewBreaks, Dispatch, HandlerThrows, HandlerMeetsCapacity,
         jobVars, Moves
  <2> QED
    BY <1>1, <2>1, DeliveryMoves, SettleMoves DEF SlotStep
<1> QED
  BY <1>1, QuietMoves, ClaimMoves, SweepMoves DEF Next, Recover

(* The queue keeps its promise (JobObligation) whatever the number of jobs, *)
(* slots, attempts and lease ticks.                                         *)
THEOREM QueueImplementsObligation == Spec => KeepsPromise
<1>1. Init => Promise!Init
  <2> SUFFICES ASSUME Init, NEW j \in Jobs PROVE Obligation(j) = Promise!New(j)
    BY DEF Promise!Init
  <2> QED
    BY DEF Init, Obligation, Phase, Promise!New
<1>2. IInv /\ [Next]_vars => [Promise!Next]_([j \in Jobs |-> Obligation(j)])
  <2> SUFFICES ASSUME IInv, [Next]_vars PROVE Promise!Next
    OBVIOUS
  <2>1. \A j \in Jobs : Moves(j)
    BY StepMoves
  <2> QED
    BY <2>1 DEF Moves, Promise!Next
<1> QED
  BY <1>1, <1>2, Inductive, PTL DEF Spec, KeepsPromise, Promise!Spec
=============================================================================
