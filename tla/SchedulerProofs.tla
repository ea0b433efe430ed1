-------------------------- MODULE SchedulerProofs --------------------------
(***************************************************************************)
(* Proofs about Scheduler for any fleet, any tenants and scans and any     *)
(* number of faults: hourly and daily scans fire at most once per window,  *)
(* however late their inserts are executed, and the lease below keeps what *)
(* it promises on its own.                                                 *)
(***************************************************************************)
EXTENDS Scheduler, ControlLeaseProofs

Inv == LeaseInv /\ SchedulerInv

(* The bucket of an hourly or daily scan is its window.                     *)
LEMMA BucketIsWindow ==
  ASSUME NEW scan \in Scans, WindowIsBucket(scan)
  PROVE  DateBucket(scan) = Interval[scan]
  BY SchedulerConstants DEF WindowIsBucket, DateBucket

LEMMA InitInv == Init => Inv
  <1> SUFFICES ASSUME Init  PROVE Inv
    OBVIOUS
  <1>1. LeaseInv
    BY LeaseInitInv DEF Init
  <1>2. TypeOK
    BY <1>1, SchedulerConstants DEF Init, TypeOK, LeaseInv
  <1> QED
    BY <1>1, <1>2 DEF Init, Inv, SchedulerInv

(* The lease keeps its invariant when the scheduler moves alone.            *)
LEMMA LeaseUntouched ==
  ASSUME LeaseInv, UNCHANGED <<fence, live, mode, lease, call, wire>>,
         faults' \in 0..MaxFaults
  PROVE  LeaseInv'
  <1>1. \A p \in Procs : Knows(p)' = Knows(p)
    BY DEF Knows
  <1>2. FenceHasOneOwner' /\ ReleasesAreOver'
    BY <1>1, NobodyLearns
  <1> QED
    BY <1>2 DEF LeaseInv, LeaseTypeOK, CallsAwaitTheirStatements

(* In a minute buckets, and what is named by them, grow older; for hourly   *)
(* and daily scans bucket and window do so together.                        *)
LEMMA MinuteInv ==
  ASSUME Inv, Minute
  PROVE  Inv'
  <1> DEFINE Turns(x) == (now + 1) % Interval[x[2]] = 0
  <1>0. /\ TypeOK
        /\ Late \in Nat
        /\ \A x \in Pairs : x[2] \in Scans
    BY SchedulerConstants DEF Inv, SchedulerInv, Pairs
  <1>1. LeaseInv'
    BY LeaseStutterInv DEF Minute, Inv
  <1>2. now' \in 0..(Day - 1)
    BY <1>0, SchedulerConstants DEF Minute, TypeOK
  <1>3. since' \in [Procs -> 0..TickEvery]
    BY <1>0, SchedulerConstants DEF Minute, TypeOK
  <1>4. inserts' \subseteq Insert
    BY DEF Minute
  <1>5. keys' \in [Pairs -> SUBSET Ages]
    BY DEF Minute
  <1>6. \A x \in Pairs, a \in Ages :
          fired'[x][a] = IF ~Turns(x) THEN fired[x][a] ELSE IF a = 0 THEN 0 ELSE fired[x][a - 1]
    BY DEF Minute
  <1>7. \A x \in Pairs, a \in Ages : fired[x][a] \in Nat /\ (a # 0 => a - 1 \in Ages)
    BY <1>0 DEF TypeOK, Ages
  <1>8. fired' \in [Pairs -> [Ages -> Nat]]
    BY <1>7 DEF Minute
  <1>9. TypeOK'
    BY <1>0, <1>1, <1>2, <1>3, <1>4, <1>5, <1>8 DEF Minute, TypeOK, LeaseInv
  <1>10. ASSUME NEW i \in inserts', WindowIsBucket(i.on[2])
         PROVE  i.bucket = i.window
    <2>1. PICK j \in inserts : i = Ripen(j)
      BY DEF Minute
    <2>2. j \in Insert /\ i.on = j.on
      BY <1>0, <2>1 DEF TypeOK, Ripen, Insert
    <2>3. /\ i.bucket = Older(j.bucket, DateBucket(j.on[2]))
          /\ i.window = Older(j.window, Interval[j.on[2]])
      BY <2>1, <2>2 DEF Ripen, Insert
    <2>4. j.bucket = j.window
      BY <1>10, <2>2 DEF Inv, SchedulerInv
    <2>5. DateBucket(j.on[2]) = Interval[j.on[2]]
      BY <1>0, <1>10, <2>2, BucketIsWindow DEF Insert
    <2> QED
      BY <2>3, <2>4, <2>5
  <1>11. ASSUME NEW x \in Pairs, NEW a \in Ages, WindowIsBucket(x[2])
         PROVE  fired'[x][a] <= 1 /\ (fired'[x][a] = 1 => a \in keys'[x])
    <2>1. \A b \in Ages : fired[x][b] <= 1 /\ (fired[x][b] = 1 => b \in keys[x])
      BY <1>11 DEF Inv, SchedulerInv
    <2>2. \A k \in keys[x] : Older(k, Interval[x[2]]) \in Ages
                             => Older(k, Interval[x[2]]) \in keys'[x]
      BY <1>0, <1>11, BucketIsWindow DEF Minute
    <2>3. CASE ~Turns(x)
      <3>1. \A k : Older(k, Interval[x[2]]) = k
        BY <2>3 DEF Older
      <3> QED
        BY <1>6, <2>1, <2>2, <2>3, <3>1
    <2>4. CASE Turns(x) /\ a # 0
      <3>1. a - 1 \in Ages /\ fired'[x][a] = fired[x][a - 1]
        BY <1>6, <1>7, <2>4
      <3>2. Older(a - 1, Interval[x[2]]) = a
        BY <2>4, <3>1 DEF Older, Ages
      <3> QED
        BY <2>1, <2>2, <3>1, <3>2
    <2>5. CASE Turns(x) /\ a = 0
      <3>1. fired'[x][a] = 0
        BY <1>6, <2>5
      <3> QED
        BY <3>1
    <2> QED
      BY <2>3, <2>4, <2>5
  <1> QED
    BY <1>1, <1>9, <1>10, <1>11 DEF Inv, SchedulerInv, WindowIsBucket

(* An insert executed now, whoever sent it and however long ago: if its key *)
(* is not there, the window it was sent in has no job.                      *)
LEMMA EnqueueScanInv ==
  ASSUME Inv, NEW i \in inserts, EnqueueScan(i)
  PROVE  Inv'
  <1>0. TypeOK /\ i \in Insert
    BY DEF Inv, SchedulerInv, TypeOK
  <1> DEFINE x == i.on
  <1>1. x \in Pairs /\ i.bucket \in Ages /\ i.window \in Ages
    BY <1>0 DEF Insert
  <1>2. LeaseInv'
    BY LeaseStutterInv DEF EnqueueScan, Inv
  <1>3. /\ keys' \in [Pairs -> SUBSET Ages]
        /\ \A y \in Pairs : keys[y] \subseteq keys'[y]
        /\ i.bucket \in keys'[x]
    BY <1>0, <1>1 DEF EnqueueScan, TypeOK
  <1>4. /\ fired' \in [Pairs -> [Ages -> Nat]]
        /\ \A y \in Pairs, a \in Ages :
             fired'[y][a] = IF y = x /\ a = i.window /\ i.bucket \notin keys[x]
                            THEN fired[y][a] + 1 ELSE fired[y][a]
    BY <1>0, <1>1 DEF EnqueueScan, TypeOK
  <1>5. TypeOK'
    BY <1>0, <1>2, <1>3, <1>4 DEF EnqueueScan, TypeOK, LeaseInv
  <1>6. \A j \in inserts' : WindowIsBucket(j.on[2]) => j.bucket = j.window
    BY DEF EnqueueScan, Inv, SchedulerInv
  <1>7. ASSUME NEW y \in Pairs, NEW a \in Ages, WindowIsBucket(y[2])
        PROVE  fired'[y][a] <= 1 /\ (fired'[y][a] = 1 => a \in keys'[y])
    <2>1. fired[y][a] \in Nat /\ fired[y][a] <= 1 /\ (fired[y][a] = 1 => a \in keys[y])
      BY <1>0, <1>7 DEF Inv, SchedulerInv, TypeOK
    <2>2. y = x => i.bucket = i.window
      BY <1>7 DEF Inv, SchedulerInv
    <2>3. CASE y = x /\ a = i.window /\ i.bucket \notin keys[x]
      <3>1. fired[y][a] # 1
        BY <2>1, <2>2, <2>3
      <3>2. fired'[y][a] = fired[y][a] + 1
        BY <1>4, <2>3
      <3> QED
        BY <1>3, <2>1, <2>2, <2>3, <3>1, <3>2
    <2>4. CASE ~(y = x /\ a = i.window /\ i.bucket \notin keys[x])
      <3>1. fired'[y][a] = fired[y][a]
        BY <1>4, <2>4
      <3> QED
        BY <1>3, <2>1, <3>1
    <2> QED
      BY <2>3, <2>4
  <1> QED
    BY <1>2, <1>5, <1>6, <1>7 DEF Inv, SchedulerInv, WindowIsBucket

(* The steps that neither create a job nor move the clock.  Inserts among   *)
(* them are new, of the current bucket and window, or lose their caller.    *)
LEMMA QuietInv ==
  ASSUME Inv, LeaseInv', UNCHANGED <<now, keys, fired>>,
         authoritative' \in BOOLEAN,
         since' \in [Procs -> 0..TickEvery],
         ticking' \in [Procs -> {"no", "asked", "enqueueing"}],
         todo' \in [Procs -> SUBSET Pairs],
         inserts' \subseteq Insert,
         \A i \in inserts' :
            \/ i.bucket = i.window
            \/ \E j \in inserts : i.on = j.on /\ i.bucket = j.bucket /\ i.window = j.window
  PROVE  Inv'
  <1>1. TypeOK'
    BY DEF Inv, SchedulerInv, TypeOK, LeaseInv
  <1>2. \A i \in inserts' : WindowIsBucket(i.on[2]) => i.bucket = i.window
    BY DEF Inv, SchedulerInv, WindowIsBucket
  <1> QED
    BY <1>1, <1>2 DEF Inv, SchedulerInv, WindowIsBucket

(* Inserts that lose their caller are the same inserts.                     *)
LEMMA OrphansAreInserts ==
  ASSUME inserts \subseteq Insert, NEW i \in inserts
  PROVE  LET j == [i EXCEPT !.by = Nobody]
         IN  j \in Insert /\ j.on = i.on /\ j.bucket = i.bucket /\ j.window = i.window
  BY DEF Insert

LEMMA StepInv ==
  ASSUME Inv, [Next]_vars
  PROVE  Inv'
  <1>0. /\ authoritative \in BOOLEAN
        /\ since \in [Procs -> 0..TickEvery]
        /\ ticking \in [Procs -> {"no", "asked", "enqueueing"}]
        /\ todo \in [Procs -> SUBSET Pairs]
        /\ inserts \subseteq Insert
        /\ TickEvery \in Nat
        /\ Late \in Nat
    BY SchedulerConstants DEF Inv, SchedulerInv, TypeOK
  <1>1. CASE LeaseStep
    <2>1. LeaseInv'
      BY <1>1, LeaseStepInv DEF LeaseStep, Inv
    <2>2. \A i \in inserts' : \E j \in inserts : i = j \/ i = [j EXCEPT !.by = Nobody]
      BY <1>1 DEF LeaseStep
    <2>3. /\ inserts' \subseteq Insert
          /\ \A i \in inserts' : \E j \in inserts :
               i.on = j.on /\ i.bucket = j.bucket /\ i.window = j.window
      BY <1>0, <2>2, OrphansAreInserts
    <2> QED
      BY <1>0, <1>1, <2>1, <2>3, QuietInv DEF LeaseStep
  <1>2. CASE Minute
    BY <1>2, MinuteInv
  <1>3. CASE Activate
    <2>1. LeaseInv'
      BY <1>3, LeaseStutterInv DEF Activate, Inv
    <2> QED
      BY <1>0, <1>3, <2>1, QuietInv DEF Activate
  <1>4. ASSUME NEW p \in Procs, StartTick(p) \/ CheckCutover(p) \/ FinishTick(p)
        PROVE  Inv'
    <2>1. LeaseInv'
      BY <1>4, LeaseStutterInv DEF StartTick, CheckCutover, FinishTick, Inv
    <2> QED
      BY <1>0, <1>4, <2>1, QuietInv DEF StartTick, CheckCutover, FinishTick
  <1>5. ASSUME NEW p \in Procs, ReadBucket(p)
        PROVE  Inv'
    <2>1. LeaseInv'
      BY <1>5, LeaseStutterInv DEF ReadBucket, Inv
    <2>2. PICK x \in todo[p] :
            /\ todo' = [todo EXCEPT ![p] = todo[p] \ {x}]
            /\ inserts' = inserts \union {[on |-> x, bucket |-> 0, window |-> 0, by |-> p]}
      BY <1>5 DEF ReadBucket
    <2>3. [on |-> x, bucket |-> 0, window |-> 0, by |-> p] \in Insert
      BY <1>0, <2>2 DEF Insert, Ages
    <2> QED
      BY <1>0, <1>5, <2>1, <2>2, <2>3, QuietInv DEF ReadBucket
  <1>6. ASSUME NEW p \in Procs, TickFails(p)
        PROVE  Inv'
    <2>1. faults' \in 0..MaxFaults
      BY <1>6, FaultType DEF TickFails, Inv
    <2>2. LeaseInv'
      BY <1>6, <2>1, LeaseUntouched DEF TickFails, Inv
    <2>3. \A i \in inserts' : \E j \in inserts : i = j \/ i = [j EXCEPT !.by = Nobody]
      BY <1>6 DEF TickFails, Abandoned
    <2>4. /\ inserts' \subseteq Insert
          /\ \A i \in inserts' : \E j \in inserts :
               i.on = j.on /\ i.bucket = j.bucket /\ i.window = j.window
      BY <1>0, <2>3, OrphansAreInserts
    <2> QED
      BY <1>0, <1>6, <2>2, <2>4, QuietInv DEF TickFails
  <1>7. ASSUME NEW i \in inserts, LoseInsert(i)
        PROVE  Inv'
    <2>1. LeaseInv'
      BY <1>7, LeaseStutterInv DEF LoseInsert, Inv
    <2> QED
      BY <1>0, <1>7, <2>1, QuietInv DEF LoseInsert
  <1>8. CASE UNCHANGED vars
    <2>1. LeaseInv'
      BY <1>8, LeaseStutterInv DEF vars, Inv
    <2> QED
      BY <1>0, <1>8, <2>1, QuietInv DEF vars, schedulerVars
  <1> QED
    BY <1>1, <1>2, <1>3, <1>4, <1>5, <1>6, <1>7, <1>8, EnqueueScanInv
    DEF Next, SchedulerStep, OrphanStep

(* In every reachable state an insert for an hourly or daily scan carries   *)
(* the key of the hour or day it was sent in, and a job made for that hour  *)
(* or day has its key in `jobs`, so a second one cannot be made.            *)
THEOREM SchedulerInvHolds == Spec => []SchedulerInv
  <1>1. Inv => SchedulerInv
    BY DEF Inv
  <1> QED  BY <1>1, InitInv, StepInv, PTL DEF Spec

(* When every scan is hourly or daily, the inserts sent in one window make  *)
(* at most one job per tenant, however late they are executed.  For a scan  *)
(* of less than an hour this fails.                                         *)
THEOREM HourlyAndDailyFireOnce ==
  ASSUME \A scan \in Scans : WindowIsBucket(scan)
  PROVE  Spec => []OncePerWindow
  <1>1. SchedulerInv => OncePerWindow
    <2>1. \A x \in Pairs : x[2] \in Scans
      BY DEF Pairs
    <2> QED  BY <2>1 DEF SchedulerInv, OncePerWindow
  <1> QED  BY <1>1, SchedulerInvHolds, PTL

(* The scheduler on top of it does the lease no harm: a fence is one        *)
(* process's, whatever ticks, scans and failed queries come in between.     *)
THEOREM OneOwnerWhileScheduling == Spec => []FenceHasOneOwner
  <1>1. Inv => FenceHasOneOwner
    BY DEF Inv, LeaseInv
  <1> QED  BY <1>1, InitInv, StepInv, PTL DEF Spec

(* Nor does any step of the scheduler end a leadership: of all that the     *)
(* process does, only the lease's own statements touch the row.             *)
THEOREM LeadershipIsKeptWhileScheduling == Spec => OnlyTimeEndsLeadership
  <1> DEFINE Kept == (\E p \in Procs : IsLeader(p) /\ IsLeader(p)' /\ lease[p] = fence) /\ live
                     => (live' /\ fence' = fence) \/ Expire
  <1>1. Inv /\ [Next]_vars => [Kept]_leaseVars
    <2> SUFFICES ASSUME Inv, [Next]_vars  PROVE Kept \/ UNCHANGED leaseVars
      OBVIOUS
    <2>1. CASE LeaseStep
      BY <2>1, LeaderKeepsGrant DEF LeaseStep, Inv
    <2>2. ASSUME NEW p \in Procs, TickFails(p)
          PROVE  Kept
      BY <2>2 DEF TickFails, Inv, LeaseInv, LeaseTypeOK
    <2>3. CASE UNCHANGED leaseVars
      BY <2>3
    <2> QED
      BY <2>1, <2>2, <2>3 DEF Next, Minute, Activate, SchedulerStep, StartTick, CheckCutover,
                              ReadBucket, EnqueueScan, FinishTick, OrphanStep, LoseInsert, vars
  <1> QED
    BY <1>1, InitInv, StepInv, PTL DEF Spec, OnlyTimeEndsLeadership
=============================================================================
