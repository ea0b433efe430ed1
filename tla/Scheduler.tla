----------------------------- MODULE Scheduler -----------------------------
(***************************************************************************)
(* The proactive scheduler (apps/worker/src/scheduler.ts), on top of the   *)
(* lease that elects the process running it.  A leader's timer goes over   *)
(* tenants and scans and enqueues a job for each, keyed by a bucket of the *)
(* time it reads; the unique idempotency key of `jobs` makes a second      *)
(* insert with the same key a no-op.  The insert travels: it is executed   *)
(* some time after its bucket was read, perhaps in a later one, perhaps    *)
(* after its process died.                                                 *)
(*                                                                         *)
(* Time is a clock of minutes that wraps at the end of a day.  A process   *)
(* remembers how long ago it last scheduled (lastScheduleAt), up to        *)
(* TickEvery.  A bucket, or a window of a scan's interval, is named by its *)
(* age: 0 is the current one, and each rollover adds one.  Ages up to Late *)
(* are told apart: no insert travels longer (the clock waits for it).      *)
(***************************************************************************)
EXTENDS ControlLease

CONSTANTS
    Tenants,    \* activeTenantIds()
    Scans,      \* the registered scan types
    Interval,   \* intervalHours of each scan, in minutes
    Hour, Day,  \* minutes in an hour, and in a day
    TickEvery,  \* tickMs, in minutes
    Late        \* bound: rollovers an insert may be under way for

ASSUME SchedulerConstants ==
    /\ {Hour, Day, TickEvery} \subseteq Nat \ {0}
    /\ Late \in Nat
    /\ Hour <= Day
    /\ Day % Hour = 0
    /\ Interval \in [Scans -> {i \in 1..Day : Day % i = 0}]

VARIABLES
    now,            \* minute of the day
    authoritative,  \* compute_plane_cutover.state = 'authoritative'
    since,          \* minutes since lastScheduleAt, saturating at TickEvery
    ticking,        \* where each process is in `tick` (tickRunning)
    todo,           \* (tenant, scan) pairs its scheduleTick has yet to visit
    inserts,        \* inserts into `jobs` sent and not yet executed
    keys,           \* ages of the buckets of each pair whose key is in `jobs`
    fired           \* history: jobs of each pair by the window they were sent in

schedulerVars == <<now, authoritative, since, ticking, todo, inserts, keys, fired>>
vars == <<leaseVars, schedulerVars>>

Pairs == Tenants \X Scans
Ages == 0..Late
Insert == [on : Pairs, bucket : Ages, window : Ages, by : Procs \union {Nobody}]

TypeOK ==
    /\ LeaseTypeOK
    /\ now \in 0..(Day - 1)
    /\ authoritative \in BOOLEAN
    /\ since \in [Procs -> 0..TickEvery]
    /\ ticking \in [Procs -> {"no", "asked", "enqueueing"}]
    /\ todo \in [Procs -> SUBSET Pairs]
    /\ inserts \subseteq Insert
    /\ keys \in [Pairs -> SUBSET Ages]
    /\ fired \in [Pairs -> [Ages -> Nat]]

Init ==
    /\ LeaseInit
    /\ now = 0
    /\ authoritative \in BOOLEAN
    /\ since = [p \in Procs |-> TickEvery]
    /\ ticking = [p \in Procs |-> "no"]
    /\ todo = [p \in Procs |-> {}]
    /\ inserts = {}
    /\ keys = [x \in Pairs |-> {}]
    /\ fired = [x \in Pairs |-> [a \in Ages |-> 0]]

-----------------------------------------------------------------------------
(* Fault: one bucket size for every scan.                                   *)
MinuteBucket(scan) == 1

(* dateBucket: the day, the hour or the minute, by the size of the interval. *)
DateBucket(scan) ==
    IF Interval[scan] >= Day THEN Day
    ELSE IF Interval[scan] >= Hour THEN Hour
    ELSE 1

(* The age in the next minute of a bucket or window of that size.           *)
Older(age, size) == IF (now + 1) % size = 0 THEN age + 1 ELSE age

Ripen(i) == [i EXCEPT !.bucket = Older(@, DateBucket(i.on[2])),
                      !.window = Older(@, Interval[i.on[2]])]

Minute ==
    /\ \A i \in inserts : Ripen(i) \in Insert
    /\ now' = (now + 1) % Day
    /\ since' = [p \in Procs |-> IF since[p] < TickEvery THEN since[p] + 1 ELSE TickEvery]
    /\ inserts' = {Ripen(i) : i \in inserts}
    /\ keys' = [x \in Pairs |-> {Older(k, DateBucket(x[2])) : k \in keys[x]} \intersect Ages]
    /\ fired' = [x \in Pairs |-> [a \in Ages |->
                    IF (now + 1) % Interval[x[2]] # 0 THEN fired[x][a]
                    ELSE IF a = 0 THEN 0
                    ELSE fired[x][a - 1]]]
    /\ UNCHANGED <<leaseVars, authoritative, ticking, todo>>

(* The release activates the compute epoch; nothing turns it back.          *)
Activate ==
    /\ ~authoritative
    /\ authoritative' = TRUE
    /\ UNCHANGED <<leaseVars, now, since, ticking, todo, inserts, keys, fired>>

(* tick, from the timer or from onAcquire: only a leader's, one at a time.  *)
StartTick(p) ==
    /\ IsLeader(p)
    /\ ticking[p] = "no"
    /\ ticking' = [ticking EXCEPT ![p] = "asked"]
    /\ UNCHANGED <<leaseVars, now, authoritative, since, todo, inserts, keys, fired>>

(* Fault: the time of the tick is recorded even when it was not due.        *)
CheckStampingAlways(p) ==
    /\ ticking[p] = "asked"
    /\ IF authoritative /\ since[p] = TickEvery
       THEN /\ ticking' = [ticking EXCEPT ![p] = "enqueueing"]
            /\ todo' = [todo EXCEPT ![p] = Pairs]
            /\ UNCHANGED since
       ELSE /\ ticking' = [ticking EXCEPT ![p] = "no"]
            /\ since' = [since EXCEPT ![p] = 0]
            /\ UNCHANGED todo
    /\ UNCHANGED <<leaseVars, now, authoritative, inserts, keys, fired>>

(* After the await on compute_plane_cutover.                                *)
CheckCutover(p) ==
    /\ ticking[p] = "asked"
    /\ IF authoritative /\ since[p] = TickEvery
       THEN /\ ticking' = [ticking EXCEPT ![p] = "enqueueing"]
            /\ todo' = [todo EXCEPT ![p] = Pairs]
       ELSE /\ ticking' = [ticking EXCEPT ![p] = "no"]
            /\ UNCHANGED todo
    /\ UNCHANGED <<leaseVars, now, authoritative, since, inserts, keys, fired>>

Awaits(p) == \E i \in inserts : i.by = p

(* The inserts p sent lose the caller that awaits them.                     *)
Abandoned(p) == {IF i.by = p THEN [i EXCEPT !.by = Nobody] ELSE i : i \in inserts}

(* scheduleTick, one pair: asks stillOwned, reads the bucket of this minute *)
(* and sends the insert.                                                    *)
ReadBucket(p) ==
    /\ ticking[p] = "enqueueing"
    /\ ~Awaits(p)
    /\ IsLeader(p)
    /\ \E x \in todo[p] :
        /\ todo' = [todo EXCEPT ![p] = @ \ {x}]
        /\ inserts' = inserts \union {[on |-> x, bucket |-> 0, window |-> 0, by |-> p]}
    /\ UNCHANGED <<leaseVars, now, authoritative, since, ticking, keys, fired>>

(* INSERT ... ON CONFLICT (idempotency_key) DO NOTHING, with the bucket     *)
(* that was read; whether the sender still leads is not asked.              *)
EnqueueScan(i) ==
    /\ inserts' = inserts \ {i}
    /\ keys' = [keys EXCEPT ![i.on] = @ \union {i.bucket}]
    /\ fired' = [fired EXCEPT ![i.on][i.window] = IF i.bucket \in keys[i.on] THEN @ ELSE @ + 1]
    /\ UNCHANGED <<leaseVars, now, authoritative, since, ticking, todo>>

(* An insert nobody awaits may never reach the database.                    *)
LoseInsert(i) ==
    /\ i.by = Nobody
    /\ inserts' = inserts \ {i}
    /\ UNCHANGED <<leaseVars, now, authoritative, since, ticking, todo, keys, fired>>

(* scheduleTick returns: every pair is done, or the lease is gone.  Either  *)
(* way the tick counts as done.                                             *)
FinishTick(p) ==
    /\ ticking[p] = "enqueueing"
    /\ ~Awaits(p)
    /\ todo[p] = {} \/ ~IsLeader(p)
    /\ ticking' = [ticking EXCEPT ![p] = "no"]
    /\ todo' = [todo EXCEPT ![p] = {}]
    /\ since' = [since EXCEPT ![p] = 0]
    /\ UNCHANGED <<leaseVars, now, authoritative, inserts, keys, fired>>

(* A query fails: the tick is given up and its time is not recorded.  An    *)
(* insert under way may still be executed.                                  *)
TickFails(p) ==
    /\ Fault
    /\ ticking[p] # "no"
    /\ ticking' = [ticking EXCEPT ![p] = "no"]
    /\ todo' = [todo EXCEPT ![p] = {}]
    /\ inserts' = Abandoned(p)
    /\ UNCHANGED <<fence, live, mode, lease, call, wire,
                   now, authoritative, since, keys, fired>>

(* The lease goes its way; a process that ends takes its scheduler along,   *)
(* and its successor has never scheduled.                                   *)
LeaseStep ==
    /\ LeaseNext
    /\ since' = [p \in Procs |-> IF mode'[p] = "dead" THEN TickEvery ELSE since[p]]
    /\ ticking' = [p \in Procs |-> IF mode'[p] = "dead" THEN "no" ELSE ticking[p]]
    /\ todo' = [p \in Procs |-> IF mode'[p] = "dead" THEN {} ELSE todo[p]]
    /\ inserts' = {IF i.by \in Procs /\ mode'[i.by] = "dead" THEN [i EXCEPT !.by = Nobody]
                   ELSE i : i \in inserts}
    /\ UNCHANGED <<now, authoritative, keys, fired>>

SchedulerStep(p) ==
    \/ StartTick(p) \/ CheckCutover(p) \/ ReadBucket(p) \/ FinishTick(p)
    \/ \E i \in inserts : i.by = p /\ EnqueueScan(i)

OrphanStep == \E i \in inserts : i.by = Nobody /\ (EnqueueScan(i) \/ LoseInsert(i))

Next ==
    \/ LeaseStep
    \/ Minute
    \/ Activate
    \/ \E p \in Procs : SchedulerStep(p) \/ TickFails(p)
    \/ OrphanStep

Spec == Init /\ [][Next]_vars

(* Timers fire, awaits end, the clock runs; the lease as in ControlLease.   *)
Fairness ==
    /\ LeaseFairness
    /\ WF_vars(Minute)
    /\ WF_vars(OrphanStep)
    /\ \A p \in Procs : WF_vars(SchedulerStep(p))

FairSpec == Spec /\ Fairness

-----------------------------------------------------------------------------
(* PROPERTIES                                                               *)

(* A scan fires at most once per tenant in each window of its interval,     *)
(* however leadership moves, however many processes believe to lead and     *)
(* however late an insert is executed: "Buckets "now" into a window the     *)
(* size of the interval, so the idempotency key is stable for the whole     *)
(* window" (scheduler.ts:28-29).  A job counts for the window in which its  *)
(* insert was sent.  It holds for hourly and daily scans (WindowIsBucket);  *)
(* for the scans of less than an hour it does not.                          *)
OncePerWindow == \A x \in Pairs, a \in Ages : fired[x][a] <= 1

(* No scan fires "twice in the same window" (scheduler.ts:12-14) by the     *)
(* time the jobs are made: an insert of an earlier window makes no job in   *)
(* a window that already has its own.  The code does not promise it: the    *)
(* bucket is read before the insert is awaited (scheduler.ts:61-62).        *)
NoSecondJob ==
    [][Minute \/ \A x \in Pairs, a \in 1..Late :
            fired'[x][a] # fired[x][a] => fired[x][0] = 0]_vars

(* The scans whose window is an hour or a day of the clock.                 *)
WindowIsBucket(scan) == Interval[scan] \in {Hour, Day}

(* Why it holds for them: an insert carries the key of the window it was    *)
(* sent in, and a job made for a window still has its key.                  *)
SchedulerInv ==
    /\ TypeOK
    /\ \A i \in inserts : WindowIsBucket(i.on[2]) => i.bucket = i.window
    /\ \A x \in Pairs, a \in Ages : WindowIsBucket(x[2]) =>
            fired[x][a] <= 1 /\ (fired[x][a] = 1 => a \in keys[x])

(* Once the cutover is done every scan of every tenant keeps being          *)
(* enqueued, whoever leads and wherever earlier ticks were cut off          *)
(* (scheduler.ts:6-12): keys age, so one that is always there again is new. *)
EveryScanKeepsFiring ==
    [](authoritative => \A x \in Pairs : []<>(keys[x] # {}))
=============================================================================
