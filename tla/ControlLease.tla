---------------------------- MODULE ControlLease ----------------------------
(***************************************************************************)
(* The fenced singleton lease that elects the process which schedules,     *)
(* sweeps or publishes for the whole fleet (packages/db/compute-control.ts):*)
(* one row of `compute_control_leases`, and the closure every process      *)
(* keeps around it (startComputeControlLeadership).                        *)
(*                                                                         *)
(* The row's owner_id and lease_token are written together with fence + 1  *)
(* and by nothing else, so the fence alone says which grant a row is; the  *)
(* process that was granted fence f is the only one to know it             *)
(* (FenceHasOneOwner).  The row's time to live is not measured: it may end *)
(* at any moment, as it does when a renewal comes late.                    *)
(*                                                                         *)
(* A statement travels: it is executed some time after it was sent and     *)
(* answered some time after it was executed, and a caller that failed or   *)
(* died leaves it in the wire, to be executed late or never.               *)
(***************************************************************************)
EXTENDS Naturals, FiniteSets

CONSTANTS
    Procs,      \* processes that run startComputeControlLeadership for this lease
    Nobody,     \* the caller of a statement whose answer nobody awaits
    MaxFaults   \* bound: crashes, stops, failed calls and late renewals

ASSUME LeaseConstants ==
    /\ Nobody \notin Procs
    /\ MaxFaults \in Nat

VARIABLES
    fence,   \* compute_control_leases.fence; 0 = no row yet
    live,    \* expires_at > clock_timestamp()
    mode,    \* the process runs, was told to stop, or is gone
    lease,   \* `lease` of the closure: the fence it holds, 0 = null
    call,    \* what `tick` awaits (inTick)
    wire,    \* statements sent and not yet executed
    faults   \* how many faults happened (bounded by MaxFaults)

leaseVars == <<fence, live, mode, lease, call, wire, faults>>

NoCall == [op |-> "none", answered |-> FALSE, fence |-> 0]
Call == {NoCall} \union [op : {"acquire", "renew"}, answered : BOOLEAN, fence : Nat]
Statement == [op : {"acquire", "renew", "release"}, fence : Nat, by : Procs \union {Nobody}]

LeaseTypeOK ==
    /\ fence \in Nat
    /\ live \in BOOLEAN
    /\ mode \in [Procs -> {"running", "stopping", "dead"}]
    /\ lease \in [Procs -> Nat]
    /\ call \in [Procs -> Call]
    /\ wire \subseteq Statement
    /\ faults \in 0..MaxFaults

LeaseInit ==
    /\ fence = 0
    /\ live = FALSE
    /\ mode = [p \in Procs |-> "running"]
    /\ lease = [p \in Procs |-> 0]
    /\ call = [p \in Procs |-> NoCall]
    /\ wire = {}
    /\ faults = 0

-----------------------------------------------------------------------------
(* isLeader: active and not aborted, and the closure holds a lease.         *)
IsLeader(p) == mode[p] = "running" /\ lease[p] # 0

(* The row's grant is with a running process, or on its way to one.         *)
Attended ==
    \E p \in Procs :
        /\ mode[p] = "running"
        /\ lease[p] = fence \/ (call[p].op = "acquire" /\ call[p].fence = fence)

Fault == faults < MaxFaults /\ faults' = faults + 1

(* The statements p sent lose the caller that awaits them.                  *)
Orphan(p) == {IF s.by = p THEN [s EXCEPT !.by = Nobody] ELSE s : s \in wire}

-----------------------------------------------------------------------------
(* tick: one attempt per interval, none while the last one is awaited.      *)
Tick(p) ==
    /\ mode[p] = "running"
    /\ call[p] = NoCall
    /\ LET op == IF lease[p] = 0 THEN "acquire" ELSE "renew" IN
        /\ call' = [call EXCEPT ![p] = [op |-> op, answered |-> FALSE, fence |-> lease[p]]]
        /\ wire' = wire \union {[op |-> op, fence |-> lease[p], by |-> p]}
    /\ UNCHANGED <<fence, live, mode, lease, faults>>

(* What the statement returned reaches its caller, if it still has one.     *)
Return(s, f) ==
    /\ wire' = wire \ {s}
    /\ call' = [p \in Procs |->
                    IF s.by = p THEN [op |-> s.op, answered |-> TRUE, fence |-> f]
                    ELSE call[p]]
    /\ UNCHANGED <<mode, lease, faults>>

(* acquireComputeControlLease: INSERT ... ON CONFLICT DO UPDATE ... WHERE   *)
(* expires_at <= clock_timestamp().  No row returned means not acquired.    *)
ExecuteAcquire(s) ==
    /\ s.op = "acquire"
    /\ \/ /\ ~live
          /\ fence' = fence + 1
          /\ live' = TRUE
          /\ Return(s, fence + 1)
       \/ /\ live
          /\ UNCHANGED <<fence, live>>
          /\ Return(s, 0)

(* Faults: renew by lease name alone, release by lease name alone, and a    *)
(* renewal that answers with whatever grant the row holds.                  *)
RenewsByName(s) == live
ReleasesByName(s) == TRUE

(* renewComputeControlLease: only the owner of this fence, only while live. *)
Renews(s) == live /\ fence = s.fence

RenewReturningRow(s) ==
    /\ s.op = "renew"
    /\ UNCHANGED <<fence, live>>
    /\ Return(s, IF live THEN fence ELSE 0)

ExecuteRenew(s) ==
    /\ s.op = "renew"
    /\ UNCHANGED <<fence, live>>
    /\ Return(s, IF Renews(s) THEN s.fence ELSE 0)

(* releaseComputeControlLease: expires the row if it still is this grant.   *)
Releases(s) == fence = s.fence

ExecuteRelease(s) ==
    /\ s.op = "release"
    /\ live' = (live /\ ~Releases(s))
    /\ Return(s, 0)
    /\ UNCHANGED fence

(* A statement nobody awaits may never reach the database.                  *)
Lose(s) ==
    /\ s.by = Nobody
    /\ wire' = wire \ {s}
    /\ UNCHANGED <<fence, live, mode, lease, call, faults>>

(* The await returns.  An acquisition is assigned whatever happened in the  *)
(* meantime: after `stop` it leaves a lease that nobody releases.           *)
Answer(p) ==
    /\ call[p].answered
    /\ lease' = [lease EXCEPT ![p] =
                    IF call[p].op = "acquire" \/ call[p].fence = 0 THEN call[p].fence
                    ELSE @]
    /\ call' = [call EXCEPT ![p] = NoCall]
    /\ UNCHANGED <<fence, live, mode, wire, faults>>

(* The await throws: the closure forgets its lease.  The statement may have *)
(* been executed, may be executed later, or never.                          *)
CallFails(p) ==
    /\ Fault
    /\ call[p] # NoCall
    /\ lease' = [lease EXCEPT ![p] = 0]
    /\ call' = [call EXCEPT ![p] = NoCall]
    /\ wire' = Orphan(p)
    /\ UNCHANGED <<fence, live, mode>>

(* stop (the abort signal): forget the lease and release it in passing.     *)
Stop(p) ==
    /\ Fault
    /\ mode[p] = "running"
    /\ mode' = [mode EXCEPT ![p] = "stopping"]
    /\ lease' = [lease EXCEPT ![p] = 0]
    /\ wire' = IF lease[p] = 0 THEN wire
               ELSE wire \union {[op |-> "release", fence |-> lease[p], by |-> Nobody]}
    /\ UNCHANGED <<fence, live, call>>

(* The process ends: drained after a stop, or killed while it runs.         *)
Exit(p) ==
    /\ mode[p] # "dead"
    /\ \/ mode[p] = "stopping" /\ UNCHANGED faults
       \/ mode[p] = "running" /\ Fault
    /\ mode' = [mode EXCEPT ![p] = "dead"]
    /\ lease' = [lease EXCEPT ![p] = 0]
    /\ call' = [call EXCEPT ![p] = NoCall]
    /\ wire' = Orphan(p)
    /\ UNCHANGED <<fence, live>>

(* The service replaces the process: a new closure.                         *)
Restart(p) ==
    /\ mode[p] = "dead"
    /\ mode' = [mode EXCEPT ![p] = "running"]
    /\ UNCHANGED <<fence, live, lease, call, wire, faults>>

(* expires_at passes.  It is a fault only when a running process holds the  *)
(* grant: its renewals, one per third of the time to live, all came late.   *)
Expire ==
    /\ live
    /\ live' = FALSE
    /\ IF Attended THEN Fault ELSE UNCHANGED faults
    /\ UNCHANGED <<fence, mode, lease, call, wire>>

-----------------------------------------------------------------------------
Execute == \E s \in wire : ExecuteAcquire(s) \/ ExecuteRenew(s) \/ ExecuteRelease(s)

LeaseNext ==
    \/ \E p \in Procs : Tick(p) \/ Answer(p) \/ CallFails(p)
                        \/ Stop(p) \/ Exit(p) \/ Restart(p)
    \/ Execute
    \/ \E s \in wire : Lose(s)
    \/ Expire

LeaseSpec == LeaseInit /\ [][LeaseNext]_leaseVars

(* The interval timer fires, awaits end (the pool answers or throws), a     *)
(* drain ends within its deadline, the service replaces its processes, and  *)
(* a lease nobody attends to runs out.                                      *)
LeaseFairness ==
    /\ \A p \in Procs :
        /\ WF_leaseVars(Tick(p))
        /\ WF_leaseVars(Answer(p))
        /\ WF_leaseVars(mode[p] = "stopping" /\ Exit(p))
        /\ WF_leaseVars(Restart(p))
        /\ WF_leaseVars(\E s \in wire : s.by = p /\ (ExecuteAcquire(s) \/ ExecuteRenew(s)))
    /\ WF_leaseVars(~Attended /\ Expire)

-----------------------------------------------------------------------------
(* PROPERTIES                                                               *)

(* The fences a process holds, carries in its call, or was granted by it.   *)
Knows(p) == {lease[p], call[p].fence} \ {0}

(* A fence names one grant of one process: no two processes ever hold, or   *)
(* are about to be told, the same fence, and none is beyond the row's.      *)
(* This is what lets renew and release find their own grant, and no         *)
(* successor's, by comparing (compute-control.ts:40, 52).                   *)
FenceHasOneOwner ==
    \A p \in Procs :
        /\ \A f \in Knows(p) : f <= fence
        /\ \A q \in Procs \ {p} : Knows(p) \intersect Knows(q) = {}

(* A process awaits exactly the statement it sent last, until it is         *)
(* answered; nothing survives in a process that ended.                      *)
CallsAwaitTheirStatements ==
    /\ \A s \in wire : s.by \in Procs =>
        call[s.by] = [op |-> s.op, answered |-> FALSE, fence |-> s.fence]
    /\ \A p \in Procs :
        /\ mode[p] = "dead" => lease[p] = 0 /\ call[p] = NoCall
        /\ call[p].op = "none" => call[p] = NoCall

(* A release under way names a grant that no running process knows.         *)
ReleasesAreOver ==
    \A s \in wire : s.op = "release" =>
        /\ s.by = Nobody
        /\ s.fence \in 1..fence
        /\ \A p \in Procs : mode[p] = "running" => s.fence \notin Knows(p)

(* The strengthening under which FenceHasOneOwner and the action property   *)
(* below are preserved by every step.                                       *)
LeaseInv ==
    /\ LeaseTypeOK
    /\ FenceHasOneOwner
    /\ CallsAwaitTheirStatements
    /\ ReleasesAreOver

(* While a leader runs and holds the current grant, only time takes it      *)
(* away: no late release, of a predecessor or of its own earlier life, and  *)
(* no acquisition by another process does (compute-control.ts:28, 47-56).   *)
OnlyTimeEndsLeadership ==
    [][(\E p \in Procs : IsLeader(p) /\ IsLeader(p)' /\ lease[p] = fence) /\ live
       => (live' /\ fence' = fence) \/ Expire]_leaseVars

(* Once faults have stopped, the fleet ends up with one leader, whose grant *)
(* is the live one, and keeps it: a lease that leaked with a stopped or     *)
(* dead process runs out, and a superseded leader finds out at its next     *)
(* renewal (compute-control.ts:65-103).                                     *)
OneLeaderInTheEnd ==
    <>[](\E p \in Procs : /\ IsLeader(p) /\ live /\ lease[p] = fence
                          /\ \A q \in Procs \ {p} : ~IsLeader(q))
=============================================================================
