-------------------------- MODULE ComputeGovernor --------------------------
(***************************************************************************)
(* The governor of shared capacity (packages/db/compute-governor.ts): a    *)
(* call to a model or a provider first takes a permit of every resource    *)
(* policy it falls under, renews them while the physical request is under  *)
(* way, and releases them afterwards.                                      *)
(*                                                                         *)
(* A permit is one row of `compute_resource_leases`; its token belongs to  *)
(* the call that inserted it, so rows are named by (call, resource key).   *)
(* Acquisition holds the policy rows FOR UPDATE from the counts to the     *)
(* commit and is one step.  A renewal locks the permits but no policy, so  *)
(* the match and the commit are two steps, between which time passes and   *)
(* other calls acquire.                                                    *)
(***************************************************************************)
EXTENDS Naturals, FiniteSets

CONSTANTS
    Calls,           \* governed invocations, each made once
    Keys,            \* compute_resource_policies, enabled
    KeysOf,          \* the policies each call falls under
    Tenants,
    TenantOf,        \* tenant_key of each call
    Background,      \* calls of class BACKGROUND or HEAVY
    Capacity,        \* capacity of each policy
    TenantCapacity,  \* per_tenant_capacity
    Reserve,         \* interactive_reserve
    LeaseTicks,      \* lease_seconds, in clock ticks
    CallTicks        \* deadline of a physical request, from its grant

(* The checks on compute_resource_policies, and what makes the governor's   *)
(* callers safe: a permit outlives the request it admits.                   *)
ASSUME GovernorConstants ==
    /\ IsFiniteSet(Calls)
    /\ KeysOf \in [Calls -> SUBSET Keys]
    /\ TenantOf \in [Calls -> Tenants]
    /\ Background \subseteq Calls
    /\ {Capacity, TenantCapacity, LeaseTicks} \subseteq [Keys -> Nat \ {0}]
    /\ Reserve \in [Keys -> Nat]
    /\ \A k \in Keys : TenantCapacity[k] <= Capacity[k] /\ Reserve[k] <= Capacity[k]
    /\ CallTicks \in Nat
    /\ \A k \in Keys : CallTicks < LeaseTicks[k]

VARIABLES
    phase,     \* where the caller of each call is
    left,      \* ticks until a permit's expires_at; 0 = none, released or expired
    physical,  \* the provider works on the request
    age,       \* ticks since the grant, while it does
    renewal,   \* a renewal transaction holds the call's permits locked
    lost       \* renewalFailure

vars == <<phase, left, physical, age, renewal, lost>>

Phases == {"new", "calling", "ended", "done", "crashed"}

TypeOK ==
    /\ phase \in [Calls -> Phases]
    /\ left \in [Calls -> [Keys -> Nat]]
    /\ physical \in [Calls -> BOOLEAN]
    /\ age \in [Calls -> 0..CallTicks]
    /\ renewal \in [Calls -> BOOLEAN]
    /\ lost \in [Calls -> BOOLEAN]

Init ==
    /\ phase = [c \in Calls |-> "new"]
    /\ left = [c \in Calls |-> [k \in Keys |-> 0]]
    /\ physical = [c \in Calls |-> FALSE]
    /\ age = [c \in Calls |-> 0]
    /\ renewal = [c \in Calls |-> FALSE]
    /\ lost = [c \in Calls |-> FALSE]

-----------------------------------------------------------------------------
(* released_at IS NULL AND expires_at > clock_timestamp()                   *)
Live(k) == {c \in Calls : k \in KeysOf[c] /\ left[c][k] > 0}

OfTenant(t) == {c \in Calls : TenantOf[c] = t}

(* Fault: background borrows the idle reserve.                              *)
LimitWithoutReserve(c, k) == Capacity[k]

(* classLimit: background work cannot borrow the foreground reserve.        *)
ClassLimit(c, k) == IF c \in Background THEN Capacity[k] - Reserve[k] ELSE Capacity[k]

Admits(c, k) ==
    /\ Cardinality(Live(k)) < ClassLimit(c, k)
    /\ Cardinality(Live(k) \intersect OfTenant(TenantOf[c])) < TenantCapacity[k]

FullLease(c) == [left EXCEPT ![c] = [k \in Keys |-> IF k \in KeysOf[c] THEN LeaseTicks[k] ELSE 0]]

(* acquireComputeResourceLeases: all policies or none, and the request goes *)
(* out.  The commit's answer may be lost: the permits stay, the caller has  *)
(* an error and makes no request.                                           *)
Acquire(c) ==
    /\ phase[c] = "new"
    /\ \A k \in KeysOf[c] : Admits(c, k)
    /\ left' = FullLease(c)
    /\ \/ /\ phase' = [phase EXCEPT ![c] = "calling"]
          /\ physical' = [physical EXCEPT ![c] = TRUE]
       \/ /\ phase' = [phase EXCEPT ![c] = "done"]
          /\ UNCHANGED physical
    /\ UNCHANGED <<age, renewal, lost>>

(* Fault: the interval is not cleared when the invocation ends.             *)
TimerRunsOn(c) == phase[c] \in {"calling", "ended", "done"}

(* The interval timer of executeWithRenewedLeases.                          *)
TimerRuns(c) == phase[c] = "calling"

(* renewComputeResourceLeases up to the match: every permit of the set is   *)
(* live and gets locked, or ownership is lost and the call's signal aborts. *)
RenewMatch(c) ==
    /\ TimerRuns(c)
    /\ ~renewal[c] /\ ~lost[c]
    /\ IF \A k \in KeysOf[c] : left[c][k] > 0
       THEN renewal' = [renewal EXCEPT ![c] = TRUE] /\ UNCHANGED lost
       ELSE lost' = [lost EXCEPT ![c] = TRUE] /\ UNCHANGED renewal
    /\ UNCHANGED <<phase, left, physical, age>>

(* The update and the commit: they do not look at expires_at again.         *)
RenewCommit(c) ==
    /\ renewal[c]
    /\ left' = FullLease(c)
    /\ renewal' = [renewal EXCEPT ![c] = FALSE]
    /\ UNCHANGED <<phase, physical, age, lost>>

(* The transaction fails and is rolled back.                                *)
RenewFails(c) ==
    /\ renewal[c]
    /\ renewal' = [renewal EXCEPT ![c] = FALSE]
    /\ lost' = [lost EXCEPT ![c] = TRUE]
    /\ UNCHANGED <<phase, left, physical, age>>

(* The physical request ends by itself or at its deadline.  A caller that   *)
(* still waits for it clears the timer.                                     *)
CallEnds(c) ==
    /\ physical[c]
    /\ physical' = [physical EXCEPT ![c] = FALSE]
    /\ age' = [age EXCEPT ![c] = 0]
    /\ phase' = [phase EXCEPT ![c] = IF @ = "calling" THEN "ended" ELSE @]
    /\ UNCHANGED <<left, renewal, lost>>

(* The finally blocks: a pending renewal is awaited, then the permits are   *)
(* released, or the release fails and they run out.                         *)
Release(c) ==
    /\ phase[c] = "ended"
    /\ ~renewal[c]
    /\ phase' = [phase EXCEPT ![c] = "done"]
    /\ \/ left' = [left EXCEPT ![c] = [k \in Keys |-> 0]]
       \/ UNCHANGED left
    /\ UNCHANGED <<physical, age, renewal, lost>>

(* The caller's process dies; the provider may work on, and a renewal that  *)
(* reached its commit may still commit.                                     *)
Crash(c) ==
    /\ phase[c] \in {"calling", "ended"}
    /\ phase' = [phase EXCEPT ![c] = "crashed"]
    /\ UNCHANGED <<left, physical, age, renewal, lost>>

(* A tick of the database clock.  No request outlives its deadline.         *)
Tick ==
    /\ \A c \in Calls : physical[c] => age[c] < CallTicks
    /\ \E c \in Calls : physical[c] \/ \E k \in Keys : left[c][k] > 0
    /\ left' = [c \in Calls |->
                  [k \in Keys |-> IF left[c][k] > 0 THEN left[c][k] - 1 ELSE 0]]
    /\ age' = [c \in Calls |-> IF physical[c] THEN age[c] + 1 ELSE 0]
    /\ UNCHANGED <<phase, physical, renewal, lost>>

-----------------------------------------------------------------------------
Next ==
    \/ \E c \in Calls : Acquire(c) \/ RenewMatch(c) \/ RenewCommit(c) \/ RenewFails(c)
                        \/ CallEnds(c) \/ Release(c) \/ Crash(c)
    \/ Tick

Spec == Init /\ [][Next]_vars

(* Requests end at their deadline, transactions end, and time passes.       *)
Fairness ==
    /\ WF_vars(Tick)
    /\ \A c \in Calls : /\ WF_vars(CallEnds(c))
                        /\ WF_vars(RenewCommit(c) \/ RenewFails(c))
                        /\ WF_vars(Release(c))

FairSpec == Spec /\ Fairness

-----------------------------------------------------------------------------
(* PROPERTIES                                                               *)

(* Requests the provider works on under policy k.                           *)
AtWork(k) == {c \in Calls : physical[c] /\ k \in KeysOf[c]}

(* "expiry cannot authorize overlapping active calls" (compute-governor.ts: *)
(* 175-177): no crash, lost answer, failed or late renewal makes more       *)
(* requests overlap than the policy's capacity, than a tenant's share of    *)
(* it, or, for background work, than what the foreground reserve leaves     *)
(* (compute-governor.ts:68-76).                                             *)
PhysicalWithinCapacity ==
    \A k \in Keys :
        /\ Cardinality(AtWork(k)) <= Capacity[k]
        /\ Cardinality(AtWork(k) \intersect Background) <= Capacity[k] - Reserve[k]
        /\ \A t \in Tenants : Cardinality(AtWork(k) \intersect OfTenant(t)) <= TenantCapacity[k]

(* Why: a request at work is covered by all its permits, which have at      *)
(* least as long to live as its deadline is away.                           *)
WorkIsCovered ==
    \A c \in Calls : physical[c] =>
        /\ phase[c] \in {"calling", "crashed"}
        /\ \A k \in KeysOf[c] : left[c][k] + age[c] >= LeaseTicks[k]

GovernorInv == TypeOK /\ WorkIsCovered /\ PhysicalWithinCapacity

(* "never unbounded capacity" (compute-governor.ts:197): a permit its call  *)
(* no longer uses ends, whoever failed to release it.                       *)
CapacityComesBack ==
    \A c \in Calls, k \in Keys : left[c][k] > 0 ~> left[c][k] = 0
=============================================================================
