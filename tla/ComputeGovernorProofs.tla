----------------------- MODULE ComputeGovernorProofs -----------------------
(***************************************************************************)
(* Proofs about ComputeGovernor for any number of calls, policies and      *)
(* tenants and every length of leases and requests: the requests at work   *)
(* stay within each policy.                                                *)
(***************************************************************************)
EXTENDS ComputeGovernor, FiniteSetTheorems, TLAPS

(* Sets that do not grow stay within a bound; a set below the bound may     *)
(* gain one element.                                                        *)
LEMMA StaysWithin ==
  ASSUME NEW S, NEW T, NEW n \in Int, IsFiniteSet(S), T \subseteq S, Cardinality(S) <= n
  PROVE  Cardinality(T) <= n
  <1>1. Cardinality(T) <= Cardinality(S) /\ IsFiniteSet(T)
    BY FS_Subset
  <1> QED  BY <1>1, FS_CardinalityType

LEMMA GainsOne ==
  ASSUME NEW L, NEW T, NEW x, NEW n \in Nat,
         IsFiniteSet(L), Cardinality(L) < n, T \subseteq L \union {x}
  PROVE  Cardinality(T) <= n
  <1>1. /\ IsFiniteSet(L \union {x})
        /\ Cardinality(L \union {x}) = Cardinality(L) \/ Cardinality(L \union {x}) = Cardinality(L) + 1
    BY FS_AddElement
  <1>2. Cardinality(L) \in Nat
    BY FS_CardinalityType
  <1>3. Cardinality(L \union {x}) <= n
    BY <1>1, <1>2
  <1> QED  BY <1>1, <1>3, StaysWithin

(* The calls counted anywhere are finitely many.                            *)
LEMMA FiniteCalls ==
  ASSUME NEW S, S \subseteq Calls
  PROVE  IsFiniteSet(S)
  BY GovernorConstants, FS_Subset

(* A request at work is counted by the next acquisition.                    *)
LEMMA WorkIsLive ==
  ASSUME GovernorInv, NEW k \in Keys
  PROVE  AtWork(k) \subseteq Live(k)
  <1> SUFFICES ASSUME NEW c \in AtWork(k)  PROVE c \in Live(k)
    OBVIOUS
  <1>1. c \in Calls /\ physical[c] /\ k \in KeysOf[c]
    BY DEF AtWork
  <1>2. left[c][k] + age[c] >= LeaseTicks[k]
    BY <1>1 DEF GovernorInv, WorkIsCovered
  <1>3. left[c][k] \in Nat /\ age[c] \in Nat /\ age[c] <= CallTicks
    BY <1>1, GovernorConstants DEF GovernorInv, TypeOK
  <1>4. LeaseTicks[k] \in Nat /\ CallTicks \in Nat /\ CallTicks < LeaseTicks[k]
    BY GovernorConstants
  <1>5. left[c][k] > 0
    BY <1>2, <1>3, <1>4
  <1> QED  BY <1>1, <1>5 DEF Live

(* A step that starts no request keeps the requests within the policies.    *)
LEMMA NoNewWork ==
  ASSUME PhysicalWithinCapacity, \A c \in Calls : physical'[c] => physical[c]
  PROVE  PhysicalWithinCapacity'
  <1> SUFFICES ASSUME NEW k \in Keys
               PROVE  /\ Cardinality(AtWork(k)') <= Capacity[k]
                      /\ Cardinality(AtWork(k)' \intersect Background) <= Capacity[k] - Reserve[k]
                      /\ \A t \in Tenants :
                            Cardinality(AtWork(k)' \intersect OfTenant(t)) <= TenantCapacity[k]
    BY DEF PhysicalWithinCapacity, OfTenant
  <1>1. AtWork(k)' \subseteq AtWork(k) /\ AtWork(k) \subseteq Calls
    BY DEF AtWork
  <1>2. Capacity[k] \in Int /\ Capacity[k] - Reserve[k] \in Int /\ TenantCapacity[k] \in Int
    BY GovernorConstants
  <1>3. Cardinality(AtWork(k)') <= Capacity[k]
    BY <1>1, <1>2, FiniteCalls, StaysWithin DEF PhysicalWithinCapacity
  <1>4. Cardinality(AtWork(k)' \intersect Background) <= Capacity[k] - Reserve[k]
    <2>1. AtWork(k)' \intersect Background \subseteq AtWork(k) \intersect Background
      BY <1>1
    <2>2. Cardinality(AtWork(k) \intersect Background) <= Capacity[k] - Reserve[k]
      BY DEF PhysicalWithinCapacity
    <2>3. IsFiniteSet(AtWork(k) \intersect Background)
      BY <1>1, FiniteCalls
    <2> QED  BY <2>1, <2>2, <2>3, <1>2, StaysWithin
  <1>5. ASSUME NEW t \in Tenants
        PROVE  Cardinality(AtWork(k)' \intersect OfTenant(t)) <= TenantCapacity[k]
    <2>1. AtWork(k)' \intersect OfTenant(t) \subseteq AtWork(k) \intersect OfTenant(t)
      BY <1>1
    <2>2. Cardinality(AtWork(k) \intersect OfTenant(t)) <= TenantCapacity[k]
      BY DEF PhysicalWithinCapacity
    <2>3. IsFiniteSet(AtWork(k) \intersect OfTenant(t))
      BY <1>1, FiniteCalls
    <2> QED  BY <2>1, <2>2, <2>3, <1>2, StaysWithin
  <1> QED  BY <1>3, <1>4, <1>5

LEMMA AcquireWithinCapacity ==
  ASSUME GovernorInv, NEW c \in Calls, Acquire(c)
  PROVE  PhysicalWithinCapacity'
  <1> SUFFICES ASSUME NEW k \in Keys
               PROVE  /\ Cardinality(AtWork(k)') <= Capacity[k]
                      /\ Cardinality(AtWork(k)' \intersect Background) <= Capacity[k] - Reserve[k]
                      /\ \A t \in Tenants :
                            Cardinality(AtWork(k)' \intersect OfTenant(t)) <= TenantCapacity[k]
    BY DEF PhysicalWithinCapacity, OfTenant
  <1>1. /\ \A d \in Calls \ {c} : physical'[d] = physical[d]
        /\ \A j \in KeysOf[c] : Admits(c, j)
    BY DEF Acquire, GovernorInv, TypeOK
  <1>2. AtWork(k)' \subseteq AtWork(k) \union {c}
    BY <1>1 DEF AtWork
  <1>3. k \notin KeysOf[c] => AtWork(k)' \subseteq AtWork(k)
    BY <1>1 DEF AtWork
  <1>4. AtWork(k) \subseteq Live(k) /\ Live(k) \subseteq Calls
    BY WorkIsLive DEF Live
  <1>5. /\ Capacity[k] \in Nat /\ Reserve[k] \in Nat /\ TenantCapacity[k] \in Nat
        /\ Capacity[k] - Reserve[k] \in Nat
    BY GovernorConstants
  <1>6. /\ Cardinality(AtWork(k)) <= Capacity[k]
        /\ Cardinality(AtWork(k) \intersect Background) <= Capacity[k] - Reserve[k]
        /\ \A t \in Tenants : Cardinality(AtWork(k) \intersect OfTenant(t)) <= TenantCapacity[k]
    BY DEF GovernorInv, PhysicalWithinCapacity
  <1>7. CASE k \in KeysOf[c]
    <2>1. /\ Cardinality(Live(k)) < ClassLimit(c, k)
          /\ Cardinality(Live(k) \intersect OfTenant(TenantOf[c])) < TenantCapacity[k]
      BY <1>1, <1>7 DEF Admits
    <2>2. Cardinality(Live(k)) \in Nat /\ IsFiniteSet(Live(k))
      BY <1>4, FiniteCalls, FS_CardinalityType
    <2>3. Cardinality(Live(k)) < Capacity[k]
      BY <2>1, <2>2, <1>5 DEF ClassLimit
    <2>4. Cardinality(AtWork(k)') <= Capacity[k]
      <3>1. AtWork(k)' \subseteq Live(k) \union {c}
        BY <1>2, <1>4
      <3> QED  BY <3>1, <2>2, <2>3, <1>5, GainsOne
    <2>5. Cardinality(AtWork(k)' \intersect Background) <= Capacity[k] - Reserve[k]
      <3>1. CASE c \in Background
        <4>1. Cardinality(Live(k)) < Capacity[k] - Reserve[k]
          BY <3>1, <2>1 DEF ClassLimit
        <4>2. AtWork(k)' \intersect Background \subseteq Live(k) \union {c}
          BY <1>2, <1>4
        <4>3. Capacity[k] - Reserve[k] \in Nat /\ IsFiniteSet(Live(k))
          BY <2>2, <1>5
        <4> DEFINE n == Capacity[k] - Reserve[k]
                   T == AtWork(k)' \intersect Background
        <4> HIDE DEF n, T
        <4>4. n \in Nat /\ Cardinality(Live(k)) < n /\ T \subseteq Live(k) \union {c}
          BY <4>1, <4>2, <4>3 DEF n, T
        <4>5. Cardinality(T) <= n
          BY <4>3, <4>4, GainsOne
        <4> QED  BY <4>5 DEF n, T
      <3>2. CASE c \notin Background
        <4>1. AtWork(k)' \intersect Background \subseteq AtWork(k) \intersect Background
          BY <3>2, <1>2
        <4>2. IsFiniteSet(AtWork(k) \intersect Background)
          BY <1>4, FiniteCalls
        <4> QED  BY <4>1, <4>2, <1>5, <1>6, StaysWithin
      <3> QED  BY <3>1, <3>2
    <2>6. ASSUME NEW t \in Tenants
          PROVE  Cardinality(AtWork(k)' \intersect OfTenant(t)) <= TenantCapacity[k]
      <3>1. CASE t = TenantOf[c]
        <4>1. AtWork(k)' \intersect OfTenant(t) \subseteq (Live(k) \intersect OfTenant(t)) \union {c}
          BY <1>2, <1>4
        <4>2. IsFiniteSet(Live(k) \intersect OfTenant(t))
          BY <1>4, FiniteCalls
        <4> QED  BY <3>1, <4>1, <4>2, <2>1, <1>5, GainsOne
      <3>2. CASE t # TenantOf[c]
        <4>1. AtWork(k)' \intersect OfTenant(t) \subseteq AtWork(k) \intersect OfTenant(t)
          BY <3>2, <1>2 DEF OfTenant
        <4>2. IsFiniteSet(AtWork(k) \intersect OfTenant(t))
          BY <1>4, FiniteCalls
        <4>3. Cardinality(AtWork(k) \intersect OfTenant(t)) <= TenantCapacity[k]
          BY DEF GovernorInv, PhysicalWithinCapacity
        <4>4. TenantCapacity[k] \in Int
          BY <1>5
        <4> QED  BY <4>1, <4>2, <4>3, <4>4, StaysWithin
      <3> QED  BY <3>1, <3>2
    <2> QED  BY <2>4, <2>5, <2>6
  <1>8. CASE k \notin KeysOf[c]
    <2>1. AtWork(k)' \subseteq AtWork(k)
      BY <1>3, <1>8
    <2>2. IsFiniteSet(AtWork(k)) /\ IsFiniteSet(AtWork(k) \intersect Background)
          /\ \A t \in Tenants : IsFiniteSet(AtWork(k) \intersect OfTenant(t))
      BY <1>4, FiniteCalls
    <2>3. Cardinality(AtWork(k)') <= Capacity[k]
      BY <2>1, <2>2, <1>5, <1>6, StaysWithin
    <2>4. Cardinality(AtWork(k)' \intersect Background) <= Capacity[k] - Reserve[k]
      <3>1. AtWork(k)' \intersect Background \subseteq AtWork(k) \intersect Background
        BY <2>1
      <3> QED  BY <3>1, <2>2, <1>5, <1>6, StaysWithin
    <2>5. ASSUME NEW t \in Tenants
          PROVE  Cardinality(AtWork(k)' \intersect OfTenant(t)) <= TenantCapacity[k]
      <3>1. AtWork(k)' \intersect OfTenant(t) \subseteq AtWork(k) \intersect OfTenant(t)
        BY <2>1
      <3>2. IsFiniteSet(AtWork(k) \intersect OfTenant(t))
        BY <1>4, FiniteCalls
      <3>3. Cardinality(AtWork(k) \intersect OfTenant(t)) <= TenantCapacity[k]
        BY DEF GovernorInv, PhysicalWithinCapacity
      <3>4. TenantCapacity[k] \in Int
        BY <1>5
      <3> QED  BY <3>1, <3>2, <3>3, <3>4, StaysWithin
    <2> QED  BY <2>3, <2>4, <2>5
  <1> QED  BY <1>7, <1>8

LEMMA GovernorInitInv == Init => GovernorInv
  <1> SUFFICES ASSUME Init  PROVE GovernorInv
    OBVIOUS
  <1>1. TypeOK
    BY GovernorConstants DEF Init, TypeOK, Phases
  <1>2. WorkIsCovered
    BY DEF Init, WorkIsCovered
  <1>3. ASSUME NEW S, S \subseteq Calls, \A c \in S : physical[c]
        PROVE  Cardinality(S) = 0
    <2>1. S = {}
      BY <1>3 DEF Init
    <2> QED  BY <2>1, FS_EmptySet
  <1>4. PhysicalWithinCapacity
    <2> SUFFICES ASSUME NEW k \in Keys
                 PROVE  /\ Cardinality(AtWork(k)) <= Capacity[k]
                        /\ Cardinality(AtWork(k) \intersect Background) <= Capacity[k] - Reserve[k]
                        /\ \A t \in Tenants :
                              Cardinality(AtWork(k) \intersect OfTenant(t)) <= TenantCapacity[k]
      BY DEF PhysicalWithinCapacity
    <2>1. /\ 0 <= Capacity[k] /\ 0 <= Capacity[k] - Reserve[k] /\ 0 <= TenantCapacity[k]
      BY GovernorConstants
    <2>2. AtWork(k) \subseteq Calls /\ \A c \in AtWork(k) : physical[c]
      BY DEF AtWork
    <2>3. /\ Cardinality(AtWork(k)) = 0
          /\ Cardinality(AtWork(k) \intersect Background) = 0
          /\ \A t \in Tenants : Cardinality(AtWork(k) \intersect OfTenant(t)) = 0
      BY <2>2, <1>3
    <2> QED  BY <2>1, <2>3
  <1> QED  BY <1>1, <1>2, <1>4 DEF GovernorInv

(* Every permit of a call at its full length.                               *)
LEMMA FullLeaseValue ==
  ASSUME GovernorInv, NEW c \in Calls, left' = FullLease(c)
  PROVE  /\ left' \in [Calls -> [Keys -> Nat]]
         /\ \A d \in Calls \ {c} : left'[d] = left[d]
         /\ \A k \in KeysOf[c] : left'[c][k] = LeaseTicks[k]
  <1>1. left \in [Calls -> [Keys -> Nat]] /\ LeaseTicks \in [Keys -> Nat]
        /\ KeysOf[c] \subseteq Keys
    BY GovernorConstants DEF GovernorInv, TypeOK
  <1>2. [k \in Keys |-> IF k \in KeysOf[c] THEN LeaseTicks[k] ELSE 0] \in [Keys -> Nat]
    BY <1>1
  <1> QED  BY <1>1, <1>2 DEF FullLease

LEMMA AcquireInv ==
  ASSUME GovernorInv, NEW c \in Calls, Acquire(c)
  PROVE  GovernorInv'
  <1>1. /\ phase[c] = "new" /\ left' = FullLease(c)
        /\ UNCHANGED <<age, renewal, lost>>
    BY DEF Acquire
  <1>2. /\ phase' \in [Calls -> Phases] /\ physical' \in [Calls -> BOOLEAN]
        /\ \A d \in Calls \ {c} : phase'[d] = phase[d] /\ physical'[d] = physical[d]
        /\ physical'[c] => physical[c] \/ phase'[c] = "calling"
    BY DEF Acquire, GovernorInv, TypeOK, Phases
  <1>3. /\ left' \in [Calls -> [Keys -> Nat]]
        /\ \A d \in Calls \ {c} : left'[d] = left[d]
        /\ \A k \in KeysOf[c] : left'[c][k] = LeaseTicks[k]
    BY <1>1, FullLeaseValue
  <1>4. TypeOK'
    BY <1>1, <1>2, <1>3 DEF GovernorInv, TypeOK
  <1>5. WorkIsCovered'
    <2> SUFFICES ASSUME NEW d \in Calls, physical'[d]
                 PROVE  /\ phase'[d] \in {"calling", "crashed"}
                        /\ \A k \in KeysOf[d] : left'[d][k] + age'[d] >= LeaseTicks[k]
      BY DEF WorkIsCovered
    <2>1. CASE d # c
      BY <2>1, <1>1, <1>2, <1>3 DEF GovernorInv, WorkIsCovered
    <2>2. CASE d = c
      <3>1. ~physical[c]
        BY <1>1 DEF GovernorInv, WorkIsCovered
      <3>2. \A k \in KeysOf[c] : LeaseTicks[k] \in Nat /\ age[c] \in Nat
        BY GovernorConstants DEF GovernorInv, TypeOK
      <3> QED  BY <2>2, <3>1, <3>2, <1>1, <1>2, <1>3
    <2> QED  BY <2>1, <2>2
  <1> QED  BY <1>4, <1>5, AcquireWithinCapacity DEF GovernorInv

LEMMA RenewCommitInv ==
  ASSUME GovernorInv, NEW c \in Calls, RenewCommit(c)
  PROVE  GovernorInv'
  <1>1. left' = FullLease(c) /\ UNCHANGED <<phase, physical, age, lost>>
        /\ renewal' = [renewal EXCEPT ![c] = FALSE]
    BY DEF RenewCommit
  <1>2. /\ left' \in [Calls -> [Keys -> Nat]]
        /\ \A d \in Calls \ {c} : left'[d] = left[d]
        /\ \A k \in KeysOf[c] : left'[c][k] = LeaseTicks[k]
    BY <1>1, FullLeaseValue
  <1>3. TypeOK'
    BY <1>1, <1>2 DEF GovernorInv, TypeOK
  <1>4. WorkIsCovered'
    <2>1. \A d \in Calls, k \in KeysOf[c] : LeaseTicks[k] \in Nat /\ age[d] \in Nat
      BY GovernorConstants DEF GovernorInv, TypeOK
    <2> QED  BY <2>1, <1>1, <1>2 DEF GovernorInv, WorkIsCovered
  <1>5. PhysicalWithinCapacity'
    BY <1>1, NoNewWork DEF GovernorInv
  <1> QED  BY <1>3, <1>4, <1>5 DEF GovernorInv

(* The steps that touch neither permits nor requests.                       *)
LEMMA RenewInv ==
  ASSUME GovernorInv, NEW c \in Calls, RenewMatch(c) \/ RenewFails(c)
  PROVE  GovernorInv'
  <1>1. /\ UNCHANGED <<phase, left, physical, age>>
        /\ renewal' \in [Calls -> BOOLEAN] /\ lost' \in [Calls -> BOOLEAN]
    BY DEF RenewMatch, RenewFails, GovernorInv, TypeOK
  <1>2. PhysicalWithinCapacity'
    BY <1>1, NoNewWork DEF GovernorInv
  <1> QED  BY <1>1, <1>2 DEF GovernorInv, TypeOK, WorkIsCovered

LEMMA CallEndsInv ==
  ASSUME GovernorInv, NEW c \in Calls, CallEnds(c)
  PROVE  GovernorInv'
  <1>1. /\ UNCHANGED <<left, renewal, lost>>
        /\ physical' = [physical EXCEPT ![c] = FALSE]
        /\ age' = [age EXCEPT ![c] = 0]
        /\ phase' = [phase EXCEPT ![c] = IF phase[c] = "calling" THEN "ended" ELSE phase[c]]
    BY DEF CallEnds
  <1>2. TypeOK'
    <2>1. 0 \in 0..CallTicks
      BY GovernorConstants
    <2>2. age' \in [Calls -> 0..CallTicks] /\ physical' \in [Calls -> BOOLEAN]
      BY <1>1, <2>1 DEF GovernorInv, TypeOK
    <2>3. phase' \in [Calls -> Phases]
      BY <1>1 DEF GovernorInv, TypeOK, Phases
    <2> QED  BY <1>1, <2>2, <2>3 DEF GovernorInv, TypeOK
  <1>3. /\ ~physical'[c]
        /\ \A d \in Calls \ {c} : /\ physical'[d] = physical[d] /\ age'[d] = age[d]
                                   /\ phase'[d] = phase[d]
    BY <1>1 DEF GovernorInv, TypeOK
  <1>4. WorkIsCovered'
    BY <1>1, <1>3 DEF GovernorInv, WorkIsCovered
  <1>5. PhysicalWithinCapacity'
    BY <1>3, NoNewWork DEF GovernorInv
  <1> QED  BY <1>2, <1>4, <1>5 DEF GovernorInv

LEMMA ReleaseInv ==
  ASSUME GovernorInv, NEW c \in Calls, Release(c)
  PROVE  GovernorInv'
  <1>1. /\ phase[c] = "ended" /\ phase' = [phase EXCEPT ![c] = "done"]
        /\ UNCHANGED <<physical, age, renewal, lost>>
        /\ left' = left \/ left' = [left EXCEPT ![c] = [k \in Keys |-> 0]]
    BY DEF Release
  <1>2. TypeOK'
    <2>1. left' \in [Calls -> [Keys -> Nat]]
      <3>1. [k \in Keys |-> 0] \in [Keys -> Nat]
        OBVIOUS
      <3> QED  BY <3>1, <1>1 DEF GovernorInv, TypeOK
    <2>2. phase' \in [Calls -> Phases]
      BY <1>1 DEF GovernorInv, TypeOK, Phases
    <2> QED  BY <1>1, <2>1, <2>2 DEF GovernorInv, TypeOK
  <1>3. ~physical[c] /\ \A d \in Calls \ {c} : left'[d] = left[d] /\ phase'[d] = phase[d]
    BY <1>1 DEF GovernorInv, TypeOK, WorkIsCovered
  <1>4. WorkIsCovered'
    BY <1>1, <1>3 DEF GovernorInv, WorkIsCovered
  <1>5. PhysicalWithinCapacity'
    BY <1>1, NoNewWork DEF GovernorInv
  <1> QED  BY <1>2, <1>4, <1>5 DEF GovernorInv

LEMMA CrashInv ==
  ASSUME GovernorInv, NEW c \in Calls, Crash(c)
  PROVE  GovernorInv'
  <1>1. /\ phase' = [phase EXCEPT ![c] = "crashed"]
        /\ UNCHANGED <<left, physical, age, renewal, lost>>
    BY DEF Crash
  <1>2. TypeOK'
    BY <1>1 DEF GovernorInv, TypeOK, Phases
  <1>3. WorkIsCovered'
    BY <1>1 DEF GovernorInv, TypeOK, WorkIsCovered
  <1>4. PhysicalWithinCapacity'
    BY <1>1, NoNewWork DEF GovernorInv
  <1> QED  BY <1>2, <1>3, <1>4 DEF GovernorInv

LEMMA TickInv ==
  ASSUME GovernorInv, Tick
  PROVE  GovernorInv'
  <1>1. /\ \A c \in Calls : physical[c] => age[c] < CallTicks
        /\ left' = [c \in Calls |->
                      [k \in Keys |-> IF left[c][k] > 0 THEN left[c][k] - 1 ELSE 0]]
        /\ age' = [c \in Calls |-> IF physical[c] THEN age[c] + 1 ELSE 0]
        /\ UNCHANGED <<phase, physical, renewal, lost>>
    BY DEF Tick
  <1>2. \A c \in Calls, k \in Keys : left[c][k] \in Nat
    BY DEF GovernorInv, TypeOK
  <1>3. \A c \in Calls : age[c] \in 0..CallTicks
    BY DEF GovernorInv, TypeOK
  <1>4. left' \in [Calls -> [Keys -> Nat]] /\ age' \in [Calls -> 0..CallTicks]
    BY <1>1, <1>2, <1>3, GovernorConstants
  <1>5. TypeOK'
    BY <1>1, <1>4 DEF GovernorInv, TypeOK
  <1>6. WorkIsCovered'
    <2> SUFFICES ASSUME NEW c \in Calls, physical[c], NEW k \in KeysOf[c]
                 PROVE  /\ phase[c] \in {"calling", "crashed"}
                        /\ left'[c][k] + age'[c] >= LeaseTicks[k]
      BY <1>1, GovernorConstants DEF WorkIsCovered, GovernorInv
    <2>1. k \in Keys /\ LeaseTicks[k] \in Nat
      BY GovernorConstants
    <2>2. phase[c] \in {"calling", "crashed"} /\ left[c][k] + age[c] >= LeaseTicks[k]
      BY DEF GovernorInv, WorkIsCovered
    <2>3. left'[c][k] = IF left[c][k] > 0 THEN left[c][k] - 1 ELSE 0
      BY <1>1, <2>1
    <2>4. age'[c] = age[c] + 1 /\ age[c] \in Nat
      BY <1>1, <1>3
    <2> QED  BY <1>2, <2>1, <2>2, <2>3, <2>4
  <1>7. PhysicalWithinCapacity'
    BY <1>1, NoNewWork DEF GovernorInv
  <1> QED  BY <1>5, <1>6, <1>7 DEF GovernorInv

LEMMA GovernorStepInv ==
  ASSUME GovernorInv, [Next]_vars
  PROVE  GovernorInv'
  <1>1. CASE UNCHANGED vars
    <2>1. PhysicalWithinCapacity'
      BY <1>1, NoNewWork DEF vars, GovernorInv
    <2> QED  BY <1>1, <2>1 DEF vars, GovernorInv, TypeOK, WorkIsCovered
  <1> QED
    BY <1>1, AcquireInv, RenewCommitInv, RenewInv, CallEndsInv, ReleaseInv, CrashInv, TickInv
    DEF Next

(* A request at work is covered by permits that outlive it, and the         *)
(* requests at work stay within each policy, in every reachable state.      *)
THEOREM GovernorInvHolds == Spec => []GovernorInv
  BY GovernorInitInv, GovernorStepInv, PTL DEF Spec

(* No more requests overlap than the capacity, the tenant's share and the   *)
(* foreground reserve allow, although renewals may revive expired permits.  *)
THEOREM NoOverlapBeyondCapacity == Spec => []PhysicalWithinCapacity
  <1>1. GovernorInv => PhysicalWithinCapacity
    BY DEF GovernorInv
  <1> QED  BY <1>1, GovernorInvHolds, PTL
=============================================================================
