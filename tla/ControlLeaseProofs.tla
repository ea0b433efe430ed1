------------------------- MODULE ControlLeaseProofs -------------------------
(***************************************************************************)
(* Proofs about ControlLease for every set of processes and any number of  *)
(* faults: LeaseInv is inductive, hence a fence has one owner and only     *)
(* time ends the leadership of a running leader.                           *)
(***************************************************************************)
EXTENDS ControlLease, TLAPS

LEMMA LeaseInitInv == LeaseInit => LeaseInv
  <1> SUFFICES ASSUME LeaseInit  PROVE  LeaseInv
    OBVIOUS
  <1>1. LeaseTypeOK
    <2>1. NoCall \in Call
      BY DEF Call
    <2>2. call \in [Procs -> Call]
      BY <2>1 DEF LeaseInit
    <2>3. faults \in 0..MaxFaults
      BY LeaseConstants DEF LeaseInit
    <2>4. mode \in [Procs -> {"running", "stopping", "dead"}] /\ lease \in [Procs -> Nat]
      BY DEF LeaseInit
    <2> QED  BY <2>2, <2>3, <2>4 DEF LeaseInit, LeaseTypeOK
  <1>2. \A p \in Procs : lease[p] = 0 /\ call[p] = NoCall
    BY DEF LeaseInit
  <1>3. \A p \in Procs : Knows(p) = {}
    BY <1>2 DEF Knows, NoCall
  <1> QED
    BY <1>1, <1>2, <1>3 DEF LeaseInit, LeaseInv, FenceHasOneOwner,
       CallsAwaitTheirStatements, ReleasesAreOver

(* What LeaseInv says of one process and of one statement.                  *)
LEMMA LeaseInvAt ==
  ASSUME LeaseInv, NEW p \in Procs
  PROVE  /\ mode[p] \in {"running", "stopping", "dead"}
         /\ lease[p] \in Nat
         /\ call[p].op \in {"none", "acquire", "renew"}
         /\ call[p].answered \in BOOLEAN
         /\ call[p].fence \in Nat
         /\ lease[p] <= fence
         /\ call[p].fence <= fence
  <1>1. lease[p] \in Nat /\ call[p] \in Call /\ fence \in Nat
    BY DEF LeaseInv, LeaseTypeOK
  <1>2. call[p].op \in {"none", "acquire", "renew"} /\ call[p].answered \in BOOLEAN
        /\ call[p].fence \in Nat
    <2>1. CASE call[p] = NoCall
      BY <2>1 DEF NoCall
    <2>2. CASE call[p] # NoCall
      <3>1. call[p] \in [op : {"acquire", "renew"}, answered : BOOLEAN, fence : Nat]
        BY <2>2, <1>1 DEF Call
      <3> QED  BY <3>1
    <2> QED  BY <2>1, <2>2
  <1>3. lease[p] <= fence /\ call[p].fence <= fence
    BY <1>1, <1>2 DEF LeaseInv, FenceHasOneOwner, Knows
  <1> QED
    BY <1>1, <1>2, <1>3 DEF LeaseInv, LeaseTypeOK

(* A step under which no process learns a fence, the row's fence stays and  *)
(* no process starts to run keeps fences apart and releases over.           *)
LEMMA NobodyLearns ==
  ASSUME LeaseInv,
         \A p \in Procs : Knows(p)' \subseteq Knows(p),
         fence' = fence,
         \A p \in Procs : mode'[p] = "running" => mode[p] = "running" \/ Knows(p)' = {},
         \A s \in wire' : s.op = "release" => s \in wire
  PROVE  FenceHasOneOwner' /\ ReleasesAreOver'
  <1>1. FenceHasOneOwner'
    BY DEF LeaseInv, FenceHasOneOwner
  <1>2. ReleasesAreOver'
    BY DEF LeaseInv, ReleasesAreOver
  <1> QED  BY <1>1, <1>2

LEMMA TickInv ==
  ASSUME LeaseInv, NEW p \in Procs, Tick(p)
  PROVE  LeaseInv'
  <1> DEFINE op == IF lease[p] = 0 THEN "acquire" ELSE "renew"
             s0 == [op |-> op, fence |-> lease[p], by |-> p]
             c0 == [op |-> op, answered |-> FALSE, fence |-> lease[p]]
  <1>1. /\ call' = [call EXCEPT ![p] = c0]
        /\ wire' = wire \union {s0}
        /\ call[p] = NoCall
        /\ mode[p] = "running"
        /\ UNCHANGED <<fence, live, mode, lease, faults>>
    BY DEF Tick
  <1>2. LeaseTypeOK'
    BY <1>1, LeaseConstants DEF LeaseInv, LeaseTypeOK, Call, Statement, NoCall
  <1>3. \A q \in Procs : Knows(q)' = Knows(q)
    BY <1>1 DEF LeaseInv, LeaseTypeOK, Knows, NoCall
  <1>4. FenceHasOneOwner' /\ ReleasesAreOver'
    BY <1>1, <1>3, NobodyLearns
  <1>5. ASSUME NEW s \in wire', s.by \in Procs
        PROVE  call'[s.by] = [op |-> s.op, answered |-> FALSE, fence |-> s.fence]
    <2>1. CASE s = s0
      BY <2>1, <1>1 DEF LeaseInv, LeaseTypeOK
    <2>2. CASE s \in wire
      <3>1. s.op # "none"
        BY <2>2 DEF LeaseInv, LeaseTypeOK, Statement
      <3>2. call[s.by].op = s.op
        <4>1. call[s.by] = [op |-> s.op, answered |-> FALSE, fence |-> s.fence]
          BY <2>2, <1>5 DEF LeaseInv, CallsAwaitTheirStatements
        <4> QED  BY <4>1
      <3>3. s.by # p
        BY <3>1, <3>2, <1>1 DEF NoCall
      <3> QED  BY <3>3, <2>2, <1>1, <1>5 DEF LeaseInv, CallsAwaitTheirStatements, LeaseTypeOK
    <2> QED  BY <2>1, <2>2, <1>1
  <1>6. CallsAwaitTheirStatements'
    BY <1>1, <1>5 DEF LeaseInv, CallsAwaitTheirStatements, LeaseTypeOK
  <1> QED
    BY <1>2, <1>4, <1>6 DEF LeaseInv

(* What Return does to the calls and the wire.                              *)
LEMMA ReturnCalls ==
  ASSUME LeaseInv, NEW s \in wire, NEW f \in Nat, Return(s, f), s.op # "release" \/ s.by = Nobody
  PROVE  /\ call' \in [Procs -> Call]
         /\ wire' \subseteq Statement
         /\ CallsAwaitTheirStatements'
         /\ \A p \in Procs : p # s.by => call'[p] = call[p]
         /\ s.by \in Procs => call'[s.by] = [op |-> s.op, answered |-> TRUE, fence |-> f]
                              /\ call[s.by] = [op |-> s.op, answered |-> FALSE, fence |-> s.fence]
                              /\ call'[s.by].fence = f
                              /\ call[s.by].fence = s.fence
         /\ UNCHANGED <<mode, lease, faults>>
  <1>1. s \in Statement /\ call \in [Procs -> Call]
    BY DEF LeaseInv, LeaseTypeOK
  <1>2. s.by \in Procs => s.op \in {"acquire", "renew"}
    BY <1>1, LeaseConstants DEF Statement
  <1>3. /\ call' \in [Procs -> Call]
        /\ \A p \in Procs : p # s.by => call'[p] = call[p]
        /\ s.by \in Procs => call'[s.by] = [op |-> s.op, answered |-> TRUE, fence |-> f]
    BY <1>1, <1>2 DEF Return, Call
  <1>4. wire' = wire \ {s} /\ UNCHANGED <<mode, lease, faults>>
    BY DEF Return
  <1>5. s.by \in Procs => call[s.by] = [op |-> s.op, answered |-> FALSE, fence |-> s.fence]
    BY DEF LeaseInv, CallsAwaitTheirStatements
  <1>6. \A t \in wire' : t.by \in Procs =>
            call'[t.by] = [op |-> t.op, answered |-> FALSE, fence |-> t.fence]
    <2> SUFFICES ASSUME NEW t \in wire', t.by \in Procs
                 PROVE  call'[t.by] = [op |-> t.op, answered |-> FALSE, fence |-> t.fence]
      OBVIOUS
    <2>1. call[t.by] = [op |-> t.op, answered |-> FALSE, fence |-> t.fence]
      BY <1>4 DEF LeaseInv, CallsAwaitTheirStatements
    <2>2. t.by # s.by
      <3> SUFFICES ASSUME t.by = s.by  PROVE  FALSE
        OBVIOUS
      <3>1. t.op = s.op /\ t.fence = s.fence
        BY <2>1, <1>5
      <3>2. t \in Statement
        BY <1>4 DEF LeaseInv, LeaseTypeOK
      <3> QED  BY <3>1, <3>2, <1>1, <1>4 DEF Statement
    <2> QED  BY <2>1, <2>2, <1>3
  <1>7. \A p \in Procs : /\ mode'[p] = "dead" => lease'[p] = 0 /\ call'[p] = NoCall
                         /\ call'[p].op = "none" => call'[p] = NoCall
    <2> SUFFICES ASSUME NEW p \in Procs
                 PROVE  /\ mode'[p] = "dead" => lease'[p] = 0 /\ call'[p] = NoCall
                        /\ call'[p].op = "none" => call'[p] = NoCall
      OBVIOUS
    <2>1. CASE p = s.by
      <3>1. call'[p].op # "none" /\ call[p].op # "none"
        BY <2>1, <1>2, <1>3, <1>5
      <3>2. call[p] # NoCall
        BY <3>1 DEF NoCall
      <3> QED  BY <3>1, <3>2, <1>4 DEF LeaseInv, CallsAwaitTheirStatements
    <2>2. CASE p # s.by
      BY <2>2, <1>3, <1>4 DEF LeaseInv, CallsAwaitTheirStatements
    <2> QED  BY <2>1, <2>2
  <1>8. wire' \subseteq Statement
    BY <1>4 DEF LeaseInv, LeaseTypeOK
  <1>9. s.by \in Procs => call'[s.by].fence = f /\ call[s.by].fence = s.fence
    BY <1>3, <1>5
  <1> QED
    BY <1>3, <1>4, <1>5, <1>6, <1>7, <1>8, <1>9 DEF CallsAwaitTheirStatements

LEMMA ExecuteAcquireInv ==
  ASSUME LeaseInv, NEW s \in wire, ExecuteAcquire(s)
  PROVE  LeaseInv'
  <1>1. s.op = "acquire" /\ fence \in Nat
    BY DEF ExecuteAcquire, LeaseInv, LeaseTypeOK
  <1>2. CASE live
    <2>1. Return(s, 0) /\ fence' = fence /\ live' = live
      BY <1>2 DEF ExecuteAcquire
    <2>2. /\ call' \in [Procs -> Call] /\ wire' \subseteq Statement
          /\ CallsAwaitTheirStatements'
          /\ \A p \in Procs : p # s.by => call'[p] = call[p]
          /\ s.by \in Procs => call'[s.by].fence = 0
      BY <2>1, <1>1, ReturnCalls
    <2>3. \A p \in Procs : Knows(p)' \subseteq Knows(p)
      BY <2>1, <2>2 DEF Knows, Return
    <2>4. FenceHasOneOwner' /\ ReleasesAreOver'
      BY <2>1, <2>3, NobodyLearns DEF Return
    <2> QED
      BY <2>1, <2>2, <2>4 DEF Return, LeaseInv, LeaseTypeOK
  <1>3. CASE ~live
    <2>1. Return(s, fence + 1) /\ fence' = fence + 1 /\ live' = TRUE
      BY <1>3 DEF ExecuteAcquire
    <2>2. /\ call' \in [Procs -> Call] /\ wire' \subseteq Statement
          /\ CallsAwaitTheirStatements'
          /\ \A p \in Procs : p # s.by => call'[p] = call[p]
          /\ s.by \in Procs => call'[s.by].fence = fence + 1
          /\ UNCHANGED <<mode, lease, faults>>
      <3>1. fence + 1 \in Nat /\ s.op # "release"
        BY <1>1
      <3> QED  BY <2>1, <3>1, ReturnCalls
    <2>3. \A p \in Procs : /\ p # s.by => Knows(p)' = Knows(p)
                           /\ Knows(p)' \subseteq Knows(p) \union {fence + 1}
      BY <2>1, <2>2 DEF Knows, Return
    <2>4. \A p \in Procs : \A f \in Knows(p) : f \in 1..fence
      BY LeaseInvAt DEF Knows
    <2>5. FenceHasOneOwner'
      <3> SUFFICES ASSUME NEW p \in Procs
                   PROVE  /\ \A f \in Knows(p)' : f <= fence'
                          /\ \A q \in Procs \ {p} : Knows(p)' \intersect Knows(q)' = {}
        BY DEF FenceHasOneOwner
      <3>1. \A f \in Knows(p)' : f <= fence'
        BY <2>1, <2>3, <2>4, <1>1
      <3>2. ASSUME NEW q \in Procs \ {p}, NEW f \in Knows(p)', f \in Knows(q)'
            PROVE  FALSE
        <4>1. f \notin Knows(p) \/ f \notin Knows(q)
          BY DEF LeaseInv, FenceHasOneOwner
        <4>2. f = fence + 1
          BY <4>1, <3>2, <2>3
        <4>3. fence + 1 \notin Knows(p) /\ fence + 1 \notin Knows(q)
          BY <2>4, <1>1
        <4> QED  BY <4>2, <4>3, <3>2, <2>3
      <3> QED  BY <3>1, <3>2
    <2>6. ReleasesAreOver'
      <3> SUFFICES ASSUME NEW t \in wire', t.op = "release"
                   PROVE  /\ t.by = Nobody
                          /\ t.fence \in 1..fence'
                          /\ \A p \in Procs : mode'[p] = "running" => t.fence \notin Knows(p)'
        BY DEF ReleasesAreOver
      <3>1. t \in wire /\ mode' = mode
        BY <2>1 DEF Return
      <3>2. /\ t.by = Nobody /\ t.fence \in 1..fence
            /\ \A p \in Procs : mode[p] = "running" => t.fence \notin Knows(p)
        BY <3>1 DEF LeaseInv, ReleasesAreOver
      <3> QED  BY <3>1, <3>2, <2>1, <2>3, <1>1
    <2> QED
      BY <2>1, <2>2, <2>5, <2>6, <1>1 DEF LeaseInv, LeaseTypeOK
  <1> QED
    BY <1>2, <1>3

LEMMA ExecuteRenewInv ==
  ASSUME LeaseInv, NEW s \in wire, ExecuteRenew(s)
  PROVE  LeaseInv'
  <1> DEFINE f == IF Renews(s) THEN s.fence ELSE 0
  <1>1. s.op = "renew" /\ Return(s, f) /\ fence' = fence /\ live' = live
    BY DEF ExecuteRenew
  <1>2. f \in Nat
    BY DEF LeaseInv, LeaseTypeOK, Statement
  <1> HIDE DEF f
  <1>3. /\ call' \in [Procs -> Call] /\ wire' \subseteq Statement
        /\ CallsAwaitTheirStatements'
        /\ \A p \in Procs : p # s.by => call'[p] = call[p]
        /\ s.by \in Procs => call'[s.by].fence = f /\ call[s.by].fence = s.fence
    BY <1>1, <1>2, ReturnCalls
  <1>4. \A p \in Procs : Knows(p)' \subseteq Knows(p)
    BY <1>1, <1>3 DEF Knows, Return, f
  <1>5. FenceHasOneOwner' /\ ReleasesAreOver'
    BY <1>1, <1>4, NobodyLearns DEF Return
  <1> QED
    BY <1>1, <1>3, <1>5 DEF Return, LeaseInv, LeaseTypeOK

LEMMA ExecuteReleaseInv ==
  ASSUME LeaseInv, NEW s \in wire, ExecuteRelease(s)
  PROVE  LeaseInv'
  <1>1. s.op = "release" /\ Return(s, 0) /\ fence' = fence
        /\ live' = (live /\ ~Releases(s))
    BY DEF ExecuteRelease
  <1>2. s.by = Nobody
    BY <1>1 DEF LeaseInv, ReleasesAreOver
  <1>3. /\ call' \in [Procs -> Call] /\ wire' \subseteq Statement
        /\ CallsAwaitTheirStatements'
        /\ \A p \in Procs : call'[p] = call[p]
    <2>1. /\ call' \in [Procs -> Call] /\ wire' \subseteq Statement
          /\ CallsAwaitTheirStatements'
          /\ \A p \in Procs : p # s.by => call'[p] = call[p]
      <3>1. Return(s, 0) /\ s.by = Nobody
        BY <1>1, <1>2
      <3> QED  BY <3>1, ReturnCalls
    <2> QED  BY <2>1, <1>2, LeaseConstants
  <1>4. \A p \in Procs : Knows(p)' \subseteq Knows(p)
    BY <1>1, <1>3 DEF Knows, Return
  <1>5. FenceHasOneOwner' /\ ReleasesAreOver'
    BY <1>1, <1>4, NobodyLearns DEF Return
  <1>6. live' \in BOOLEAN
    BY <1>1
  <1> QED
    BY <1>1, <1>3, <1>5, <1>6 DEF Return, LeaseInv, LeaseTypeOK

LEMMA AnswerInv ==
  ASSUME LeaseInv, NEW p \in Procs, Answer(p)
  PROVE  LeaseInv'
  <1>1. /\ call[p].answered
        /\ call' = [call EXCEPT ![p] = NoCall]
        /\ lease' = [lease EXCEPT ![p] =
                        IF call[p].op = "acquire" \/ call[p].fence = 0 THEN call[p].fence
                        ELSE lease[p]]
        /\ UNCHANGED <<fence, live, mode, wire, faults>>
    BY DEF Answer
  <1>2. NoCall \in Call /\ NoCall.fence = 0
    BY DEF Call, NoCall
  <1>3. lease' \in [Procs -> Nat] /\ call' \in [Procs -> Call]
    BY <1>1, <1>2, LeaseInvAt DEF LeaseInv, LeaseTypeOK
  <1>4. /\ \A q \in Procs \ {p} : call'[q] = call[q] /\ lease'[q] = lease[q]
        /\ call'[p] = NoCall
        /\ lease'[p] \in {lease[p], call[p].fence}
    BY <1>1 DEF LeaseInv, LeaseTypeOK
  <1>5. \A q \in Procs : Knows(q)' \subseteq Knows(q)
    BY <1>2, <1>4 DEF Knows
  <1>6. FenceHasOneOwner' /\ ReleasesAreOver'
    BY <1>1, <1>5, NobodyLearns
  <1>7. \A s \in wire : s.by # p
    <2> SUFFICES ASSUME NEW s \in wire, s.by = p  PROVE FALSE
      OBVIOUS
    <2>1. call[p] = [op |-> s.op, answered |-> FALSE, fence |-> s.fence]
      BY DEF LeaseInv, CallsAwaitTheirStatements
    <2> QED  BY <2>1, <1>1
  <1>8. call[p] # NoCall
    BY <1>1 DEF NoCall
  <1>9. CallsAwaitTheirStatements'
    BY <1>1, <1>4, <1>7, <1>8 DEF LeaseInv, CallsAwaitTheirStatements
  <1> QED
    BY <1>1, <1>3, <1>6, <1>9 DEF LeaseInv, LeaseTypeOK

(* What losing the caller of p's statements leaves.                         *)
LEMMA OrphanWire ==
  ASSUME LeaseInv, NEW p \in Procs, wire' = Orphan(p),
         \A q \in Procs \ {p} : call'[q] = call[q]
  PROVE  /\ wire' \subseteq Statement
         /\ \A s \in wire' : s.op = "release" => s \in wire
         /\ \A s \in wire' : s.by \in Procs =>
                call'[s.by] = [op |-> s.op, answered |-> FALSE, fence |-> s.fence]
  <1> SUFFICES ASSUME NEW s \in wire'
               PROVE  /\ s \in Statement
                      /\ s.op = "release" => s \in wire
                      /\ s.by \in Procs =>
                            call'[s.by] = [op |-> s.op, answered |-> FALSE, fence |-> s.fence]
    OBVIOUS
  <1>1. PICK t \in wire : s = IF t.by = p THEN [t EXCEPT !.by = Nobody] ELSE t
    BY DEF Orphan
  <1>2. t \in Statement
    BY DEF LeaseInv, LeaseTypeOK
  <1>3. CASE t.by = p
    <2>1. s = [t EXCEPT !.by = Nobody]
      BY <1>1, <1>3
    <2>2. s \in Statement /\ s.by = Nobody /\ s.op = t.op
      BY <2>1, <1>2 DEF Statement
    <2>3. t.op # "release"
      BY <1>3, LeaseConstants DEF LeaseInv, ReleasesAreOver
    <2> QED  BY <2>2, <2>3, LeaseConstants
  <1>4. CASE t.by # p
    <2>1. s = t
      BY <1>1, <1>4
    <2>2. t.by \in Procs => call[t.by] = [op |-> t.op, answered |-> FALSE, fence |-> t.fence]
      BY DEF LeaseInv, CallsAwaitTheirStatements
    <2> QED  BY <2>1, <2>2, <1>2, <1>4
  <1> QED  BY <1>3, <1>4

LEMMA FaultType ==
  ASSUME LeaseInv, Fault
  PROVE  faults' \in 0..MaxFaults
  BY LeaseConstants DEF LeaseInv, LeaseTypeOK, Fault

(* The closure forgets its call and its lease.                              *)
LEMMA ForgetInv ==
  ASSUME LeaseInv, NEW p \in Procs,
         call' = [call EXCEPT ![p] = NoCall],
         lease' = [lease EXCEPT ![p] = 0],
         wire' = Orphan(p),
         fence' = fence, live' = live,
         faults' \in 0..MaxFaults,
         mode' \in [Procs -> {"running", "stopping", "dead"}],
         \A q \in Procs \ {p} : mode'[q] = mode[q]
  PROVE  LeaseInv'
  <1>1. NoCall \in Call /\ NoCall.fence = 0
    BY DEF Call, NoCall
  <1>2. call' \in [Procs -> Call] /\ lease' \in [Procs -> Nat]
    BY <1>1 DEF LeaseInv, LeaseTypeOK
  <1>3. /\ \A q \in Procs \ {p} : call'[q] = call[q] /\ lease'[q] = lease[q]
        /\ call'[p] = NoCall /\ lease'[p] = 0
    BY DEF LeaseInv, LeaseTypeOK
  <1>4. /\ wire' \subseteq Statement
        /\ \A s \in wire' : s.op = "release" => s \in wire
        /\ \A s \in wire' : s.by \in Procs =>
                call'[s.by] = [op |-> s.op, answered |-> FALSE, fence |-> s.fence]
    BY <1>3, OrphanWire
  <1>5. LeaseTypeOK'
    BY <1>2, <1>4 DEF LeaseInv, LeaseTypeOK
  <1>6. CallsAwaitTheirStatements'
    BY <1>3, <1>4 DEF LeaseInv, CallsAwaitTheirStatements
  <1>7. Knows(p)' = {} /\ \A q \in Procs : Knows(q)' \subseteq Knows(q)
    BY <1>1, <1>3 DEF Knows
  <1>8. FenceHasOneOwner' /\ ReleasesAreOver'
    BY <1>4, <1>7, NobodyLearns
  <1> QED  BY <1>5, <1>6, <1>8 DEF LeaseInv

LEMMA CallFailsInv ==
  ASSUME LeaseInv, NEW p \in Procs, CallFails(p)
  PROVE  LeaseInv'
  <1>1. faults' \in 0..MaxFaults
    BY FaultType DEF CallFails
  <1> QED
    BY <1>1, ForgetInv DEF CallFails, LeaseInv, LeaseTypeOK

LEMMA ExitInv ==
  ASSUME LeaseInv, NEW p \in Procs, Exit(p)
  PROVE  LeaseInv'
  <1>1. faults' \in 0..MaxFaults
    BY FaultType DEF Exit, LeaseInv, LeaseTypeOK
  <1>2. /\ mode' \in [Procs -> {"running", "stopping", "dead"}]
        /\ \A q \in Procs \ {p} : mode'[q] = mode[q]
    BY DEF Exit, LeaseInv, LeaseTypeOK
  <1> QED
    BY <1>1, <1>2, ForgetInv DEF Exit

LEMMA RestartInv ==
  ASSUME LeaseInv, NEW p \in Procs, Restart(p)
  PROVE  LeaseInv'
  <1>1. /\ mode[p] = "dead" /\ mode' = [mode EXCEPT ![p] = "running"]
        /\ UNCHANGED <<fence, live, lease, call, wire, faults>>
    BY DEF Restart
  <1>2. lease[p] = 0 /\ call[p] = NoCall
    BY <1>1 DEF LeaseInv, CallsAwaitTheirStatements
  <1>3. Knows(p)' = {} /\ \A q \in Procs : Knows(q)' = Knows(q)
    BY <1>1, <1>2 DEF Knows, NoCall
  <1>4. LeaseTypeOK' /\ \A q \in Procs \ {p} : mode'[q] = mode[q]
    BY <1>1 DEF LeaseInv, LeaseTypeOK
  <1>5. FenceHasOneOwner' /\ ReleasesAreOver'
    BY <1>1, <1>3, <1>4, NobodyLearns
  <1>6. CallsAwaitTheirStatements'
    BY <1>1, <1>2, <1>4 DEF LeaseInv, CallsAwaitTheirStatements
  <1> QED  BY <1>4, <1>5, <1>6 DEF LeaseInv

LEMMA StopInv ==
  ASSUME LeaseInv, NEW p \in Procs, Stop(p)
  PROVE  LeaseInv'
  <1> DEFINE r == [op |-> "release", fence |-> lease[p], by |-> Nobody]
  <1>1. /\ mode[p] = "running" /\ mode' = [mode EXCEPT ![p] = "stopping"]
        /\ lease' = [lease EXCEPT ![p] = 0]
        /\ wire' = IF lease[p] = 0 THEN wire ELSE wire \union {r}
        /\ UNCHANGED <<fence, live, call>>
    BY DEF Stop
  <1>2. /\ faults' \in 0..MaxFaults
        /\ r \in Statement
        /\ fence \in Nat /\ lease[p] \in Nat /\ lease[p] <= fence
    BY FaultType, LeaseInvAt DEF Stop, Statement, LeaseInv, LeaseTypeOK
  <1>3. /\ \A q \in Procs \ {p} : mode'[q] = mode[q] /\ lease'[q] = lease[q]
        /\ mode'[p] = "stopping" /\ lease'[p] = 0
    BY <1>1 DEF LeaseInv, LeaseTypeOK
  <1>4. LeaseTypeOK'
    BY <1>1, <1>2 DEF LeaseInv, LeaseTypeOK
  <1>5. \A q \in Procs : Knows(q)' \subseteq Knows(q)
    BY <1>1, <1>3 DEF Knows
  <1>6. FenceHasOneOwner'
    BY <1>1, <1>5 DEF LeaseInv, FenceHasOneOwner
  <1>7. ReleasesAreOver'
    <2> SUFFICES ASSUME NEW s \in wire', s.op = "release"
                 PROVE  /\ s.by = Nobody
                        /\ s.fence \in 1..fence'
                        /\ \A q \in Procs : mode'[q] = "running" => s.fence \notin Knows(q)'
      BY DEF ReleasesAreOver
    <2>1. CASE s \in wire
      BY <2>1, <1>1, <1>3, <1>5 DEF LeaseInv, ReleasesAreOver
    <2>2. CASE s \notin wire
      <3>1. s = r /\ lease[p] # 0
        BY <2>2, <1>1
      <3>2. s.by = Nobody /\ s.fence = lease[p]
        BY <3>1
      <3>3. \A q \in Procs \ {p} : lease[p] \notin Knows(q)
        <4>1. lease[p] \in Knows(p)
          BY <3>1 DEF Knows
        <4> QED  BY <4>1 DEF LeaseInv, FenceHasOneOwner
      <3> QED  BY <3>1, <3>2, <3>3, <1>1, <1>2, <1>3, <1>5
    <2> QED  BY <2>1, <2>2
  <1>8. CallsAwaitTheirStatements'
    <2>1. \A s \in wire' : s.by \in Procs => s \in wire
      BY <1>1, LeaseConstants
    <2> QED  BY <2>1, <1>1, <1>3 DEF LeaseInv, CallsAwaitTheirStatements
  <1> QED  BY <1>4, <1>6, <1>7, <1>8 DEF LeaseInv

LEMMA LoseInv ==
  ASSUME LeaseInv, NEW s \in wire, Lose(s)
  PROVE  LeaseInv'
  <1>1. wire' = wire \ {s} /\ UNCHANGED <<fence, live, mode, lease, call, faults>>
    BY DEF Lose
  <1>2. \A p \in Procs : Knows(p)' = Knows(p)
    BY <1>1 DEF Knows
  <1>3. FenceHasOneOwner' /\ ReleasesAreOver'
    BY <1>1, <1>2, NobodyLearns
  <1> QED
    BY <1>1, <1>3 DEF LeaseInv, LeaseTypeOK, CallsAwaitTheirStatements

LEMMA ExpireInv ==
  ASSUME LeaseInv, Expire
  PROVE  LeaseInv'
  <1>1. faults' \in 0..MaxFaults
    BY FaultType DEF Expire, LeaseInv, LeaseTypeOK
  <1>2. live' = FALSE /\ UNCHANGED <<fence, mode, lease, call, wire>>
    BY DEF Expire
  <1>3. \A p \in Procs : Knows(p)' = Knows(p)
    BY <1>2 DEF Knows
  <1>4. FenceHasOneOwner' /\ ReleasesAreOver'
    BY <1>2, <1>3, NobodyLearns
  <1> QED
    BY <1>1, <1>2, <1>4 DEF LeaseInv, LeaseTypeOK, CallsAwaitTheirStatements

LEMMA LeaseStutterInv ==
  ASSUME LeaseInv, UNCHANGED leaseVars
  PROVE  LeaseInv'
  BY DEF leaseVars, LeaseInv, LeaseTypeOK, FenceHasOneOwner, Knows,
     CallsAwaitTheirStatements, ReleasesAreOver

LEMMA LeaseStepInv ==
  ASSUME LeaseInv, [LeaseNext]_leaseVars
  PROVE  LeaseInv'
  <1>1. ASSUME NEW p \in Procs,
               Tick(p) \/ Answer(p) \/ CallFails(p) \/ Stop(p) \/ Exit(p) \/ Restart(p)
        PROVE  LeaseInv'
    BY <1>1, TickInv, AnswerInv, CallFailsInv, StopInv, ExitInv, RestartInv
  <1>2. ASSUME NEW s \in wire, ExecuteAcquire(s) \/ ExecuteRenew(s) \/ ExecuteRelease(s)
        PROVE  LeaseInv'
    BY <1>2, ExecuteAcquireInv, ExecuteRenewInv, ExecuteReleaseInv
  <1>3. ASSUME NEW s \in wire, Lose(s)
        PROVE  LeaseInv'
    BY <1>3, LoseInv
  <1> QED
    BY <1>1, <1>2, <1>3, ExpireInv, LeaseStutterInv DEF LeaseNext, Execute

(* LeaseInv holds in every reachable state, for any set of processes.       *)
THEOREM LeaseInvHolds == LeaseSpec => []LeaseInv
  BY LeaseInitInv, LeaseStepInv, PTL DEF LeaseSpec

(* A fence names one grant of one process: the comparison in renew and      *)
(* release can only ever find the caller's own grant.                       *)
THEOREM OneOwner == LeaseSpec => []FenceHasOneOwner
  <1>1. LeaseInv => FenceHasOneOwner
    BY DEF LeaseInv
  <1> QED  BY <1>1, LeaseInvHolds, PTL

(* No statement but a release of its own grant ends a live leader's, and     *)
(* none such is under way.                                                  *)
LEMMA LeaderKeepsGrant ==
  ASSUME LeaseInv, LeaseNext,
         NEW p \in Procs, IsLeader(p), lease[p] = fence, live, ~Expire
  PROVE  live' /\ fence' = fence
  <1>1. CASE \E q \in Procs : Tick(q) \/ Answer(q) \/ CallFails(q)
                              \/ Stop(q) \/ Exit(q) \/ Restart(q)
    BY <1>1 DEF Tick, Answer, CallFails, Stop, Exit, Restart
  <1>2. ASSUME NEW s \in wire, ExecuteAcquire(s) \/ ExecuteRenew(s) \/ Lose(s)
        PROVE  live' /\ fence' = fence
    BY <1>2 DEF ExecuteAcquire, ExecuteRenew, Lose
  <1>3. ASSUME NEW s \in wire, ExecuteRelease(s)
        PROVE  live' /\ fence' = fence
    <2>1. s.op = "release" /\ live' = (live /\ ~Releases(s)) /\ fence' = fence
      BY <1>3 DEF ExecuteRelease
    <2>2. s.fence \notin Knows(p)
      BY <2>1 DEF LeaseInv, ReleasesAreOver, IsLeader
    <2>3. lease[p] \in Knows(p)
      BY DEF IsLeader, Knows
    <2> QED  BY <2>1, <2>2, <2>3 DEF Releases
  <1> QED
    BY <1>1, <1>2, <1>3 DEF LeaseNext, Execute

(* Only time ends the leadership of a process that runs and holds the       *)
(* current grant.                                                           *)
THEOREM LeadershipIsKept == LeaseSpec => OnlyTimeEndsLeadership
  <1> DEFINE Kept == (\E p \in Procs : IsLeader(p) /\ IsLeader(p)' /\ lease[p] = fence) /\ live
                     => (live' /\ fence' = fence) \/ Expire
  <1>1. LeaseInv /\ [LeaseNext]_leaseVars => [Kept]_leaseVars
    BY LeaderKeepsGrant
  <1> QED
    BY <1>1, LeaseInvHolds, PTL DEF LeaseSpec, OnlyTimeEndsLeadership
=============================================================================
