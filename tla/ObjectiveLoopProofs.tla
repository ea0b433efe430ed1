------------------------ MODULE ObjectiveLoopProofs -------------------------
(***************************************************************************)
(* What ObjectiveLoop promises for any number of workers and steps.  The   *)
(* argument: an iteration that still holds the loop's lease has read what  *)
(* the last wake brought (Informed), because a wake takes the lease and a  *)
(* claim after it reads anew.  The rest for want of a worker is written    *)
(* without a lease, and RestsOnNews leaves it out.                         *)
(***************************************************************************)
EXTENDS ObjectiveLoop, WellFoundedInduction, TLAPS

(* The iteration under way that holds the lease began after the last wake.  *)
Informed ==
    \A w \in Workers :
        loop.owner = w /\ workers[w].at \in {"claimed", "inspected"} => workers[w].fresh

IInv == TypeOK /\ Informed /\ RestsOnNews

-----------------------------------------------------------------------------
(* What the helpers return.                                                 *)

(* A set of step numbers that is not empty has a largest one.               *)
LEMMA LargestNumber ==
    ASSUME NEW S \in SUBSET Numbers, S # {}
    PROVE  \E s \in S : \A t \in S : t <= s
<1> DEFINE T == {MaxSteps - s : s \in S}
<1>1. MaxSteps \in Nat
  BY ObjectiveAssumption
<1>2. T \subseteq Nat /\ T # {}
  <2>1. \A s \in S : MaxSteps - s \in Nat
    BY <1>1 DEF Numbers
  <2>2. T \subseteq Nat
    BY <2>1
  <2>3. PICK s \in S : TRUE
    OBVIOUS
  <2>4. MaxSteps - s \in T
    OBVIOUS
  <2> QED  BY <2>2, <2>4
<1>3. PICK x \in T : \A y \in T : ~(<<y, x>> \in OpToRel(<, Nat))
  <2> HIDE DEF T
  <2> QED  BY <1>2, WFMin, NatLessThanWellFounded, Zenon
<1>4. \A y \in T : ~(y < x)
  BY <1>2, <1>3 DEF OpToRel
<1>5. PICK s \in S : x = MaxSteps - s
  OBVIOUS
<1>6. ASSUME NEW t \in S PROVE t <= s
  <2>1. ~(MaxSteps - t < x)
    BY <1>4
  <2> QED  BY <2>1, <1>1, <1>5 DEF Numbers
<1> QED  BY <1>6

LEMMA NextStepType ==
    ASSUME TypeOK
    PROVE  NextStep \in 1..(MaxSteps + 1)
<1>1. MaxSteps \in Nat /\ loop.count \in 0..MaxSteps
  BY ObjectiveAssumption DEF TypeOK, LoopRow
<1>2. CASE OpenSteps("controller") = {}
  BY <1>1, <1>2 DEF NextStep
<1>3. CASE OpenSteps("controller") # {}
  <2> DEFINE S == OpenSteps("controller")
  <2>1. S \subseteq Numbers
    BY DEF OpenSteps
  <2>2. \E s \in S : \A t \in S : t <= s
    BY <2>1, <1>3, LargestNumber
  <2>3. NextStep \in S
    BY <1>3, <2>2 DEF NextStep
  <2> QED  BY <2>1, <2>3, <1>1 DEF Numbers
<1> QED  BY <1>2, <1>3

LEMMA QueuedType ==
    ASSUME NEW rev \in Revisions, NEW step \in 1..(MaxSteps + 1), NEW wake \in 0..MaxSteps
    PROVE  Queued(rev, step, wake) \in JobRow
  BY DEF Queued, JobRow

LEMMA ScheduledType ==
    ASSUME TypeOK
    PROVE  Scheduled \subseteq JobRow
<1>1. Queued(loop.rev, NextStep, 0) \in JobRow
  <2>1. loop.rev \in Revisions /\ 0 \in 0..MaxSteps
    BY ObjectiveAssumption DEF TypeOK, LoopRow
  <2> QED  BY <2>1, NextStepType, QueuedType
<1> QED  BY <1>1 DEF Scheduled, TypeOK

(* A worker that leaves is idle, its job ended or back in the queue.        *)
LEMMA LeaveType ==
    ASSUME TypeOK, NEW w \in Workers, workers' = [workers EXCEPT ![w] = Idle],
           EndJob(w) \/ Redelivered(w)
    PROVE  /\ workers' \in [Workers -> WorkerState]
           /\ jobs' \subseteq JobRow
           /\ workers'[w].at = "idle"
           /\ \A v \in Workers \ {w} : workers'[v] = workers[v]
<1>1. Idle \in WorkerState
  BY ObjectiveAssumption DEF Idle, WorkerState
<1>2. \A j \in JobRow : [j EXCEPT !.by = "none"] \in JobRow
  BY DEF JobRow
<1>3. jobs' \subseteq JobRow
  BY <1>2 DEF EndJob, Redelivered, TypeOK
<1>4. workers'[w].at = "idle"
  BY DEF TypeOK, Idle
<1> QED  BY <1>1, <1>3, <1>4 DEF TypeOK

LEMMA UnownedType ==
    ASSUME TypeOK
    PROVE  /\ Unowned \in LoopRow
           /\ Unowned.owner = "none"
           /\ Unowned.heard = loop.heard
           /\ Unowned.unstaffed = loop.unstaffed
           /\ Unowned.state = loop.state
  BY DEF TypeOK, LoopRow, Unowned

(* A step that is there moves on from one kind to another.                  *)
LEMMA MovedStepType ==
    ASSUME TypeOK, NEW n,
           \/ UNCHANGED steps
           \/ \E kind \in {"human", "done"} : steps' = [steps EXCEPT ![n].kind = kind]
    PROVE  steps' \in [Numbers -> StepRow]
  BY DEF TypeOK, StepRow

LEMMA WaitForType ==
    ASSUME TypeOK, NEW a \in Numbers, NEW deadline \in BOOLEAN
    PROVE  WaitFor(a, deadline) \in WaitRow
<1>1. actions[a] \in 0..2 /\ loop.rev \in 0..MaxRevision /\ a \in 0..MaxSteps
  BY ObjectiveAssumption DEF TypeOK, LoopRow, Revisions, Numbers
<1> QED  BY <1>1 DEF WaitFor, WaitRow

(* A wake leaves no lease behind, whoever held it.                          *)
LEMMA AwakeType ==
    ASSUME TypeOK, NEW W \in SUBSET Numbers, NEW how \in {"satisfied", "timed_out"},
           Awake(W, how)
    PROVE  /\ loop' \in LoopRow /\ jobs' \subseteq JobRow
           /\ workers' \in [Workers -> WorkerState] /\ waits' \in [Numbers -> WaitRow]
           /\ \/ loop' = loop /\ workers' = workers
              \/ loop'.state = "continue" /\ loop'.owner = "none"
<1>1. waits' \in [Numbers -> WaitRow]
  <2>1. \A s \in Numbers, st \in {"cancelled", "satisfied", "timed_out"} :
            [waits[s] EXCEPT !.st = st] \in WaitRow
    BY DEF TypeOK, WaitRow
  <2>2. PICK st \in {"cancelled", "satisfied", "timed_out"} :
            waits' = [s \in Numbers |-> IF s \in W THEN [waits[s] EXCEPT !.st = st]
                                         ELSE waits[s]]
    BY DEF Awake
  <2> QED  BY <2>1, <2>2 DEF TypeOK
<1>2. CASE loop.state \in Terminal
  <2>1. loop' = loop /\ jobs' = jobs /\ workers' = workers
    BY <1>2 DEF Awake
  <2> QED  BY <2>1, <1>1 DEF TypeOK
<1>3. CASE loop.state \notin Terminal
  <2>1. /\ jobs' = jobs \union {Queued(loop.rev, loop.count + 1, s) : s \in W}
        /\ loop' = Woken
        /\ workers' = [w \in Workers |-> [workers[w] EXCEPT !.fresh = FALSE]]
    BY <1>3 DEF Awake
  <2>2. loop.rev \in Revisions /\ loop.count + 1 \in 1..(MaxSteps + 1)
    BY ObjectiveAssumption DEF TypeOK, LoopRow
  <2>3. \A s \in W : Queued(loop.rev, loop.count + 1, s) \in JobRow
    BY <2>2, QueuedType DEF Numbers
  <2>4. Woken \in LoopRow /\ Woken.state = "continue" /\ Woken.owner = "none"
    BY UnownedType DEF Woken, LoopRow, LoopStates
  <2>5. \A w \in Workers : [workers[w] EXCEPT !.fresh = FALSE] \in WorkerState
    BY DEF TypeOK, WorkerState
  <2> QED  BY <2>1, <2>3, <2>4, <2>5, <1>1 DEF TypeOK
<1> QED  BY <1>2, <1>3

LEMMA HaltType ==
    ASSUME TypeOK, Halt
    PROVE  steps' \in [Numbers -> StepRow] /\ waits' \in [Numbers -> WaitRow]
<1>1. \A s \in Numbers : [waits[s] EXCEPT !.st = "cancelled"] \in WaitRow
  BY DEF TypeOK, WaitRow
<1>2. \A s \in Numbers : [steps[s] EXCEPT !.kind = "done"] \in StepRow
  BY DEF TypeOK, StepRow
<1> QED  BY <1>1, <1>2 DEF Halt, TypeOK

LEMMA RejectSomeType ==
    ASSUME TypeOK, RejectSome
    PROVE  actions' \in [Numbers -> 0..2]
  BY DEF TypeOK, RejectSome

-----------------------------------------------------------------------------
(* Type correctness.                                                        *)

LEMMA TypeInit == Init => TypeOK
<1> SUFFICES ASSUME Init PROVE TypeOK
  OBVIOUS
<1> USE ObjectiveAssumption
<1>1. loop \in LoopRow /\ upsets \in 0..MaxUpsets
  BY DEF Init, LoopRow, LoopStates, Revisions
<1>2. steps \in [Numbers -> StepRow] /\ waits \in [Numbers -> WaitRow]
  BY DEF Init, NoStep, StepRow, NoWait, WaitRow
<1>3. jobs \subseteq JobRow
  BY QueuedType DEF Init, Revisions
<1>4. workers \in [Workers -> WorkerState]
  BY DEF Init, Idle, WorkerState
<1>5. actions \in [Numbers -> 0..2] /\ resuming \in [Numbers -> {"none", "ingest", "read", "write", "schedule"}]
  BY DEF Init
<1> QED  BY <1>1, <1>2, <1>3, <1>4, <1>5 DEF TypeOK

(* What an iteration does keeps the types.                                  *)
LEMMA IterateType ==
    ASSUME TypeOK, NEW w \in Workers, Iterate(w)
    PROVE  TypeOK'
<1> USE ObjectiveAssumption
<1>1. ASSUME NEW j \in jobs, Claim(w, j) PROVE TypeOK'
  <2>1. /\ workers' = [workers EXCEPT ![w] = [at |-> "claimed", step |-> j.step,
                          rev |-> loop.rev, saw |-> 0, fresh |-> TRUE]]
        /\ jobs' = (jobs \ {j}) \union {[j EXCEPT !.by = w]}
        /\ j.step <= MaxSteps
    BY <1>1 DEF Claim, Begin
  <2>2. j \in JobRow /\ j.step \in Numbers /\ loop.rev \in 1..MaxRevision
    BY <2>1 DEF TypeOK, JobRow, LoopRow, Revisions, Numbers
  <2>3. workers' \in [Workers -> WorkerState]
    BY <2>1, <2>2 DEF TypeOK, WorkerState, Numbers
  <2>4. jobs' \subseteq JobRow
    BY <2>1, <2>2 DEF TypeOK, JobRow
  <2>5. steps' \in [Numbers -> StepRow]
    <3>1. [kind |-> "controller", rev |-> loop.rev, saw |-> 0] \in StepRow
      BY <2>2 DEF StepRow
    <3> QED  BY <1>1, <2>2, <3>1 DEF Claim, TypeOK
  <2>6. loop' \in LoopRow
    <3>1. CASE Opens(j)
      <4>1. loop' = [loop EXCEPT !.state = "continue", !.count = j.step,
                                 !.owner = w, !.live = TRUE]
        BY <1>1, <3>1 DEF Claim
      <4>2. j.step \in 0..MaxSteps /\ "continue" \in LoopStates /\ loop \in LoopRow
        BY <2>2 DEF Numbers, LoopStates, TypeOK
      <4> QED  BY <4>1, <4>2 DEF LoopRow
    <3>2. CASE ~Opens(j)
      <4>1. loop' = [loop EXCEPT !.owner = w, !.live = TRUE]
        BY <1>1, <3>2 DEF Claim
      <4> QED  BY <4>1 DEF TypeOK, LoopRow
    <3> QED  BY <3>1, <3>2
  <2> QED  BY <1>1, <2>3, <2>4, <2>5, <2>6 DEF Claim, TypeOK
<1>2. ASSUME NEW j \in jobs, Decline(w, j) PROVE TypeOK'
  BY <1>2 DEF Decline, TypeOK
<1>3. ASSUME Inspect(w) PROVE TypeOK'
  <2>1. PICK a \in 0..MaxSteps :
            workers' = [workers EXCEPT ![w].at = "inspected", ![w].saw = a]
    <3>1. (IF Unsettled = {} THEN {0} ELSE Unsettled) \subseteq 0..MaxSteps
      BY DEF Unsettled, Numbers
    <3> QED  BY <1>3, <3>1 DEF Inspect
  <2>2. [workers[w] EXCEPT !.at = "inspected", !.saw = a] \in WorkerState
    BY <2>1 DEF TypeOK, WorkerState
  <2>3. workers' = [workers EXCEPT ![w] = [workers[w] EXCEPT !.at = "inspected", !.saw = a]]
    BY <2>1 DEF TypeOK
  <2>4. workers' \in [Workers -> WorkerState]
    BY <2>2, <2>3 DEF TypeOK
  <2> QED  BY <1>3, <2>4 DEF Inspect, TypeOK
<1>4. ASSUME NEW asked \in LoopStates, Finish(w, asked) PROVE TypeOK'
  <2> DEFINE me == workers[w]
             outcome == Limited(asked)
  <2>1. me \in WorkerState /\ me.fresh \in BOOLEAN /\ me.saw \in 0..MaxSteps
    BY DEF TypeOK, WorkerState
  <2>2. outcome \in LoopStates
    BY DEF Limited, LoopStates, Terminal
  <2>3. WorkOf(outcome) \in {"open", "failed", "completed", "cancelled"}
    BY DEF WorkOf
  <2>4. /\ loop' = [Unowned EXCEPT !.state = outcome, !.heard = me.fresh,
                               !.unstaffed = FALSE, !.work = WorkOf(outcome)]
        /\ steps' = [steps EXCEPT ![me.step].kind = "done"]
        /\ waits' = IF me.saw = 0 THEN waits
                    ELSE [waits EXCEPT ![me.step] = WaitFor(me.saw, FALSE)]
        /\ UNCHANGED <<actions, resuming, upsets>>
    BY <1>4 DEF Finish
  <2>5. loop' \in LoopRow
    <3> HIDE DEF outcome, me
    <3>1. me.fresh \in BOOLEAN
      BY <2>1
    <3> QED  BY <2>2, <2>3, <2>4, <3>1, UnownedType DEF LoopRow
  <2>6. steps' \in [Numbers -> StepRow]
    BY <2>4 DEF TypeOK, StepRow
  <2>7. waits' \in [Numbers -> WaitRow]
    <3>1. CASE me.saw = 0
      BY <2>4, <3>1 DEF TypeOK
    <3>2. CASE me.saw # 0
      <4>1. me.saw \in Numbers
        BY <2>1, <3>2 DEF Numbers
      <4> HIDE DEF me
      <4>2. WaitFor(me.saw, FALSE) \in WaitRow
        BY <4>1, WaitForType
      <4> QED  BY <2>4, <3>2, <4>2 DEF TypeOK
    <3> QED  BY <3>1, <3>2
  <2>8. workers' \in [Workers -> WorkerState] /\ jobs' \subseteq JobRow
    <3>1. CASE Leave(w)
      BY <3>1, LeaveType DEF Leave
    <3>2. CASE workers' = [workers EXCEPT ![w].at = "finished"] /\ UNCHANGED jobs
      BY <3>2 DEF TypeOK, WorkerState
    <3> QED  BY <1>4, <3>1, <3>2 DEF Finish
  <2> QED  BY <2>4, <2>5, <2>6, <2>7, <2>8 DEF TypeOK
<1>5. ASSUME Refused(w) PROVE TypeOK'
  <2>1. workers' \in [Workers -> WorkerState] /\ jobs' \subseteq JobRow
    BY <1>5, LeaveType DEF Refused
  <2>2. loop' \in LoopRow
    BY <1>5 DEF Refused, TypeOK, LoopRow
  <2> QED  BY <1>5, <2>1, <2>2 DEF Refused, TypeOK
<1>6. ASSUME Superseded(w) PROVE TypeOK'
  <2>1. workers' \in [Workers -> WorkerState] /\ jobs' \subseteq JobRow
    BY <1>6, LeaveType DEF Superseded, Leave
  <2> QED  BY <1>6, <2>1 DEF Superseded, TypeOK
<1>7. ASSUME ScheduleNext(w) PROVE TypeOK'
  <2>1. Idle \in WorkerState
    BY DEF Idle, WorkerState
  <2>2. jobs' \subseteq JobRow /\ workers' \in [Workers -> WorkerState]
    BY <1>7, <2>1, ScheduledType DEF ScheduleNext, TypeOK
  <2> QED  BY <1>7, <2>2 DEF ScheduleNext, TypeOK
<1>8. ASSUME Reserve(w) PROVE TypeOK'
  <2> DEFINE mine == workers[w].step
             node == IF steps[mine].kind = "controller" THEN mine ELSE loop.count + 1
  <2>1. /\ node <= MaxSteps
        /\ steps' = [steps EXCEPT ![node] = [kind |-> "reserved", rev |-> loop.rev, saw |-> 0]]
        /\ loop' = [Unowned EXCEPT !.state = "continue",
                        !.count = IF node > loop.count THEN node ELSE loop.count]
        /\ workers' = [workers EXCEPT ![w].at = "reserved", ![w].step = node]
    BY <1>8 DEF Reserve
  <2>2. node \in Nat
    BY DEF TypeOK, WorkerState, LoopRow
  <2> HIDE DEF node
  <2>3. steps' \in [Numbers -> StepRow]
    <3>1. [kind |-> "reserved", rev |-> loop.rev, saw |-> 0] \in StepRow
      BY DEF TypeOK, LoopRow, Revisions, StepRow
    <3> QED  BY <2>1, <3>1 DEF TypeOK
  <2>4. loop' \in LoopRow
    <3>1. loop.count \in 0..MaxSteps
      BY DEF TypeOK, LoopRow
    <3>2. (IF node > loop.count THEN node ELSE loop.count) \in 0..MaxSteps
      BY <2>1, <2>2, <3>1
    <3> QED  BY <2>1, <3>2, UnownedType DEF LoopRow, LoopStates
  <2>5. workers' \in [Workers -> WorkerState]
    <3>1. node \in 0..MaxSteps
      BY <2>1, <2>2
    <3>2. [workers[w] EXCEPT !.at = "reserved", !.step = node] \in WorkerState
      BY <3>1 DEF TypeOK, WorkerState
    <3>3. workers' = [workers EXCEPT ![w] = [workers[w] EXCEPT !.at = "reserved", !.step = node]]
      BY <2>1 DEF TypeOK
    <3> QED  BY <3>2, <3>3 DEF TypeOK
  <2> QED  BY <1>8, <2>3, <2>4, <2>5 DEF Reserve, TypeOK
<1>9. ASSUME Retire(w) PROVE TypeOK'
  <2>1. workers' \in [Workers -> WorkerState] /\ jobs' \subseteq JobRow
    BY <1>9, LeaveType DEF Retire, Leave
  <2>2. steps' \in [Numbers -> StepRow]
    BY <1>9, MovedStepType DEF Retire
  <2>3. loop' \in LoopRow
    BY <1>9, UnownedType DEF Retire, TypeOK
  <2> QED  BY <1>9, <2>1, <2>2, <2>3 DEF Retire, TypeOK
<1>10. ASSUME RequestAssignment(w) PROVE TypeOK'
  <2>1. CASE steps' = [steps EXCEPT ![workers[w].step].kind = "node"] /\ Leave(w)
    <3>1. workers' \in [Workers -> WorkerState] /\ jobs' \subseteq JobRow
      BY <2>1, LeaveType DEF Leave
    <3>2. steps' \in [Numbers -> StepRow]
      BY <2>1 DEF TypeOK, StepRow
    <3> QED  BY <1>10, <3>1, <3>2 DEF RequestAssignment, TypeOK
  <2>2. ASSUME NEW answer \in {"human", "unassigned"},
               workers' = [workers EXCEPT ![w].at = answer], UNCHANGED <<steps, jobs>>
        PROVE  TypeOK'
    <3>1. workers' \in [Workers -> WorkerState]
      BY <2>2 DEF TypeOK, WorkerState
    <3> QED  BY <1>10, <2>2, <3>1 DEF RequestAssignment, TypeOK
  <2> QED  BY <1>10, <2>1, <2>2 DEF RequestAssignment
<1>11. ASSUME RecordRefusal(w) PROVE TypeOK'
  <2>1. PICK at \in {"parking", "blocking"} : workers' = [workers EXCEPT ![w].at = at]
    BY <1>11 DEF RecordRefusal
  <2>2. workers' \in [Workers -> WorkerState]
    BY <2>1 DEF TypeOK, WorkerState
  <2>3. steps' \in [Numbers -> StepRow]
    BY <1>11, MovedStepType DEF RecordRefusal
  <2> QED  BY <1>11, <2>2, <2>3 DEF RecordRefusal, TypeOK
<1>12. ASSUME Park(w) PROVE TypeOK'
  <2>1. workers' \in [Workers -> WorkerState] /\ jobs' \subseteq JobRow
    BY <1>12, LeaveType DEF Park, Leave
  <2>2. workers[w].fresh \in BOOLEAN
    BY DEF TypeOK, WorkerState
  <2>3. loop' \in LoopRow
    BY <1>12, <2>2 DEF Park, TypeOK, LoopRow, LoopStates
  <2> QED  BY <1>12, <2>1, <2>3 DEF Park, TypeOK
<1>13. ASSUME Block(w) PROVE TypeOK'
  <2>1. workers' \in [Workers -> WorkerState] /\ jobs' \subseteq JobRow
    BY <1>13, LeaveType DEF Block
  <2>2. workers[w].fresh \in BOOLEAN
    BY DEF TypeOK, WorkerState
  <2>3. loop' \in LoopRow
    <3>1. CASE loop' = loop
      BY <3>1 DEF TypeOK
    <3>2. CASE loop' = [Unowned EXCEPT !.state = "blocked", !.heard = workers[w].fresh,
                                       !.unstaffed = TRUE, !.work = "open"]
      BY <2>2, <3>2, UnownedType DEF LoopRow, LoopStates, Terminal
    <3> QED  BY <1>13, <3>1, <3>2 DEF Block
  <2> QED  BY <1>13, <2>1, <2>3 DEF Block, TypeOK
<1> QED  BY <1>1, <1>2, <1>3, <1>4, <1>5, <1>6, <1>7, <1>8, <1>9, <1>10, <1>11, <1>12, <1>13
         DEF Iterate

(* What a node and the settlement of its action do keeps the types.         *)
LEMMA NodeType ==
    ASSUME TypeOK, NEW s \in Numbers, RunNode(s) \/ Settle(s) \/ TimeOut(s)
    PROVE  TypeOK'
<1> USE ObjectiveAssumption
<1>1. ASSUME Draft(s) \/ Settle(s) PROVE TypeOK'
  BY <1>1 DEF Draft, Settle, TypeOK
<1>2. ASSUME Observe(s) PROVE TypeOK'
  <2>1. steps' \in [Numbers -> StepRow]
    BY <1>2 DEF Observe, TypeOK, StepRow
  <2> QED  BY <1>2, <2>1 DEF Observe, TypeOK
<1>3. ASSUME FinishNode(s) \/ FinishWaitNode(s) PROVE TypeOK'
  <2>1. /\ steps' = [steps EXCEPT ![s].kind = "closing"]
        /\ loop' = [loop EXCEPT !.state = "continue"]
        /\ UNCHANGED <<jobs, workers, actions, resuming, upsets>>
    BY <1>3 DEF FinishNode, FinishWaitNode
  <2>2. steps' \in [Numbers -> StepRow]
    BY <2>1 DEF TypeOK, StepRow
  <2>3. loop' \in LoopRow
    BY <2>1 DEF TypeOK, LoopRow, LoopStates
  <2>4. waits' \in [Numbers -> WaitRow]
    <3>1. CASE FinishNode(s)
      <4>1. WaitFor(s, FALSE) \in WaitRow
        BY WaitForType
      <4> QED  BY <3>1, <4>1 DEF FinishNode, TypeOK
    <3>2. CASE FinishWaitNode(s)
      <4>1. PICK a \in Unsettled \union {s} : waits' = [waits EXCEPT ![s] = WaitFor(a, TRUE)]
        BY <3>2 DEF FinishWaitNode
      <4>2. WaitFor(a, TRUE) \in WaitRow
        BY WaitForType DEF Unsettled
      <4> QED  BY <4>1, <4>2 DEF TypeOK
    <3> QED  BY <1>3, <3>1, <3>2
  <2> QED  BY <2>1, <2>2, <2>3, <2>4 DEF TypeOK
<1>4. ASSUME CompleteNode(s) PROVE TypeOK'
  <2>1. steps' \in [Numbers -> StepRow]
    BY <1>4 DEF CompleteNode, TypeOK, StepRow
  <2>2. loop' \in LoopRow
    BY <1>4 DEF CompleteNode, TypeOK, LoopRow, LoopStates, Terminal
  <2> QED  BY <1>4, <2>1, <2>2 DEF CompleteNode, TypeOK
<1>5. ASSUME ScheduleAfterNode(s) PROVE TypeOK'
  <2>1. steps' \in [Numbers -> StepRow]
    BY <1>5 DEF ScheduleAfterNode, TypeOK, StepRow
  <2> QED  BY <1>5, <2>1, ScheduledType DEF ScheduleAfterNode, TypeOK
<1>6. ASSUME TimeOut(s) PROVE TypeOK'
  <2>1. Awake({s}, "timed_out") /\ UNCHANGED <<steps, actions, resuming, upsets>>
    BY <1>6 DEF TimeOut
  <2>2. /\ loop' \in LoopRow /\ jobs' \subseteq JobRow
        /\ workers' \in [Workers -> WorkerState] /\ waits' \in [Numbers -> WaitRow]
    BY <2>1, AwakeType
  <2> QED  BY <2>1, <2>2 DEF TypeOK
<1> QED  BY <1>1, <1>2, <1>3, <1>4, <1>5, <1>6 DEF RunNode

(* What a resumption does keeps the types.                                  *)
LEMMA ResumeType ==
    ASSUME TypeOK, NEW a \in Numbers, Resume(a) \/ LoseResumption(a)
    PROVE  TypeOK'
<1> USE ObjectiveAssumption
<1>1. ASSUME Ingest(a) PROVE TypeOK'
  <2>1. PICK W \in SUBSET Matching(a) :
            IF W = {}
            THEN /\ resuming' = [resuming EXCEPT ![a] = "read"]
                 /\ UNCHANGED <<loop, jobs, workers, waits>>
            ELSE /\ resuming' = [resuming EXCEPT ![a] =
                                     IF loop.state \in Terminal THEN "read" ELSE "none"]
                 /\ Awake(W, "satisfied")
    BY <1>1 DEF Ingest
  <2>2. UNCHANGED <<steps, actions, upsets>>
    BY <1>1 DEF Ingest
  <2>3. CASE W = {}
    BY <2>1, <2>2, <2>3 DEF TypeOK
  <2>4. CASE W # {}
    <3>1. W \in SUBSET Numbers
      BY DEF Matching, OpenWaits
    <3>2. /\ loop' \in LoopRow /\ jobs' \subseteq JobRow
          /\ workers' \in [Workers -> WorkerState] /\ waits' \in [Numbers -> WaitRow]
      BY <2>1, <2>4, <3>1, AwakeType
    <3> QED  BY <2>1, <2>2, <2>4, <3>2 DEF TypeOK
  <2> QED  BY <2>3, <2>4
<1>2. ASSUME ReadLoop(a) PROVE TypeOK'
  BY <1>2 DEF ReadLoop, TypeOK
<1>3. ASSUME WriteLoop(a) PROVE TypeOK'
  <2>1. loop' \in LoopRow
    BY <1>3 DEF WriteLoop, TypeOK, LoopRow, LoopStates
  <2> QED  BY <1>3, <2>1 DEF WriteLoop, TypeOK
<1>4. ASSUME ScheduleResumed(a) PROVE TypeOK'
  BY <1>4, ScheduledType DEF ScheduleResumed, TypeOK
<1>5. ASSUME LoseResumption(a) PROVE TypeOK'
  BY <1>5 DEF LoseResumption, Upset, TypeOK
<1> QED  BY <1>1, <1>2, <1>3, <1>4, <1>5 DEF Resume

(* What an operator does keeps the types.                                   *)
LEMMA OperateType ==
    ASSUME TypeOK, Operate
    PROVE  TypeOK'
<1> USE ObjectiveAssumption
<1>1. upsets' \in 0..MaxUpsets /\ Halt /\ UNCHANGED <<jobs, workers, resuming>>
  BY DEF Operate, Interrupt, Cancel, Regenerate, Upset, TypeOK
<1>2. steps' \in [Numbers -> StepRow] /\ waits' \in [Numbers -> WaitRow]
  BY <1>1, HaltType
<1>3. actions' \in [Numbers -> 0..2]
  BY RejectSomeType DEF Operate, Interrupt, Cancel, Regenerate, TypeOK
<1>4. loop' \in LoopRow
  <2>1. CASE Interrupt
    BY <2>1, UnownedType DEF Interrupt, LoopRow, LoopStates, Terminal
  <2>2. CASE Cancel
    BY <2>2, UnownedType DEF Cancel, LoopRow, LoopStates, Terminal
  <2>3. CASE Regenerate
    <3>1. Unowned.rev + 1 \in Revisions
      BY <2>3 DEF Regenerate, Unowned, TypeOK, LoopRow, Revisions
    <3> QED  BY <2>3, <3>1, UnownedType DEF Regenerate, LoopRow, LoopStates
  <2> QED  BY <2>1, <2>2, <2>3 DEF Operate
<1> QED  BY <1>1, <1>2, <1>3, <1>4 DEF TypeOK

(* Faults of a worker keep the types.                                       *)
LEMMA FaultType ==
    ASSUME TypeOK, NEW w \in Workers, Crash(w) \/ Throw(w) \/ Lapse(w)
    PROVE  TypeOK'
<1> USE ObjectiveAssumption
<1>1. upsets' \in 0..MaxUpsets
  BY DEF Crash, Throw, Lapse, Upset, TypeOK
<1>2. ASSUME Crash(w) PROVE TypeOK'
  <2>1. workers' \in [Workers -> WorkerState] /\ jobs' \subseteq JobRow
    BY <1>2, LeaveType DEF Crash
  <2>2. loop' \in LoopRow
    BY <1>2 DEF Crash, TypeOK, LoopRow
  <2> QED  BY <1>1, <1>2, <2>1, <2>2 DEF Crash, TypeOK
<1>3. ASSUME Throw(w) PROVE TypeOK'
  <2>1. workers' \in [Workers -> WorkerState] /\ jobs' \subseteq JobRow
    BY <1>3, LeaveType DEF Throw
  <2>2. loop' \in LoopRow
    BY <1>3 DEF Throw, TypeOK, LoopRow
  <2> QED  BY <1>1, <1>3, <2>1, <2>2 DEF Throw, TypeOK
<1>4. ASSUME Lapse(w) PROVE TypeOK'
  <2>1. jobs' \subseteq JobRow
    BY <1>4 DEF Lapse, TypeOK, JobRow
  <2> QED  BY <1>1, <1>4, <2>1 DEF Lapse, TypeOK
<1> QED  BY <1>2, <1>3, <1>4

LEMMA TypeStep ==
    ASSUME TypeOK, [Next]_vars
    PROVE  TypeOK'
<1>1. ASSUME NEW w \in Workers, Iterate(w) \/ Crash(w) \/ Throw(w) \/ Lapse(w)
      PROVE  TypeOK'
  BY <1>1, IterateType, FaultType
<1>2. ASSUME NEW s \in Numbers,
             RunNode(s) \/ Settle(s) \/ Resume(s) \/ TimeOut(s) \/ LoseResumption(s)
      PROVE  TypeOK'
  BY <1>2, NodeType, ResumeType
<1>3. CASE Recover
  BY <1>3, ScheduledType DEF Recover, TypeOK
<1>4. CASE Operate
  BY <1>4, OperateType
<1>5. CASE Expire
  <2>1. loop' \in LoopRow
    BY <1>5 DEF Expire, TypeOK, LoopRow
  <2> QED  BY <1>5, <2>1 DEF Expire, TypeOK
<1>6. CASE UNCHANGED vars
  BY <1>6 DEF vars, TypeOK
<1> QED  BY <1>1, <1>2, <1>3, <1>4, <1>5, <1>6 DEF Next

-----------------------------------------------------------------------------
(* Rest.                                                                    *)

(* A step that gives the lease to nobody it did not have, and lets no       *)
(* worker in or forget what it read, disturbs neither conjunct.             *)
LEMMA QuietStep ==
    ASSUME TypeOK, Informed, RestsOnNews,
           loop'.owner \in {loop.owner, "none", "gone"},
           \/ /\ loop'.state = loop.state /\ loop'.heard = loop.heard
              /\ loop'.unstaffed = loop.unstaffed
           \/ loop'.state \notin {"waiting", "blocked", "failed"}
           \/ loop'.heard \/ loop'.unstaffed,
           \A w \in Workers :
               \/ workers'[w].at \notin {"claimed", "inspected"}
               \/ workers[w].at \in {"claimed", "inspected"} /\ workers'[w].fresh = workers[w].fresh
    PROVE  Informed' /\ RestsOnNews'
<1>1. "none" \notin Workers /\ "gone" \notin Workers
  BY ObjectiveAssumption
<1>2. Informed'
  BY <1>1 DEF Informed
<1>3. RestsOnNews'
  BY DEF RestsOnNews
<1> QED  BY <1>2, <1>3

(* Workers as they were, which is most steps.                               *)
LEMMA SameWorkers ==
    ASSUME TypeOK, UNCHANGED workers
    PROVE  \A w \in Workers :
               \/ workers'[w].at \notin {"claimed", "inspected"}
               \/ workers[w].at \in {"claimed", "inspected"} /\ workers'[w].fresh = workers[w].fresh
  BY DEF TypeOK, WorkerState

(* One worker leaves, and the others are as they were.                      *)
LEMMA OneLeaves ==
    ASSUME TypeOK, NEW v \in Workers, workers' = [workers EXCEPT ![v] = Idle]
    PROVE  \A w \in Workers :
               \/ workers'[w].at \notin {"claimed", "inspected"}
               \/ workers[w].at \in {"claimed", "inspected"} /\ workers'[w].fresh = workers[w].fresh
  BY DEF TypeOK, WorkerState, Idle

(* One worker goes on past its inspection, and the others are as they were. *)
LEMMA OneGoesOn ==
    ASSUME TypeOK, NEW v \in Workers,
           workers'[v].at \notin {"claimed", "inspected"},
           \A w \in Workers \ {v} : workers'[w] = workers[w]
    PROVE  \A w \in Workers :
               \/ workers'[w].at \notin {"claimed", "inspected"}
               \/ workers[w].at \in {"claimed", "inspected"} /\ workers'[w].fresh = workers[w].fresh
  OBVIOUS

LEMMA IterateRests ==
    ASSUME IInv, NEW w \in Workers, Iterate(w)
    PROVE  Informed' /\ RestsOnNews'
<1> USE ObjectiveAssumption
<1>0. TypeOK /\ Informed /\ RestsOnNews
  BY DEF IInv
<1>1. ASSUME NEW j \in jobs, Claim(w, j) PROVE Informed' /\ RestsOnNews'
  <2>1. loop'.owner = w
    BY <1>0, <1>1 DEF Claim, TypeOK, LoopRow
  <2>2. workers'[w].fresh
    BY <1>0, <1>1 DEF Claim, Begin, TypeOK
  <2>3. Informed'
    BY <2>1, <2>2 DEF Informed
  <2>4. \/ loop'.state = "continue"
        \/ /\ loop'.state = loop.state /\ loop'.heard = loop.heard
           /\ loop'.unstaffed = loop.unstaffed
    BY <1>0, <1>1 DEF Claim, TypeOK, LoopRow
  <2> QED  BY <1>0, <2>3, <2>4 DEF RestsOnNews
<1>2. ASSUME NEW j \in jobs, Decline(w, j) PROVE Informed' /\ RestsOnNews'
  BY <1>0, <1>2, SameWorkers, QuietStep DEF Decline
<1>3. ASSUME Inspect(w) PROVE Informed' /\ RestsOnNews'
  <2>1. \A v \in Workers :
            \/ workers'[v].at \notin {"claimed", "inspected"}
            \/ workers[v].at \in {"claimed", "inspected"} /\ workers'[v].fresh = workers[v].fresh
    BY <1>0, <1>3 DEF Inspect, TypeOK, WorkerState
  <2> QED  BY <1>0, <1>3, <2>1, QuietStep DEF Inspect
<1>4. ASSUME NEW asked \in LoopStates, Finish(w, asked) PROVE Informed' /\ RestsOnNews'
  <2>1. loop.owner = w /\ workers[w].at \in {"claimed", "inspected"}
    BY <1>4 DEF Finish, Current
  <2>2. workers[w].fresh
    BY <1>0, <2>1 DEF Informed
  <2>3. loop'.owner = "none" /\ loop'.heard = workers[w].fresh
    BY <1>0, <1>4, UnownedType DEF Finish, LoopRow
  <2>4. Informed'
    BY <2>3 DEF Informed
  <2>5. RestsOnNews'
    BY <2>2, <2>3 DEF RestsOnNews
  <2> QED  BY <2>4, <2>5
<1>5. ASSUME Refused(w) PROVE Informed' /\ RestsOnNews'
  <2>1. /\ loop'.owner = "gone" /\ loop'.state = loop.state
        /\ loop'.heard = loop.heard /\ loop'.unstaffed = loop.unstaffed
    BY <1>0, <1>5 DEF Refused, TypeOK, LoopRow
  <2> QED  BY <1>0, <1>5, <2>1, OneLeaves, QuietStep DEF Refused
<1>6. ASSUME Superseded(w) PROVE Informed' /\ RestsOnNews'
  BY <1>0, <1>6, OneLeaves, QuietStep DEF Superseded, Leave
<1>7. ASSUME ScheduleNext(w) PROVE Informed' /\ RestsOnNews'
  BY <1>0, <1>7, OneLeaves, QuietStep DEF ScheduleNext
<1>8. ASSUME Reserve(w) PROVE Informed' /\ RestsOnNews'
  <2>1. loop'.owner = "none" /\ loop'.state = "continue"
    BY <1>0, <1>8, UnownedType DEF Reserve, LoopRow
  <2>2. /\ workers'[w].at \notin {"claimed", "inspected"}
        /\ \A v \in Workers \ {w} : workers'[v] = workers[v]
    BY <1>0, <1>8 DEF Reserve, TypeOK, WorkerState
  <2> QED  BY <1>0, <2>1, <2>2, OneGoesOn, QuietStep
<1>9. ASSUME Retire(w) PROVE Informed' /\ RestsOnNews'
  <2>1. /\ loop'.owner \in {loop.owner, "none"} /\ loop'.state = loop.state
        /\ loop'.heard = loop.heard /\ loop'.unstaffed = loop.unstaffed
    BY <1>0, <1>9, UnownedType DEF Retire
  <2> QED  BY <1>0, <1>9, <2>1, OneLeaves, QuietStep DEF Retire, Leave
<1>10. ASSUME RequestAssignment(w) \/ RecordRefusal(w) PROVE Informed' /\ RestsOnNews'
  <2>1. loop' = loop
    BY <1>10 DEF RequestAssignment, RecordRefusal
  <2>2. /\ workers'[w].at \notin {"claimed", "inspected"}
        /\ \A v \in Workers \ {w} : workers'[v] = workers[v]
    BY <1>0, <1>10 DEF RequestAssignment, RecordRefusal, Leave, Idle, TypeOK, WorkerState
  <2> QED  BY <1>0, <2>1, <2>2, OneGoesOn, QuietStep
<1>11. ASSUME Park(w) PROVE Informed' /\ RestsOnNews'
  <2>1. /\ loop'.owner = loop.owner
        /\ loop' = loop \/ loop'.unstaffed
    BY <1>0, <1>11 DEF Park, TypeOK, LoopRow
  <2> QED  BY <1>0, <1>11, <2>1, OneLeaves, QuietStep DEF Park, Leave
<1>12. ASSUME Block(w) PROVE Informed' /\ RestsOnNews'
  <2>1. /\ loop'.owner \in {loop.owner, "none"}
        /\ loop' = loop \/ loop'.unstaffed
    BY <1>0, <1>12, UnownedType DEF Block, LoopRow
  <2> QED  BY <1>0, <1>12, <2>1, OneLeaves, QuietStep DEF Block
<1> QED  BY <1>1, <1>2, <1>3, <1>4, <1>5, <1>6, <1>7, <1>8, <1>9, <1>10, <1>11, <1>12 DEF Iterate

(* A wake: whoever was under way has lost the lease.                        *)
LEMMA AwakeRests ==
    ASSUME IInv, NEW W \in SUBSET Numbers, NEW how \in {"satisfied", "timed_out"},
           Awake(W, how)
    PROVE  Informed' /\ RestsOnNews'
<1>0. TypeOK /\ Informed /\ RestsOnNews /\ "none" \notin Workers
  BY ObjectiveAssumption DEF IInv
<1>1. CASE loop' = loop /\ workers' = workers
  BY <1>0, <1>1, SameWorkers, QuietStep
<1>2. CASE loop'.state = "continue" /\ loop'.owner = "none"
  BY <1>0, <1>2 DEF Informed, RestsOnNews
<1> QED  BY <1>0, <1>1, <1>2, AwakeType

LEMMA NodeRests ==
    ASSUME IInv, NEW s \in Numbers, RunNode(s) \/ Settle(s)
    PROVE  Informed' /\ RestsOnNews'
<1>0. TypeOK /\ Informed /\ RestsOnNews
  BY DEF IInv
<1>1. UNCHANGED workers
  BY DEF RunNode, Draft, Observe, FinishNode, FinishWaitNode, CompleteNode, ScheduleAfterNode, Settle
<1>2. /\ loop'.owner = loop.owner
      /\ loop' = loop \/ loop'.state \in {"continue", "completed"}
  BY <1>0 DEF RunNode, Draft, Observe, FinishNode, FinishWaitNode, CompleteNode,
              ScheduleAfterNode, Settle, TypeOK, LoopRow
<1> QED  BY <1>0, <1>1, <1>2, SameWorkers, QuietStep

LEMMA ResumeRests ==
    ASSUME IInv, NEW a \in Numbers, Resume(a) \/ TimeOut(a) \/ LoseResumption(a)
    PROVE  Informed' /\ RestsOnNews'
<1>0. TypeOK /\ Informed /\ RestsOnNews
  BY DEF IInv
<1>1. CASE \E W \in SUBSET Numbers, how \in {"satisfied", "timed_out"} : Awake(W, how)
  BY <1>1, AwakeRests
<1>2. CASE UNCHANGED workers /\ (loop' = loop \/ loop' = [loop EXCEPT !.state = "continue"])
  <2>1. /\ loop'.owner = loop.owner
        /\ loop' = loop \/ loop'.state = "continue"
    BY <1>0, <1>2 DEF TypeOK, LoopRow
  <2> QED  BY <1>0, <1>2, <2>1, SameWorkers, QuietStep
<1>3. CASE TimeOut(a)
  BY <1>1, <1>3 DEF TimeOut
<1>4. CASE Ingest(a)
  BY <1>1, <1>2, <1>4 DEF Ingest, Matching, OpenWaits
<1>5. CASE ReadLoop(a) \/ WriteLoop(a) \/ ScheduleResumed(a) \/ LoseResumption(a)
  BY <1>2, <1>5 DEF ReadLoop, WriteLoop, ScheduleResumed, LoseResumption
<1> QED  BY <1>3, <1>4, <1>5 DEF Resume

LEMMA OperateRests ==
    ASSUME IInv, Operate
    PROVE  Informed' /\ RestsOnNews'
<1>0. TypeOK /\ Informed /\ RestsOnNews
  BY DEF IInv
<1>1. UNCHANGED workers
  BY DEF Operate, Interrupt, Cancel, Regenerate
<1>2. /\ loop'.owner = "none"
      /\ loop'.state \in {"cancelled", "continue"} \/ loop'.heard
  <2>1. CASE Interrupt
    BY <1>0, <2>1, UnownedType DEF Interrupt, LoopRow
  <2>2. CASE Cancel
    BY <1>0, <2>2, UnownedType DEF Cancel, LoopRow
  <2>3. CASE Regenerate
    BY <1>0, <2>3, UnownedType DEF Regenerate, LoopRow
  <2> QED  BY <2>1, <2>2, <2>3 DEF Operate
<1> QED  BY <1>0, <1>1, <1>2, SameWorkers, QuietStep

LEMMA FaultRests ==
    ASSUME IInv, NEW w \in Workers, Crash(w) \/ Throw(w) \/ Lapse(w)
    PROVE  Informed' /\ RestsOnNews'
<1>0. TypeOK /\ Informed /\ RestsOnNews
  BY DEF IInv
<1>1. /\ loop'.owner \in {loop.owner, "none", "gone"}
      /\ loop'.state = loop.state /\ loop'.heard = loop.heard
      /\ loop'.unstaffed = loop.unstaffed
  BY <1>0 DEF Crash, Throw, Lapse, TypeOK, LoopRow
<1>2. UNCHANGED workers \/ workers' = [workers EXCEPT ![w] = Idle]
  BY DEF Crash, Throw, Lapse
<1> QED  BY <1>0, <1>1, <1>2, SameWorkers, OneLeaves, QuietStep

LEMMA InductiveStep ==
    ASSUME IInv, [Next]_vars
    PROVE  IInv'
<1>0. TypeOK /\ Informed /\ RestsOnNews /\ TypeOK'
  BY TypeStep DEF IInv
<1> SUFFICES Informed' /\ RestsOnNews'
  BY <1>0 DEF IInv
<1>1. ASSUME NEW w \in Workers, Iterate(w) \/ Crash(w) \/ Throw(w) \/ Lapse(w)
      PROVE  Informed' /\ RestsOnNews'
  BY <1>1, IterateRests, FaultRests
<1>2. ASSUME NEW s \in Numbers,
             RunNode(s) \/ Settle(s) \/ Resume(s) \/ TimeOut(s) \/ LoseResumption(s)
      PROVE  Informed' /\ RestsOnNews'
  BY <1>2, NodeRests, ResumeRests
<1>3. CASE Recover \/ UNCHANGED vars
  BY <1>0, <1>3, SameWorkers, QuietStep DEF Recover, vars
<1>4. CASE Operate
  BY <1>4, OperateRests
<1>5. CASE Expire
  <2>1. UNCHANGED workers /\ loop'.owner = loop.owner
        /\ loop'.state = loop.state /\ loop'.heard = loop.heard
        /\ loop'.unstaffed = loop.unstaffed
    BY <1>0, <1>5 DEF Expire, TypeOK, LoopRow
  <2> QED  BY <1>0, <2>1, SameWorkers, QuietStep
<1> QED  BY <1>1, <1>2, <1>3, <1>4, <1>5 DEF Next

-----------------------------------------------------------------------------
(* Every row keeps its type, whatever the workers, waits, wakes and         *)
(* operators do.                                                            *)
THEOREM TypeCorrect == Spec => []TypeOK
<1>1. Init => TypeOK
  BY TypeInit
<1>2. TypeOK /\ [Next]_vars => TypeOK'
  BY TypeStep
<1> QED  BY <1>1, <1>2, PTL DEF Spec

(* An objective never comes to rest on the word of an iteration that its    *)
(* last wake overtook, however many workers, waits and wakes there are      *)
(* (claimWaitWakeTx against finishIteration), save by the rest for want of  *)
(* a worker.                                                                *)
THEOREM RestsAreInformed == Spec => []RestsOnNews
<1>1. Init => IInv
  <2>1. ASSUME Init PROVE Informed /\ RestsOnNews
    BY <2>1, ObjectiveAssumption DEF Init, Informed, RestsOnNews, Idle
  <2> QED  BY <2>1, TypeInit DEF IInv
<1>2. IInv /\ [Next]_vars => IInv'
  BY InductiveStep
<1>3. IInv => RestsOnNews
  BY DEF IInv
<1> QED  BY <1>1, <1>2, <1>3, PTL DEF Spec
=============================================================================
