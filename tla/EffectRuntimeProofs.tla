------------------------ MODULE EffectRuntimeProofs ------------------------
(***************************************************************************)
(* Proofs, for every number of workers, claims, generations and every      *)
(* choice of controls, that the rows of EffectRuntime stay well typed,     *)
(* that one authorized effect is applied again only after every earlier    *)
(* application was denied (its call took effect and was told that it       *)
(* failed), that success is recorded only for an effect that was applied,  *)
(* that a retry is offered only while none stands and none is under way,   *)
(* that a verified effect stays so, and that EffectRuntime implements      *)
(* OutsideEffect, which makes the same exception.                          *)
(***************************************************************************)
EXTENDS EffectRuntime, TLAPS

-----------------------------------------------------------------------------
(* Types.                                                                   *)

(* The rows a settlement may touch stay well typed.                         *)
LEMMA SettleTypes ==
    ASSUME TypeOK, NEW w \in Workers, NEW status \in StepStatus, NEW exec \in ExecutionState,
           SettleStep(w, status, exec)
    PROVE  step' \in Step /\ leaseLive' \in BOOLEAN /\ claims' \in [Fences -> ClaimOutcome]
<1>1. step \in Step /\ leaseLive \in BOOLEAN /\ claims \in [Fences -> ClaimOutcome]
  BY DEF TypeOK
<1>2. CASE UNCHANGED <<step, leaseLive, claims>>
  BY <1>1, <1>2
<1>3. CASE MoveStep(status, exec)
  <2>1. step' \in Step /\ leaseLive' \in BOOLEAN
    BY <1>1, <1>3 DEF MoveStep, Step
  <2>2. claims' \in [Fences -> ClaimOutcome]
    BY <1>1 DEF SettleStep, CloseClaim, ClaimOutcome
  <2> QED
    BY <2>1, <2>2
<1> QED
  BY <1>2, <1>3 DEF SettleStep

(* Closing a claim keeps the history well typed.                            *)
LEMMA CloseTypes ==
    ASSUME TypeOK, NEW f, CloseClaim(f)
    PROVE  claims' \in [Fences -> ClaimOutcome]
  BY DEF TypeOK, CloseClaim, ClaimOutcome

(* The slot that every execution starts from and returns to.                *)
LEMMA IdleIsSlot == Idle \in Slot
  BY ConstantsAssumption DEF Idle, Slot, Pc, Gens, Result, Verdict

(* A slot moved to another transaction, with or without an answer.          *)
LEMMA SlotMoves ==
    ASSUME TypeOK, NEW w \in Workers, NEW pc \in Pc
    PROVE  [worker EXCEPT ![w].pc = pc] \in [Workers -> Slot]
<1> DEFINE s == [worker[w] EXCEPT !.pc = pc]
<1>1. worker[w] \in Slot /\ worker \in [Workers -> Slot]
  BY DEF TypeOK
<1>2. s \in Slot
  BY <1>1 DEF Slot
<1>3. [worker EXCEPT ![w].pc = pc] = [worker EXCEPT ![w] = s]
  BY <1>1
<1> HIDE DEF s
<1> QED
  BY <1>1, <1>2, <1>3

LEMMA SlotAnswers ==
    ASSUME TypeOK, NEW w \in Workers, NEW pc \in Pc, NEW r \in Result
    PROVE  [worker EXCEPT ![w].pc = pc, ![w].result = r] \in [Workers -> Slot]
<1> DEFINE s == [worker[w] EXCEPT !.pc = pc, !.result = r]
<1>1. worker[w] \in Slot /\ worker \in [Workers -> Slot]
  BY DEF TypeOK
<1>2. s \in Slot
  BY <1>1 DEF Slot
<1>3. [worker EXCEPT ![w].pc = pc, ![w].result = r] = [worker EXCEPT ![w] = s]
  BY <1>1
<1> HIDE DEF s
<1> QED
  BY <1>1, <1>2, <1>3

LEMMA SlotJudges ==
    ASSUME TypeOK, NEW w \in Workers, NEW pc \in Pc, NEW v \in Verdict
    PROVE  [worker EXCEPT ![w].pc = pc, ![w].verdict = v] \in [Workers -> Slot]
<1> DEFINE s == [worker[w] EXCEPT !.pc = pc, !.verdict = v]
<1>1. worker[w] \in Slot /\ worker \in [Workers -> Slot]
  BY DEF TypeOK
<1>2. s \in Slot
  BY <1>1 DEF Slot
<1>3. [worker EXCEPT ![w].pc = pc, ![w].verdict = v] = [worker EXCEPT ![w] = s]
  BY <1>1
<1> HIDE DEF s
<1> QED
  BY <1>1, <1>2, <1>3

(* A slot that reads the operation row, or is done with what it read.        *)
LEMMA SlotOpens ==
    ASSUME TypeOK, NEW w \in Workers, NEW pc \in Pc, NEW r \in Result, NEW saw \in BOOLEAN
    PROVE  /\ [worker[w] EXCEPT !.pc = pc, !.sawExecuting = saw] \in Slot
           /\ [worker[w] EXCEPT !.pc = pc, !.result = r, !.sawExecuting = saw] \in Slot
<1>1. worker[w] \in Slot
  BY DEF TypeOK
<1> QED
  BY <1>1 DEF Slot

(* A slot that starts over.                                                 *)
LEMMA SlotRestarts ==
    ASSUME TypeOK, NEW w \in Workers, NEW s \in Slot
    PROVE  [worker EXCEPT ![w] = s] \in [Workers -> Slot]
  BY DEF TypeOK

(* A slot that is done with recovery.                                       *)
LEMMA SlotRecovers ==
    ASSUME TypeOK, NEW w \in Workers, Recovered(w)
    PROVE  worker' \in [Workers -> Slot]
<1>1. worker[w].gen \in Gens
  BY DEF TypeOK, Slot
<1>2. [Idle EXCEPT !.pc = "eligible", !.gen = worker[w].gen] \in Slot
  BY <1>1, IdleIsSlot DEF Slot, Pc
<1> QED
  BY <1>2, SlotRestarts DEF Recovered

(* A slot that moves on or gives up.                                        *)
LEMMA SlotMovesOrReturns ==
    ASSUME TypeOK, NEW w \in Workers, NEW pc \in Pc, GoTo(w, pc) \/ Return(w)
    PROVE  worker' \in [Workers -> Slot]
<1>1. CASE GoTo(w, pc)
  BY <1>1, SlotMoves DEF GoTo
<1>2. CASE Return(w)
  BY <1>2, IdleIsSlot, SlotRestarts DEF Return
<1> QED
  BY <1>1, <1>2

(* A step that reads the rows and writes only its own slot.                 *)
LEMMA SlotOnlyTypes ==
    ASSUME TypeOK, UNCHANGED <<rows, cancel>>, worker' \in [Workers -> Slot],
           (applied \union denied)' \subseteq 0..MaxClaims
    PROVE  TypeOK'
  BY DEF TypeOK, rows

(* A step of a worker on its way to a claim, or of recovery, is well typed. *)
LEMMA DeliverRecoverTypes ==
    ASSUME TypeOK, NEW w \in Workers, Deliver(w) \/ Recover(w)
    PROVE  TypeOK'
<1> USE IdleIsSlot, ConstantsAssumption
<1>1. CASE \E g \in Gens : StartStepJob(w, g)
  <2>1. PICK g \in Gens : StartStepJob(w, g)
    BY <1>1
  <2>2. [Idle EXCEPT !.pc = "recovering", !.gen = g] \in Slot
    BY DEF Slot, Pc
  <2> QED
    BY <2>1, <2>2, SlotRestarts, SlotOnlyTypes DEF StartStepJob, TypeOK
<1>2. CASE StartObservation(w)
  <2> DEFINE s == [Idle EXCEPT !.pc = "observing", !.kind = "observation", !.gen = step.gen,
                               !.result = IF op = "succeeded" THEN "success" ELSE "recovered"]
  <2>1. step.gen \in Gens
    BY DEF TypeOK, Step
  <2>2. s \in Slot
    BY <2>1 DEF Slot, Pc, Result
  <2>3. worker' = [worker EXCEPT ![w] = s]
    BY <1>2 DEF StartObservation
  <2> HIDE DEF s
  <2> QED
    BY <1>2, <2>2, <2>3, SlotRestarts, SlotOnlyTypes DEF StartObservation, TypeOK
<1>3. CASE RecoverRead(w)
  <2> DEFINE s == IF StepIsStale THEN [worker[w] EXCEPT !.pc = "inspecting", !.seen = step.fence]
                  ELSE [worker[w] EXCEPT !.pc = "eligible"]
  <2>2. worker[w] \in Slot /\ step.fence \in 0..MaxClaims
    BY DEF TypeOK, Step
  <2>3. s \in Slot
    BY <2>2 DEF Slot, Pc
  <2>4. worker' = [worker EXCEPT ![w] = s]
    BY <1>3 DEF RecoverRead
  <2>1. worker' \in [Workers -> Slot]
    <3> HIDE DEF s
    <3> QED
      BY <2>3, <2>4, SlotRestarts
  <2> QED
    BY <1>3, <2>1, SlotOnlyTypes DEF RecoverRead, TypeOK
<1>4. CASE RecoverInspect(w)
  BY <1>4, SlotMoves, SlotOnlyTypes DEF RecoverInspect, GoTo, TypeOK, Pc
<1>5. CASE RecoverRearm(w)
  <2>1. claims' \in [Fences -> ClaimOutcome]
    BY <1>5, CloseTypes DEF RecoverRearm, TypeOK, ClaimOutcome
  <2>2. leaseLive' \in BOOLEAN /\ step.gen \in Gens
    BY <1>5 DEF RecoverRearm, RedriveTo, TypeOK, Step
  <2>4. step.gen < MaxGen => step.gen + 1 \in Gens
    BY <2>2 DEF Gens
  <2>5. step' \in Step /\ sent' \subseteq Gens
    BY <1>5, <2>4 DEF RecoverRearm, RedriveTo, TypeOK, Step, StepStatus, ExecutionState
  <2>3. worker' \in [Workers -> Slot]
    BY <1>5, SlotRecovers DEF RecoverRearm
  <2> QED
    BY <1>5, <2>1, <2>2, <2>3, <2>5 DEF RecoverRearm, TypeOK
<1>6. CASE RecoverPark(w)
  <2>1. claims' \in [Fences -> ClaimOutcome]
    BY <1>6, CloseTypes DEF RecoverPark, TypeOK, ClaimOutcome
  <2>2. step' \in Step /\ leaseLive' \in BOOLEAN
    BY <1>6 DEF RecoverPark, MoveStep, TypeOK, Step, StepStatus, ExecutionState
  <2>3. worker' \in [Workers -> Slot]
    BY <1>6, SlotRecovers DEF RecoverPark
  <2> QED
    BY <1>6, <2>1, <2>2, <2>3 DEF RecoverPark, TypeOK
<1>7. CASE RecoverOpenCase(w)
  <2>1. worker' \in [Workers -> Slot]
    BY <1>7, SlotMoves DEF RecoverOpenCase, GoTo, Pc
  <2> QED
    BY <1>7, <2>1 DEF RecoverOpenCase, TypeOK
<1>8. CASE RecoverDoubt(w)
  <2>1. claims' \in [Fences -> ClaimOutcome]
    BY <1>8, CloseTypes DEF RecoverDoubt, TypeOK, ClaimOutcome
  <2>2. step' \in Step /\ leaseLive' \in BOOLEAN
    BY <1>8 DEF RecoverDoubt, MoveStep, TypeOK, Step, StepStatus, ExecutionState
  <2>3. worker' \in [Workers -> Slot]
    BY <1>8, SlotRecovers DEF RecoverDoubt
  <2>4. op' \in OpStatus /\ effect' \in EffectStatus /\ action' \in ActionStatus
    BY <1>8 DEF RecoverDoubt, NeedsReview, TypeOK, OpStatus, EffectStatus, ActionStatus
  <2> QED
    BY <1>8, <2>1, <2>2, <2>3, <2>4 DEF RecoverDoubt, TypeOK
<1> QED
  BY <1>1, <1>2, <1>3, <1>4, <1>5, <1>6, <1>7, <1>8 DEF Deliver, Recover

(* So is a step between the claim and the plugin.                           *)
LEMMA PrepareTypes ==
    ASSUME TypeOK, NEW w \in Workers, Prepare(w)
    PROVE  TypeOK'
<1> USE IdleIsSlot, ConstantsAssumption
<1>1. CASE CheckEligibility(w)
  <2>1. worker' = [worker EXCEPT ![w].pc = "claiming"]
        \/ worker' = [worker EXCEPT ![w].pc = "ineligible"]
    BY <1>1 DEF CheckEligibility, GoTo
  <2>2. worker' \in [Workers -> Slot]
    <3>1. CASE worker' = [worker EXCEPT ![w].pc = "claiming"]
      BY <3>1, SlotMoves DEF Pc
    <3>2. CASE worker' = [worker EXCEPT ![w].pc = "ineligible"]
      BY <3>2, SlotMoves DEF Pc
    <3> QED
      BY <2>1, <3>1, <3>2
  <2> QED
    BY <1>1, <2>2, SlotOnlyTypes DEF CheckEligibility, TypeOK
<1>2. CASE RecordIneligibility(w)
  <2>1. step' \in Step
    BY <1>2 DEF RecordIneligibility, TypeOK, Step, StepStatus, ExecutionState
  <2>2. run' \in RunStatus /\ command' \in CommandStatus /\ action' \in ActionStatus
    BY <1>2 DEF RecordIneligibility, NeedsReview, TypeOK, RunStatus, CommandStatus, ActionStatus
  <2> QED
    BY <1>2, <2>1, <2>2, SlotRestarts DEF RecordIneligibility, Return, TypeOK
<1>3. CASE ClaimStep(w)
  <2> DEFINE f == step.fence + 1
             s == [Idle EXCEPT !.pc = "admitting", !.gen = worker[w].gen, !.fence = f]
  <2>1. CASE step.status = "pending" /\ step.gen = worker[w].gen /\ run = "running"
    <3>1. f \in Fences /\ f \in 0..MaxClaims
      BY <1>3, <2>1 DEF ClaimStep, Fences
    <3>2. step' \in Step /\ leaseLive' \in BOOLEAN
      <4>1. /\ step' = [step EXCEPT !.status = "leased", !.exec = "claimed", !.fence = f]
            /\ leaseLive' = TRUE
        BY <1>3, <2>1 DEF ClaimStep
      <4>2. step \in Step
        BY DEF TypeOK
      <4> HIDE DEF f
      <4> QED
        BY <3>1, <4>1, <4>2 DEF Step, StepStatus, ExecutionState
    <3>3. claims' \in [Fences -> ClaimOutcome]
      BY <1>3, <2>1, <3>1 DEF ClaimStep, TypeOK, ClaimOutcome
    <3>4. s \in Slot
      <4>1. worker[w].gen \in Gens
        BY DEF TypeOK, Slot
      <4> HIDE DEF f
      <4> QED
        BY <3>1, <4>1 DEF Slot, Pc
    <3>5. worker' = [worker EXCEPT ![w] = s]
      BY <1>3, <2>1 DEF ClaimStep
    <3>6. worker' \in [Workers -> Slot]
      <4> HIDE DEF s
      <4> QED
        BY <3>4, <3>5, SlotRestarts
    <3> QED
      BY <1>3, <3>2, <3>3, <3>6 DEF ClaimStep, TypeOK
  <2>2. CASE ~(step.status = "pending" /\ step.gen = worker[w].gen /\ run = "running")
    BY <1>3, <2>2, SlotRestarts DEF ClaimStep, Return, TypeOK
  <2> QED
    BY <2>1, <2>2
<1>4. CASE Admit(w)
  <2>1. CASE GoTo(w, "committing") \/ Return(w)
    <3>1. worker' \in [Workers -> Slot]
      BY <2>1, SlotMovesOrReturns DEF Pc
    <3> QED
      BY <1>4, <3>1, SlotOnlyTypes DEF Admit, TypeOK
  <2>2. CASE GoTo(w, "blocking")
    <3>1. worker' \in [Workers -> Slot]
      BY <2>2, SlotMovesOrReturns DEF Pc
    <3> QED
      BY <1>4, <3>1, SlotOnlyTypes DEF Admit, TypeOK
  <2> QED
    BY <1>4, <2>1, <2>2 DEF Admit
<1>0. worker[w] \in Slot /\ worker \in [Workers -> Slot]
  BY DEF TypeOK
<1>5. CASE BeginEffectCommit(w)
  <2> DEFINE saw == effect = "executing"
             s == [worker[w] EXCEPT !.pc = "opening", !.sawExecuting = saw]
  <2>1. worker' = [worker EXCEPT ![w] = s]
    BY <1>0, <1>5 DEF BeginEffectCommit
  <2>2. saw \in BOOLEAN /\ "opening" \in Pc /\ "none" \in Result
    BY DEF Pc, Result
  <2> HIDE DEF saw
  <2>3. s \in Slot
    BY <2>2, SlotOpens
  <2> HIDE DEF s
  <2>4. worker' \in [Workers -> Slot]
    BY <2>1, <2>3, SlotRestarts
  <2>5. UNCHANGED <<rows, cancel>> /\ (applied \union denied)' \subseteq 0..MaxClaims
    BY <1>5 DEF BeginEffectCommit, TypeOK
  <2> QED
    BY <2>4, <2>5, SlotOnlyTypes
<1>8. ASSUME StartOperation(w) PROVE TypeOK'
  <2> DEFINE s == [worker[w] EXCEPT !.pc = "executing", !.sawExecuting = FALSE]
  <2>1. s \in Slot
    BY <1>0 DEF Slot, Pc
  <2>2. worker' = [worker EXCEPT ![w] = s]
    BY <1>0, <1>8 DEF StartOperation
  <2> HIDE DEF s
  <2>3. worker' \in [Workers -> Slot]
    BY <2>1, <2>2, SlotRestarts
  <2>4. step' \in Step
    BY <1>8 DEF StartOperation, TypeOK, Step, ExecutionState
  <2>5. claims' \in [Fences -> ClaimOutcome]
    BY <1>8 DEF StartOperation, TypeOK, ClaimOutcome
  <2>6. effect' \in EffectStatus /\ op' \in OpStatus
    BY <1>8 DEF StartOperation, TypeOK, EffectStatus, OpStatus
  <2> QED
    BY <1>8, <2>3, <2>4, <2>5, <2>6 DEF StartOperation, TypeOK
<1>9. CASE FindOperation(w) \/ ReclaimOperation(w)
  <2>1. CASE op = "none" \/ ReclaimOperation(w)
    BY <1>8, <1>9, <2>1 DEF FindOperation, ReclaimOperation
  <2>2. CASE FindOperation(w) /\ op # "none"
    <3> DEFINE pc == CASE op = "failed" -> "reclaiming"
                       [] op = "succeeded" -> "observing"
                       [] op \in {"running", "unknown"} -> "doubtful"
               r == IF op = "succeeded" THEN "success" ELSE "none"
               saw == worker[w].sawExecuting /\ op = "failed"
               s == [worker[w] EXCEPT !.pc = pc, !.result = r, !.sawExecuting = saw]
    <3>1. worker' = [worker EXCEPT ![w] = s]
      BY <1>0, <2>2 DEF FindOperation
    <3>2. pc \in {"reclaiming", "observing", "doubtful"}
      BY <2>2 DEF TypeOK, OpStatus
    <3>3. r \in Result /\ pc \in Pc
      BY <3>2 DEF Result, Pc
    <3>5. saw \in BOOLEAN
      OBVIOUS
    <3> HIDE DEF pc, r, saw
    <3>4. s \in Slot
      BY <3>3, <3>5, SlotOpens
    <3> HIDE DEF s
    <3> QED
      BY <2>2, <3>1, <3>4, SlotRestarts, SlotOnlyTypes DEF FindOperation, TypeOK
  <2> QED
    BY <1>9, <2>1, <2>2
<1>10. CASE DoubtOperation(w)
  <2> DEFINE s == [worker[w] EXCEPT !.pc = "reconciling", !.result = "uncommitted",
                                    !.sawExecuting = FALSE]
  <2>1. s \in Slot
    BY <1>0 DEF Slot, Pc, Result
  <2>2. worker' = [worker EXCEPT ![w] = s]
    BY <1>0, <1>10 DEF DoubtOperation
  <2> HIDE DEF s
  <2>3. worker' \in [Workers -> Slot]
    BY <2>1, <2>2, SlotRestarts
  <2>4. step' \in Step
    BY <1>10 DEF DoubtOperation, TypeOK, Step, ExecutionState
  <2>5. effect' \in EffectStatus /\ action' \in ActionStatus
    BY <1>10 DEF DoubtOperation, EffectStatus, ActionStatus
  <2> QED
    BY <1>10, <2>3, <2>4, <2>5 DEF DoubtOperation, TypeOK
<1>6. CASE RefuseEffectCommit(w)
  <2> DEFINE s == [worker[w] EXCEPT !.pc = "blocking", !.sawExecuting = FALSE]
  <2>1. s \in Slot
    BY <1>0 DEF Slot, Pc
  <2>2. Return(w) \/ worker' = [worker EXCEPT ![w] = s]
    BY <1>0, <1>6 DEF RefuseEffectCommit
  <2> HIDE DEF s
  <2>3. CASE Return(w)
    BY <1>6, <2>3, SlotRestarts, SlotOnlyTypes DEF RefuseEffectCommit, Return, TypeOK
  <2>4. CASE worker' = [worker EXCEPT ![w] = s]
    BY <1>6, <2>1, <2>4, SlotRestarts, SlotOnlyTypes DEF RefuseEffectCommit, TypeOK
  <2> QED
    BY <2>2, <2>3, <2>4
<1>7. CASE BlockBeforeEffect(w)
  <2>1. worker' \in [Workers -> Slot]
    BY <1>7, SlotAnswers DEF BlockBeforeEffect, Pc, Result
  <2>2. step' \in Step
    BY <1>7 DEF BlockBeforeEffect, TypeOK, Step, ExecutionState
  <2>3. effect' \in EffectStatus /\ action' \in ActionStatus
    BY <1>7 DEF BlockBeforeEffect, NeedsReview, TypeOK, EffectStatus, ActionStatus
  <2> QED
    BY <1>7, <2>1, <2>2, <2>3 DEF BlockBeforeEffect, TypeOK
<1> QED
  BY <1>1, <1>2, <1>3, <1>4, <1>5, <1>6, <1>7, <1>9, <1>10 DEF Prepare

(* So is a step that calls the plugin, records its answer or settles.       *)
LEMMA ExecuteTypes ==
    ASSUME TypeOK, SlotsCarry, NEW w \in Workers, Execute(w) \/ HandlerThrows(w)
    PROVE  TypeOK'
<1> USE IdleIsSlot, ConstantsAssumption
<1>0. worker[w] \in Slot
  BY DEF TypeOK
<1>1. CASE VerifyDispatch(w)
  <2>1. worker' = [worker EXCEPT ![w].pc = "dispatching"]
        \/ worker' = [worker EXCEPT ![w].pc = "returned", ![w].result = "failure"]
    BY <1>1 DEF VerifyDispatch, GoTo
  <2>2. worker' \in [Workers -> Slot]
    <3>1. CASE worker' = [worker EXCEPT ![w].pc = "dispatching"]
      BY <3>1, SlotMoves DEF Pc
    <3>2. CASE worker' = [worker EXCEPT ![w].pc = "returned", ![w].result = "failure"]
      BY <3>2, SlotAnswers DEF Pc, Result
    <3> QED
      BY <2>1, <3>1, <3>2
  <2> QED
    BY <1>1, <2>2, SlotOnlyTypes DEF VerifyDispatch, TypeOK
<1>2. CASE Dispatch(w)
  <2>1. worker' \in [Workers -> Slot]
    <3>1. PICK answer \in {"success", "failure", "unknown"} :
            worker' = [worker EXCEPT ![w].pc = "returned", ![w].result = answer]
      BY <1>2 DEF Dispatch
    <3>2. answer \in Result /\ "returned" \in Pc
      BY DEF Result, Pc
    <3> QED
      BY <3>1, <3>2, SlotAnswers
  <2>2. (applied \union denied)' \subseteq 0..MaxClaims
    BY <1>0, <1>2 DEF Dispatch, TypeOK, Slot
  <2> QED
    BY <1>2, <2>1, <2>2, SlotOnlyTypes DEF Dispatch
<1>3. CASE RecordSemanticOperation(w)
  <2>1. worker' \in [Workers -> Slot]
    BY <1>3, SlotMoves DEF RecordSemanticOperation, GoTo, Pc
  <2>2. op' \in OpStatus
    BY <1>3 DEF RecordSemanticOperation, SlotsCarry, Carries, Answers, OpStatus
  <2> QED
    BY <1>3, <2>1, <2>2 DEF RecordSemanticOperation, TypeOK
<1>4. CASE RecordBusinessEffectOutcome(w)
  <2>1. PICK v \in Verdicts(w) :
          /\ effect' = CASE v = "verified" -> "verified"
                         [] v = "missing" -> "divergent"
                         [] v = "failed" -> "failed"
                         [] v = "uncertain" -> "reconciliation_required"
          /\ caseOpen' = (caseOpen \/ v = "uncertain")
          /\ worker' = [worker EXCEPT ![w].pc = "projecting", ![w].verdict = v]
    BY <1>4 DEF RecordBusinessEffectOutcome
  <2>2. v \in {"verified", "missing", "failed", "uncertain"}
    BY <2>1 DEF Verdicts
  <2>3. worker' \in [Workers -> Slot]
    BY <2>1, <2>2, SlotJudges DEF Verdict, Pc
  <2>4. effect' \in EffectStatus
    BY <2>1, <2>2 DEF EffectStatus
  <2>5. caseOpen' \in BOOLEAN
    BY <2>1, <2>2 DEF TypeOK
  <2> QED
    BY <1>4, <2>3, <2>4, <2>5 DEF RecordBusinessEffectOutcome, TypeOK
<1>5. CASE Project(w)
  <2>1. worker[w].result \in Answers /\ worker[w].verdict \in Verdict \ {"none"}
    BY <1>0, <1>5 DEF Project, SlotsCarry, Carries, Slot
  <2>2. ProjectedAction(w) \in ActionStatus
    BY <2>1 DEF ProjectedAction, SettlementMissing, Answers, ActionStatus
  <2>3. ProjectedExecution(w) \in ExecutionState
    BY <2>1 DEF ProjectedExecution, Verdict, ExecutionState
  <2>4. worker' \in [Workers -> Slot]
    BY <1>5, SlotMoves DEF Project, GoTo, Pc
  <2>5. action' \in ActionStatus
    BY <1>5, <2>2 DEF Project, TypeOK
  <2>6. step' \in Step
    BY <1>5, <2>3 DEF Project, TypeOK, Step
  <2>7. caseOpen' \in BOOLEAN
    BY <1>5 DEF Project, TypeOK
  <2> QED
    BY <1>5, <2>4, <2>5, <2>6, <2>7 DEF Project, TypeOK
<1>6. CASE OpenReconciliationCase(w)
  <2>1. worker' \in [Workers -> Slot]
    BY <1>6, SlotMoves DEF OpenReconciliationCase, GoTo, Pc
  <2> QED
    BY <1>6, <2>1 DEF OpenReconciliationCase, TypeOK
<1>7. CASE Settle(w)
  <2>1. worker[w].result \in Result \ {"none"}
    BY <1>0, <1>7 DEF Settle, SlotsCarry, Carries, Slot
  <2>2. step.exec \in ExecutionState
    BY DEF TypeOK, Step
  <2>3. \/ FailStep(w, "failed_after_possible_effect")
        \/ CompleteStep(w)
        \/ FailStep(w, step.exec)
    BY <1>7, <2>1 DEF Settle, Result
  <2>4. step' \in Step /\ leaseLive' \in BOOLEAN /\ claims' \in [Fences -> ClaimOutcome]
    BY <2>2, <2>3, SettleTypes
       DEF FailStep, CompleteStep, StepStatus, ExecutionState, ClaimOutcome
  <2>5. worker' \in [Workers -> Slot]
    <3>1. [Idle EXCEPT !.pc = "advancing"] \in Slot
      BY DEF Slot, Pc
    <3> QED
      BY <1>7, <3>1, SlotRestarts DEF Settle
  <2> QED
    BY <1>7, <2>4, <2>5 DEF Settle, TypeOK
<1>8. CASE HandlerThrows(w)
  <2>1. step.exec \in ExecutionState
    BY DEF TypeOK, Step
  <2>2. step' \in Step /\ leaseLive' \in BOOLEAN /\ claims' \in [Fences -> ClaimOutcome]
    BY <1>8, <2>1, SettleTypes DEF HandlerThrows, FailStep, StepStatus, ClaimOutcome
  <2> QED
    BY <1>8, <2>2, SlotRestarts DEF HandlerThrows, Return, TypeOK
<1> QED
  BY <1>1, <1>2, <1>3, <1>4, <1>5, <1>6, <1>7, <1>8 DEF Execute

(* So is a step of advanceWorkflow, a heartbeat and a crash.                *)
LEMMA AdvanceTypes ==
    ASSUME TypeOK, SlotsCarry, NEW w \in Workers,
           Advance(w) \/ HeartbeatStepClaim(w) \/ Crash(w)
    PROVE  TypeOK'
<1> USE IdleIsSlot, ConstantsAssumption
<1>0. worker[w] \in Slot /\ step \in Step
  BY DEF TypeOK
<1>1. CASE AdvanceRead(w)
  <2>1. worker' \in [Workers -> Slot]
    <3> DEFINE s == CASE step.status = "pending" -> [worker[w] EXCEPT !.pc = "enqueueing"]
                      [] step.status \in {"completed", "failed"} ->
                           [worker[w] EXCEPT !.pc = "finishing", !.final = step.status]
                      [] OTHER -> Idle
    <3>1. worker' = [worker EXCEPT ![w] = s]
      BY <1>1 DEF AdvanceRead
    <3>2. CASE step.status = "pending"
      <4>1. s = [worker[w] EXCEPT !.pc = "enqueueing"]
        BY <3>2
      <4>2. s \in Slot
        <5> HIDE DEF s
        <5> QED
          BY <1>0, <4>1 DEF Slot, Pc
      <4> HIDE DEF s
      <4> QED
        BY <3>1, <4>2, SlotRestarts
    <3>3. CASE step.status \in {"completed", "failed"}
      <4>1. s = [worker[w] EXCEPT !.pc = "finishing", !.final = step.status]
        BY <3>3
      <4>2. s \in Slot
        <5> HIDE DEF s
        <5> QED
          BY <1>0, <3>3, <4>1 DEF Slot, Pc
      <4> HIDE DEF s
      <4> QED
        BY <3>1, <4>2, SlotRestarts
    <3>4. CASE step.status \notin {"pending", "completed", "failed"}
      <4>1. s = Idle
        BY <3>4
      <4> HIDE DEF s
      <4> QED
        BY <3>1, <4>1, SlotRestarts
    <3> QED
      BY <3>2, <3>3, <3>4
  <2> QED
    BY <1>1, <2>1, SlotOnlyTypes DEF AdvanceRead, TypeOK
<1>2. CASE EnqueueStep(w)
  <2>1. step.gen < MaxGen => step.gen + 1 \in Gens
    BY <1>0 DEF Step, Gens
  <2>2. step.gen \in Gens
    BY <1>0 DEF Step
  <2>3. step' \in Step /\ sent' \subseteq Gens
    BY <1>2, <2>1, <2>2 DEF EnqueueStep, TypeOK, Step
  <2> QED
    BY <1>2, <2>3, SlotRestarts DEF EnqueueStep, Return, TypeOK
<1>3. CASE FinishRun(w)
  <2>1. worker[w].final \in {"completed", "failed"}
    BY <1>0, <1>3 DEF FinishRun, SlotsCarry, Carries, Slot
  <2>2. run' \in RunStatus
    BY <1>3, <2>1 DEF FinishRun, TypeOK, RunStatus
  <2>3. worker' \in [Workers -> Slot]
    <3>1. GoTo(w, "commanding") \/ Return(w)
      BY <1>3 DEF FinishRun
    <3> QED
      BY <3>1, SlotMovesOrReturns DEF Pc
  <2> QED
    BY <1>3, <2>2, <2>3 DEF FinishRun, TypeOK
<1>4. CASE FinishCommand(w)
  <2>1. worker[w].final \in {"completed", "failed"}
    BY <1>0, <1>4 DEF FinishCommand, SlotsCarry, Carries, Slot
  <2>2. command' \in CommandStatus
    BY <1>4, <2>1 DEF FinishCommand, CommandStatus
  <2> QED
    BY <1>4, <2>2, SlotRestarts DEF FinishCommand, Return, TypeOK
<1>5. CASE HeartbeatStepClaim(w)
  BY <1>5 DEF HeartbeatStepClaim, TypeOK
<1>6. CASE Crash(w)
  BY <1>6, SlotRestarts, SlotOnlyTypes DEF Crash, Return, TypeOK
<1> QED
  BY <1>1, <1>2, <1>3, <1>4, <1>5, <1>6 DEF Advance

(* So is a control, and the passing of a lease.                             *)
LEMMA OperateTypes ==
    ASSUME TypeOK, Operate \/ ExpireLease
    PROVE  TypeOK'
<1> USE ConstantsAssumption
<1>0. /\ step \in Step
      /\ step.gen \in Gens
      /\ step.gen < MaxGen => step.gen + 1 \in Gens
  BY DEF TypeOK, Step, Gens
<1>1. CASE Pause \/ Escalate \/ ExpireLease
  BY <1>1 DEF Pause, Escalate, ExpireLease, TypeOK, RunStatus
<1>2. CASE Resume
  <2>1. step' \in Step /\ sent' \subseteq Gens
    BY <1>0, <1>2 DEF Resume, TypeOK, Step, ExecutionState
  <2> QED
    BY <1>2, <2>1 DEF Resume, TypeOK, RunStatus
<1>3. CASE CancelRead
  BY <1>3 DEF CancelRead, PossibleEffect, Active, BeforeEffect, TypeOK, rows, Step
<1>4. CASE CancelWrite
  <2>1. step' \in Step /\ leaseLive' \in BOOLEAN
    BY <1>4 DEF CancelWrite, MoveStep, TypeOK, Step, StepStatus, ExecutionState
  <2>2. claims' \in [Fences -> ClaimOutcome]
    BY <1>4 DEF CancelWrite, TypeOK, ClaimOutcome
  <2>3. effect' \in EffectStatus /\ action' \in ActionStatus /\ caseOpen' \in BOOLEAN
    BY <1>4 DEF CancelWrite, NeedsReview, TypeOK, EffectStatus, ActionStatus
  <2>4. run' \in RunStatus /\ command' \in CommandStatus
    BY <1>4 DEF CancelWrite, TypeOK, RunStatus, CommandStatus
  <2>5. cancel' \in [on : BOOLEAN, crossed : BOOLEAN, before : BOOLEAN, after : BOOLEAN]
    BY <1>4 DEF CancelWrite, NotCancelling
  <2> QED
    BY <1>4, <2>1, <2>2, <2>3, <2>4, <2>5 DEF CancelWrite, TypeOK
<1>5. CASE RetryRun
  <2>1. step' \in Step /\ sent' \subseteq Gens
    BY <1>0, <1>5 DEF RetryRun, TypeOK, Step, StepStatus, ExecutionState
  <2>2. run' \in RunStatus /\ command' \in CommandStatus /\ action' \in ActionStatus
    BY <1>5 DEF RetryRun, TypeOK, RunStatus, CommandStatus, ActionStatus
  <2> QED
    BY <1>5, <2>1, <2>2 DEF RetryRun, TypeOK
<1>6. CASE ResolveReconciliationCase
  BY <1>6 DEF ResolveReconciliationCase, NeedsReview, TypeOK, EffectStatus, ActionStatus
<1> QED
  BY <1>1, <1>2, <1>3, <1>4, <1>5, <1>6 DEF Operate

-----------------------------------------------------------------------------
(* At most one effect.                                                      *)

(* A step that leaves the slots, the operation row and the outside alone.   *)
LEMMA StillGuarded ==
    ASSUME EffectGuarded, UNCHANGED <<worker, op, applied, denied>>
    PROVE  EffectGuarded'
  BY DEF EffectGuarded, SlotsCarry, Carries, OneInFlight, InFlight, NothingYet,
         AppliedIsRecorded, OneStands

(* A step of a slot that does not enter the plugin: the operation row is    *)
(* left alone or its running attempt is marked unknown.                     *)
LEMMA QuietGuarded ==
    ASSUME TypeOK, EffectGuarded, NEW w \in Workers, NEW s,
           worker' = [worker EXCEPT ![w] = s],
           s.pc \notin {"executing", "dispatching", "returned"}, Carries(s),
           op' = op \/ (op = "running" /\ op' = "unknown"),
           UNCHANGED <<applied, denied>>
    PROVE  EffectGuarded'
<1>1. worker'[w] = s /\ \A v \in Workers : v # w => worker'[v] = worker[v]
  BY DEF TypeOK
<1>2. SlotsCarry'
  BY <1>1 DEF EffectGuarded, SlotsCarry, Carries
<1>3. OneInFlight'
  BY <1>1 DEF EffectGuarded, OneInFlight, InFlight
<1>4. NothingYet'
  BY <1>1 DEF EffectGuarded, NothingYet
<1>5. AppliedIsRecorded' /\ OneStands'
  BY DEF EffectGuarded, AppliedIsRecorded, OneStands
<1> QED
  BY <1>2, <1>3, <1>4, <1>5 DEF EffectGuarded

(* The transactions that carry nothing from one to the next.                *)
Plain == {"idle", "recovering", "inspecting", "rearming", "parking", "doubting", "doubted",
          "eligible", "ineligible", "claiming", "admitting", "committing", "opening",
          "reclaiming", "doubtful", "blocking", "advancing", "enqueueing"}

(* A slot that starts over at a plain transaction.                          *)
LEMMA RestartGuarded ==
    ASSUME TypeOK, EffectGuarded, NEW w \in Workers, NEW s,
           worker' = [worker EXCEPT ![w] = s], s.pc \in Plain,
           op' = op \/ (op = "running" /\ op' = "unknown"),
           UNCHANGED <<applied, denied>>
    PROVE  EffectGuarded'
<1>1. Carries(s) /\ s.pc \notin {"executing", "dispatching", "returned"}
  BY DEF Carries, Plain
<1> QED
  BY <1>1, QuietGuarded

(* A slot that moves on to a plain transaction, or gives up.                *)
LEMMA PlainGuarded ==
    ASSUME TypeOK, EffectGuarded, NEW w \in Workers, NEW pc \in Plain,
           GoTo(w, pc) \/ Return(w),
           op' = op \/ (op = "running" /\ op' = "unknown"),
           UNCHANGED <<applied, denied>>
    PROVE  EffectGuarded'
<1>1. CASE GoTo(w, pc)
  <2> DEFINE s == [worker[w] EXCEPT !.pc = pc]
  <2>1. worker[w] \in Slot /\ worker \in [Workers -> Slot]
    BY DEF TypeOK
  <2>2. worker' = [worker EXCEPT ![w] = s]
    BY <1>1, <2>1 DEF GoTo
  <2>3. s.pc \in Plain
    BY <2>1 DEF Slot
  <2> HIDE DEF s
  <2> QED
    BY <2>2, <2>3, RestartGuarded
<1>2. CASE Return(w)
  <2>1. Idle.pc \in Plain
    BY DEF Idle, Plain
  <2> QED
    BY <1>2, <2>1, RestartGuarded DEF Return
<1> QED
  BY <1>1, <1>2

(* A slot that keeps what it carries while it moves.                        *)
LEMMA KeepGuarded ==
    ASSUME TypeOK, EffectGuarded, NEW w \in Workers, NEW pc, GoTo(w, pc),
           pc \notin {"executing", "dispatching", "returned"},
           Carries([worker[w] EXCEPT !.pc = pc]),
           op' = op, UNCHANGED <<applied, denied>>
    PROVE  EffectGuarded'
<1> DEFINE s == [worker[w] EXCEPT !.pc = pc]
<1>1. worker[w] \in Slot /\ worker \in [Workers -> Slot]
  BY DEF TypeOK
<1>2. worker' = [worker EXCEPT ![w] = s]
  BY <1>1 DEF GoTo
<1>3. s.pc = pc
  BY <1>1 DEF Slot
<1>4. Carries(s)
  OBVIOUS
<1> HIDE DEF s
<1> QED
  BY <1>2, <1>3, <1>4, QuietGuarded

(* A delivery and every step of recovery keep the guard.                    *)
LEMMA DeliverRecoverGuarded ==
    ASSUME TypeOK, EffectGuarded, NEW w \in Workers, Deliver(w) \/ Recover(w)
    PROVE  EffectGuarded'
<1>1. CASE \E g \in Gens : StartStepJob(w, g)
  <2>1. PICK g \in Gens : StartStepJob(w, g)
    BY <1>1
  <2>2. [Idle EXCEPT !.pc = "recovering", !.gen = g].pc \in Plain
    BY DEF Idle, Plain
  <2> QED
    BY <2>1, <2>2, RestartGuarded DEF StartStepJob, rows
<1>2. CASE StartObservation(w)
  <2> DEFINE s == [Idle EXCEPT !.pc = "observing", !.kind = "observation", !.gen = step.gen,
                               !.result = IF op = "succeeded" THEN "success" ELSE "recovered"]
  <2>1. s.pc = "observing" /\ s.result \in {"success", "recovered"}
    BY DEF Idle
  <2>2. worker' = [worker EXCEPT ![w] = s] /\ op' = op /\ UNCHANGED <<applied, denied>>
    BY <1>2 DEF StartObservation, rows
  <2> HIDE DEF s
  <2>3. Carries(s)
    BY <2>1 DEF Carries, Answers
  <2> QED
    BY <2>1, <2>2, <2>3, QuietGuarded
<1>3. CASE RecoverRead(w)
  <2> DEFINE s == IF StepIsStale THEN [worker[w] EXCEPT !.pc = "inspecting", !.seen = step.fence]
                  ELSE [worker[w] EXCEPT !.pc = "eligible"]
  <2>1. s.pc \in Plain
    BY DEF TypeOK, Slot, Plain
  <2>2. worker' = [worker EXCEPT ![w] = s] /\ op' = op /\ UNCHANGED <<applied, denied>>
    BY <1>3 DEF RecoverRead, rows
  <2> HIDE DEF s
  <2> QED
    BY <2>1, <2>2, RestartGuarded
<1>4. CASE RecoverInspect(w)
  <2>1. PICK pc \in {"rearming", "parking", "doubting"} : GoTo(w, pc)
    BY <1>4 DEF RecoverInspect
  <2>2. pc \in Plain /\ op' = op /\ UNCHANGED <<applied, denied>>
    BY <1>4 DEF RecoverInspect, rows, Plain
  <2> QED
    BY <2>1, <2>2, PlainGuarded
<1>5. CASE RecoverRearm(w) \/ RecoverPark(w) \/ RecoverDoubt(w)
  <2> DEFINE s == [Idle EXCEPT !.pc = "eligible", !.gen = worker[w].gen]
  <2>1. /\ worker' = [worker EXCEPT ![w] = s] /\ UNCHANGED <<applied, denied>>
        /\ op' = op \/ (op = "running" /\ op' = "unknown")
    BY <1>5 DEF RecoverRearm, RecoverPark, RecoverDoubt, Recovered
  <2>2. s.pc \in Plain
    BY DEF Idle, Plain
  <2> HIDE DEF s
  <2> QED
    BY <2>1, <2>2, RestartGuarded
<1>6. CASE RecoverOpenCase(w)
  <2>1. GoTo(w, "doubted") /\ op' = op /\ UNCHANGED <<applied, denied>>
    BY <1>6 DEF RecoverOpenCase
  <2> QED
    BY <2>1, PlainGuarded DEF Plain
<1> QED
  BY <1>1, <1>2, <1>3, <1>4, <1>5, <1>6 DEF Deliver, Recover

(* So does the commit point: the operation row admits the one worker that   *)
(* finds it absent or failed, and then nothing is applied and no other      *)
(* worker is in the plugin.                                                 *)
LEMMA StartGuarded ==
    ASSUME TypeOK, EffectGuarded, NEW w \in Workers, StartOperation(w)
    PROVE  EffectGuarded'
<1>0. worker[w] \in Slot /\ worker \in [Workers -> Slot] /\ UNCHANGED <<applied, denied>>
  BY DEF TypeOK, StartOperation
<1>1. /\ op \in {"none", "failed"} /\ op' = "running"
      /\ worker' = [worker EXCEPT ![w].pc = "executing", ![w].sawExecuting = FALSE]
  BY DEF StartOperation
<1>2. applied = {}
  BY <1>1 DEF EffectGuarded, AppliedIsRecorded
<1>3. \A v \in Workers : ~InFlight(v)
  BY <1>1 DEF EffectGuarded, OneInFlight
<1>4. worker'[w].pc = "executing" /\ \A v \in Workers : v # w => worker'[v] = worker[v]
  BY <1>0, <1>1 DEF Slot
<1>5. SlotsCarry'
  BY <1>4 DEF EffectGuarded, SlotsCarry, Carries
<1>6. OneInFlight'
  BY <1>1, <1>3, <1>4 DEF OneInFlight, InFlight
<1>7. NothingYet' /\ AppliedIsRecorded' /\ OneStands'
  BY <1>0, <1>2 DEF NothingYet, AppliedIsRecorded, OneStands
<1> QED
  BY <1>5, <1>6, <1>7 DEF EffectGuarded

(* So do the other outcomes of the commit point.                            *)
LEMMA CommitGuarded ==
    ASSUME TypeOK, EffectGuarded, NEW w \in Workers,
           BeginEffectCommit(w) \/ FindOperation(w) \/ ReclaimOperation(w)
             \/ DoubtOperation(w) \/ RefuseEffectCommit(w)
    PROVE  EffectGuarded'
<1>0. worker[w] \in Slot /\ worker \in [Workers -> Slot]
  BY DEF TypeOK
<1>1. CASE BeginEffectCommit(w)
  <2> DEFINE s == [worker[w] EXCEPT !.pc = "opening", !.sawExecuting = (effect = "executing")]
  <2>1. s.pc \in Plain
    BY <1>0 DEF Slot, Plain
  <2>2. worker' = [worker EXCEPT ![w] = s] /\ op' = op /\ UNCHANGED <<applied, denied>>
    BY <1>0, <1>1 DEF BeginEffectCommit, rows
  <2> HIDE DEF s
  <2> QED
    BY <2>1, <2>2, RestartGuarded
<1>2. CASE StartOperation(w)
  BY <1>2, StartGuarded
<1>3. CASE FindOperation(w) /\ op # "none"
  <2> DEFINE pc == CASE op = "failed" -> "reclaiming"
                     [] op = "succeeded" -> "observing"
                     [] op \in {"running", "unknown"} -> "doubtful"
             r == IF op = "succeeded" THEN "success" ELSE "none"
             s == [worker[w] EXCEPT !.pc = pc, !.result = r,
                                    !.sawExecuting = @ /\ op = "failed"]
  <2>1. worker' = [worker EXCEPT ![w] = s] /\ op' = op /\ UNCHANGED <<applied, denied>>
    BY <1>0, <1>3 DEF FindOperation, rows
  <2>2. pc \in {"reclaiming", "doubtful"} \/ (pc = "observing" /\ r = "success")
    BY <1>3 DEF TypeOK, OpStatus
  <2>3. s.pc = pc /\ s.result = r
    BY <1>0 DEF Slot
  <2> HIDE DEF pc, r, s
  <2>4. Carries(s) /\ s.pc \notin {"executing", "dispatching", "returned"}
    BY <2>2, <2>3 DEF Carries, Answers
  <2> QED
    BY <2>1, <2>4, QuietGuarded
<1>4. CASE DoubtOperation(w)
  <2> DEFINE s == [worker[w] EXCEPT !.pc = "reconciling", !.result = "uncommitted",
                                    !.sawExecuting = FALSE]
  <2>1. s.pc = "reconciling" /\ s.result = "uncommitted"
    BY <1>0 DEF Slot
  <2>2. worker' = [worker EXCEPT ![w] = s] /\ op' = op /\ UNCHANGED <<applied, denied>>
    BY <1>0, <1>4 DEF DoubtOperation
  <2> HIDE DEF s
  <2>3. Carries(s)
    BY <2>1 DEF Carries
  <2> QED
    BY <2>1, <2>2, <2>3, QuietGuarded
<1>5. CASE RefuseEffectCommit(w)
  <2> DEFINE s == [worker[w] EXCEPT !.pc = "blocking", !.sawExecuting = FALSE]
  <2>1. s.pc \in Plain
    BY <1>0 DEF Slot, Plain
  <2>2. Return(w) \/ worker' = [worker EXCEPT ![w] = s]
    BY <1>0, <1>5 DEF RefuseEffectCommit
  <2>3. op' = op /\ UNCHANGED <<applied, denied>>
    BY <1>5 DEF RefuseEffectCommit, rows
  <2> HIDE DEF s
  <2>4. CASE Return(w)
    BY <2>3, <2>4, PlainGuarded DEF Plain
  <2>5. CASE worker' = [worker EXCEPT ![w] = s]
    BY <2>1, <2>3, <2>5, RestartGuarded
  <2> QED
    BY <2>2, <2>4, <2>5
<1>6. FindOperation(w) => StartOperation(w) \/ (FindOperation(w) /\ op # "none")
  BY DEF FindOperation
<1>7. ReclaimOperation(w) => StartOperation(w)
  BY DEF ReclaimOperation
<1> QED
  BY <1>1, <1>2, <1>3, <1>4, <1>5, <1>6, <1>7

(* So does every other step between the claim and the plugin.               *)
LEMMA PrepareGuarded ==
    ASSUME TypeOK, EffectGuarded, NEW w \in Workers, Prepare(w)
    PROVE  EffectGuarded'
<1>1. CASE CheckEligibility(w)
  <2>1. PICK pc \in {"claiming", "ineligible"} : GoTo(w, pc)
    BY <1>1 DEF CheckEligibility
  <2>2. pc \in Plain /\ op' = op /\ UNCHANGED <<applied, denied>>
    BY <1>1 DEF CheckEligibility, rows, Plain
  <2> QED
    BY <2>1, <2>2, PlainGuarded
<1>2. CASE RecordIneligibility(w)
  <2>1. Return(w) /\ op' = op /\ UNCHANGED <<applied, denied>>
    BY <1>2 DEF RecordIneligibility
  <2> QED
    BY <2>1, PlainGuarded DEF Plain
<1>3. CASE ClaimStep(w)
  <2> DEFINE s == [Idle EXCEPT !.pc = "admitting", !.gen = worker[w].gen, !.fence = step.fence + 1]
  <2>1. s.pc \in Plain
    BY DEF Idle, Plain
  <2>2. Return(w) \/ worker' = [worker EXCEPT ![w] = s]
    BY <1>3 DEF ClaimStep
  <2>3. op' = op /\ UNCHANGED <<applied, denied>>
    BY <1>3 DEF ClaimStep
  <2> HIDE DEF s
  <2>4. CASE Return(w)
    BY <2>3, <2>4, PlainGuarded DEF Plain
  <2>5. CASE worker' = [worker EXCEPT ![w] = s]
    BY <2>1, <2>3, <2>5, RestartGuarded
  <2> QED
    BY <2>2, <2>4, <2>5
<1>4. CASE Admit(w)
  <2>1. op' = op /\ UNCHANGED <<applied, denied>>
    BY <1>4 DEF Admit, rows
  <2>2. Return(w) \/ \E pc \in {"committing", "blocking"} : GoTo(w, pc)
    BY <1>4 DEF Admit
  <2>3. CASE Return(w)
    BY <2>1, <2>3, PlainGuarded DEF Plain
  <2>4. CASE \E pc \in {"committing", "blocking"} : GoTo(w, pc)
    <3>1. PICK pc \in {"committing", "blocking"} : GoTo(w, pc)
      BY <2>4
    <3>2. pc \in Plain
      BY DEF Plain
    <3> QED
      BY <2>1, <3>1, <3>2, PlainGuarded
  <2> QED
    BY <2>2, <2>3, <2>4
<1>5. CASE BeginEffectCommit(w) \/ FindOperation(w) \/ ReclaimOperation(w)
             \/ DoubtOperation(w) \/ RefuseEffectCommit(w)
  BY <1>5, CommitGuarded
<1>6. CASE BlockBeforeEffect(w)
  <2> DEFINE s == [worker[w] EXCEPT !.pc = "settling", !.result = "blocked"]
  <2>1. worker[w] \in Slot /\ worker \in [Workers -> Slot]
    BY DEF TypeOK
  <2>2. s.pc = "settling" /\ s.result = "blocked"
    BY <2>1 DEF Slot
  <2>3. worker' = [worker EXCEPT ![w] = s] /\ op' = op /\ UNCHANGED <<applied, denied>>
    BY <1>6, <2>1 DEF BlockBeforeEffect
  <2> HIDE DEF s
  <2>4. Carries(s)
    BY <2>2 DEF Carries
  <2> QED
    BY <2>2, <2>3, <2>4, QuietGuarded
<1> QED
  BY <1>1, <1>2, <1>3, <1>4, <1>5, <1>6 DEF Prepare

(* The plugin call itself: only the one admitted worker makes it, before    *)
(* anything is applied.                                                     *)
LEMMA CallGuarded ==
    ASSUME TypeOK, EffectGuarded, NEW w \in Workers, VerifyDispatch(w) \/ Dispatch(w)
    PROVE  EffectGuarded'
<1>0. /\ worker[w] \in Slot /\ worker \in [Workers -> Slot] /\ op' = op
      /\ worker[w].pc \in {"executing", "dispatching"}
  BY DEF TypeOK, VerifyDispatch, Dispatch, rows
<1>1. applied = {} /\ InFlight(w)
  BY <1>0 DEF EffectGuarded, NothingYet, InFlight
<1>2. op \in {"running", "unknown"} /\ \A v \in Workers : v # w => ~InFlight(v)
  BY <1>1 DEF EffectGuarded, OneInFlight
<1>3. /\ worker'[w].pc \in {"dispatching", "returned"}
      /\ worker'[w].pc = "returned" => worker'[w].result \in {"success", "failure", "unknown"}
      /\ worker'[w].pc = "dispatching" => applied' = {}
      /\ worker'[w].pc = "returned" /\ worker'[w].result = "failure" => applied' = {}
      /\ applied' = {} \/ applied' = {worker[w].fence}
      /\ \A v \in Workers : v # w => worker'[v] = worker[v]
  <2>1. CASE VerifyDispatch(w)
    <3>1. applied' = {}
      BY <1>1, <2>1 DEF VerifyDispatch
    <3>2. CASE GoTo(w, "dispatching")
      BY <1>0, <3>1, <3>2 DEF GoTo, Slot
    <3>3. CASE worker' = [worker EXCEPT ![w].pc = "returned", ![w].result = "failure"]
      BY <1>0, <3>1, <3>3 DEF Slot
    <3> QED
      BY <2>1, <3>2, <3>3 DEF VerifyDispatch
  <2>2. CASE Dispatch(w)
    <3>1. PICK happened \in BOOLEAN, answer \in {"success", "failure", "unknown"} :
            /\ applied' = IF happened /\ answer # "failure"
                            THEN applied \union {worker[w].fence} ELSE applied
            /\ worker' = [worker EXCEPT ![w].pc = "returned", ![w].result = answer]
      BY <2>2 DEF Dispatch
    <3>2. /\ worker'[w].pc = "returned" /\ worker'[w].result = answer
          /\ \A v \in Workers : v # w => worker'[v] = worker[v]
      BY <1>0, <3>1 DEF Slot
    <3> QED
      BY <1>1, <3>1, <3>2
  <2> QED
    BY <2>1, <2>2
<1>4. SlotsCarry'
  BY <1>3 DEF EffectGuarded, SlotsCarry, Carries, Answers
<1>5. OneInFlight'
  BY <1>0, <1>2, <1>3 DEF OneInFlight, InFlight
<1>6. NothingYet'
  BY <1>2, <1>3 DEF NothingYet, InFlight
<1>7. AppliedIsRecorded' /\ OneStands'
  BY <1>0, <1>2, <1>3 DEF AppliedIsRecorded, OneStands
<1> QED
  BY <1>4, <1>5, <1>6, <1>7 DEF EffectGuarded

(* Recording the answer lets the effect be started again only if the plugin *)
(* answered that nothing happened.                                          *)
LEMMA AnswerGuarded ==
    ASSUME TypeOK, EffectGuarded, NEW w \in Workers, RecordSemanticOperation(w)
    PROVE  EffectGuarded'
<1>0. /\ worker[w] \in Slot /\ worker \in [Workers -> Slot] /\ UNCHANGED <<applied, denied>>
      /\ worker[w].pc = "returned" /\ worker' = [worker EXCEPT ![w].pc = "observing"]
  BY DEF TypeOK, RecordSemanticOperation, GoTo
<1>1. worker[w].result \in {"success", "failure", "unknown"}
  BY <1>0 DEF EffectGuarded, SlotsCarry, Carries, Answers
<1>2. /\ worker'[w].pc = "observing" /\ worker'[w].result = worker[w].result
      /\ \A v \in Workers : v # w => worker'[v] = worker[v]
  BY <1>0 DEF Slot
<1>3. \A v \in Workers : v # w => ~InFlight(v)
  BY <1>0 DEF EffectGuarded, OneInFlight, InFlight
<1>4. worker[w].result = "failure" => applied = {}
  BY <1>0 DEF EffectGuarded, NothingYet
<1>5. SlotsCarry'
  BY <1>1, <1>2 DEF EffectGuarded, SlotsCarry, Carries, Answers
<1>6. OneInFlight' /\ NothingYet'
  BY <1>2, <1>3 DEF OneInFlight, NothingYet, InFlight
<1>7. AppliedIsRecorded' /\ OneStands'
  BY <1>0, <1>1, <1>4 DEF RecordSemanticOperation, EffectGuarded, AppliedIsRecorded,
                         OneStands
<1> QED
  BY <1>5, <1>6, <1>7 DEF EffectGuarded

(* So does everything after the answer.                                     *)
LEMMA ExecuteGuarded ==
    ASSUME TypeOK, EffectGuarded, NEW w \in Workers, Execute(w) \/ HandlerThrows(w)
    PROVE  EffectGuarded'
<1>0. worker[w] \in Slot /\ worker \in [Workers -> Slot] /\ Carries(worker[w])
  BY DEF TypeOK, EffectGuarded, SlotsCarry
<1>1. CASE VerifyDispatch(w) \/ Dispatch(w)
  BY <1>1, CallGuarded
<1>2. CASE RecordSemanticOperation(w)
  BY <1>2, AnswerGuarded
<1>3. CASE RecordBusinessEffectOutcome(w)
  <2>1. PICK v \in Verdicts(w) :
          worker' = [worker EXCEPT ![w].pc = "projecting", ![w].verdict = v]
    BY <1>3 DEF RecordBusinessEffectOutcome
  <2> DEFINE s == [worker[w] EXCEPT !.pc = "projecting", !.verdict = v]
  <2>2. s.pc = "projecting" /\ s.verdict = v /\ s.result = worker[w].result
    BY <1>0 DEF Slot
  <2>3. worker' = [worker EXCEPT ![w] = s] /\ op' = op /\ UNCHANGED <<applied, denied>>
    BY <1>0, <1>3, <2>1 DEF RecordBusinessEffectOutcome
  <2>4. v # "none" /\ worker[w].result \in Answers
    BY <1>0, <1>3, <2>1 DEF Verdicts, Carries, RecordBusinessEffectOutcome
  <2> HIDE DEF s
  <2>5. Carries(s)
    BY <2>2, <2>4 DEF Carries
  <2> QED
    BY <2>2, <2>3, <2>5, QuietGuarded
<1>4. CASE Project(w) \/ OpenReconciliationCase(w)
  <2>1. PICK pc \in {"reconciling", "settling"} : GoTo(w, pc)
    BY <1>4 DEF Project, OpenReconciliationCase
  <2>2. op' = op /\ UNCHANGED <<applied, denied>>
    BY <1>4 DEF Project, OpenReconciliationCase
  <2>3. worker[w].result # "none"
    BY <1>0, <1>4 DEF Project, OpenReconciliationCase, Carries, Answers
  <2>4. Carries([worker[w] EXCEPT !.pc = pc])
    BY <1>0, <2>3 DEF Carries, Slot
  <2> QED
    BY <2>1, <2>2, <2>4, KeepGuarded
<1>5. CASE Settle(w)
  <2>1. [Idle EXCEPT !.pc = "advancing"].pc \in Plain
    BY DEF Idle, Plain
  <2> QED
    BY <1>5, <2>1, RestartGuarded DEF Settle
<1>6. CASE HandlerThrows(w)
  <2>1. Return(w) /\ op' = op /\ UNCHANGED <<applied, denied>>
    BY <1>6 DEF HandlerThrows
  <2> QED
    BY <2>1, PlainGuarded DEF Plain
<1> QED
  BY <1>1, <1>2, <1>3, <1>4, <1>5, <1>6 DEF Execute

(* So do advanceWorkflow, heartbeats, crashes, controls and passing leases. *)
LEMMA AdvanceGuarded ==
    ASSUME TypeOK, EffectGuarded, NEW w \in Workers,
           Advance(w) \/ HeartbeatStepClaim(w) \/ Crash(w)
    PROVE  EffectGuarded'
<1>0. worker[w] \in Slot /\ worker \in [Workers -> Slot] /\ Carries(worker[w])
  BY DEF TypeOK, EffectGuarded, SlotsCarry
<1>1. CASE AdvanceRead(w)
  <2> DEFINE s == CASE step.status = "pending" -> [worker[w] EXCEPT !.pc = "enqueueing"]
                    [] step.status \in {"completed", "failed"} ->
                         [worker[w] EXCEPT !.pc = "finishing", !.final = step.status]
                    [] OTHER -> Idle
  <2>1. worker' = [worker EXCEPT ![w] = s] /\ op' = op /\ UNCHANGED <<applied, denied>>
    BY <1>1 DEF AdvanceRead, rows
  <2>2. Carries(s) /\ s.pc \notin {"executing", "dispatching", "returned"}
    <3>1. CASE step.status = "pending"
      <4>1. s = [worker[w] EXCEPT !.pc = "enqueueing"]
        BY <3>1
      <4> HIDE DEF s
      <4> QED
        BY <1>0, <4>1 DEF Carries, Slot
    <3>2. CASE step.status \in {"completed", "failed"}
      <4>1. s = [worker[w] EXCEPT !.pc = "finishing", !.final = step.status]
        BY <3>2
      <4> HIDE DEF s
      <4> QED
        BY <1>0, <3>2, <4>1 DEF Carries, Slot
    <3>3. CASE step.status \notin {"pending", "completed", "failed"}
      <4>1. s = Idle
        BY <3>3
      <4> HIDE DEF s
      <4> QED
        BY <4>1 DEF Carries, Idle
    <3> QED
      BY <3>1, <3>2, <3>3
  <2> HIDE DEF s
  <2> QED
    BY <2>1, <2>2, QuietGuarded
<1>2. CASE EnqueueStep(w) \/ FinishCommand(w) \/ Crash(w)
  <2>1. Return(w) /\ op' = op /\ UNCHANGED <<applied, denied>>
    BY <1>2 DEF EnqueueStep, FinishCommand, Crash, rows
  <2> QED
    BY <2>1, PlainGuarded DEF Plain
<1>3. CASE FinishRun(w)
  <2>1. (GoTo(w, "commanding") \/ Return(w)) /\ op' = op /\ UNCHANGED <<applied, denied>>
    BY <1>3 DEF FinishRun
  <2>2. CASE GoTo(w, "commanding")
    <3>1. worker[w].final # "none"
      BY <1>0, <1>3 DEF FinishRun, Carries
    <3>2. Carries([worker[w] EXCEPT !.pc = "commanding"])
      BY <1>0, <3>1 DEF Carries, Slot
    <3> QED
      BY <2>1, <2>2, <3>2, KeepGuarded
  <2>3. CASE Return(w)
    BY <2>1, <2>3, PlainGuarded DEF Plain
  <2> QED
    BY <2>1, <2>2, <2>3
<1>4. CASE HeartbeatStepClaim(w)
  BY <1>4, StillGuarded DEF HeartbeatStepClaim
<1> QED
  BY <1>1, <1>2, <1>3, <1>4 DEF Advance

LEMMA OperateGuarded ==
    ASSUME EffectGuarded, Operate \/ ExpireLease
    PROVE  EffectGuarded'
<1>1. UNCHANGED <<worker, op, applied, denied>>
  BY DEF Operate, ExpireLease, Pause, Resume, Escalate, CancelRead, CancelWrite, RetryRun,
         ResolveReconciliationCase, rows
<1> QED
  BY <1>1, StillGuarded

-----------------------------------------------------------------------------
(* The theorems.                                                            *)

(* TypeOK and EffectGuarded together are inductive: they hold at the start  *)
(* and every transaction, call, crash and control keeps them.               *)
THEOREM Inductive == Spec => [](TypeOK /\ EffectGuarded)
<1>1. Init => TypeOK /\ EffectGuarded
  <2> SUFFICES ASSUME Init PROVE TypeOK /\ EffectGuarded
    OBVIOUS
  <2>1. worker \in [Workers -> Slot]
    BY IdleIsSlot DEF Init
  <2>2. step \in Step /\ 0 \in Gens
    BY ConstantsAssumption DEF Init, Step, StepStatus, ExecutionState, Gens
  <2>3. TypeOK
    BY <2>1, <2>2 DEF Init, TypeOK, ClaimOutcome, RunStatus, CommandStatus, ActionStatus,
                     EffectStatus, OpStatus, NotCancelling
  <2>4. \A w \in Workers : worker[w].pc = "idle"
    BY DEF Init, Idle
  <2>5. EffectGuarded
    BY <2>4 DEF Init, EffectGuarded, SlotsCarry, Carries, OneInFlight, InFlight, NothingYet,
                AppliedIsRecorded, OneStands
  <2> QED
    BY <2>3, <2>5
<1>2. TypeOK /\ EffectGuarded /\ [Next]_vars => (TypeOK /\ EffectGuarded)'
  <2> SUFFICES ASSUME TypeOK, EffectGuarded, [Next]_vars
               PROVE  TypeOK' /\ EffectGuarded'
    OBVIOUS
  <2>1. SlotsCarry
    BY DEF EffectGuarded
  <2>2. ASSUME NEW w \in Workers, Deliver(w) \/ Recover(w)
        PROVE  TypeOK' /\ EffectGuarded'
    BY <2>2, DeliverRecoverTypes, DeliverRecoverGuarded
  <2>3. ASSUME NEW w \in Workers, Prepare(w)
        PROVE  TypeOK' /\ EffectGuarded'
    BY <2>3, PrepareTypes, PrepareGuarded
  <2>4. ASSUME NEW w \in Workers, Execute(w) \/ HandlerThrows(w)
        PROVE  TypeOK' /\ EffectGuarded'
    BY <2>1, <2>4, ExecuteTypes, ExecuteGuarded
  <2>5. ASSUME NEW w \in Workers, Advance(w) \/ HeartbeatStepClaim(w) \/ Crash(w)
        PROVE  TypeOK' /\ EffectGuarded'
    BY <2>1, <2>5, AdvanceTypes, AdvanceGuarded
  <2>6. CASE Operate \/ ExpireLease
    BY <2>6, OperateTypes, OperateGuarded
  <2>7. CASE UNCHANGED vars
    <3>1. TypeOK'
      BY <2>7 DEF vars, TypeOK
    <3> QED
      BY <2>7, <3>1, StillGuarded DEF vars
  <2> QED
    BY <2>2, <2>3, <2>4, <2>5, <2>6, <2>7 DEF Next
<1> QED
  BY <1>1, <1>2, PTL DEF Spec

(* Every row of the run, the claim history and every worker's local state   *)
(* stay within the values the code writes.                                  *)
THEOREM TypeCorrect == Spec => []TypeOK
  BY Inductive, PTL

(* At most one worker is ever inside the plugin, nothing is applied before  *)
(* it, and an effect that is applied, and was not told a failure, is never  *)
(* recorded as startable.                                                   *)
THEOREM OperationRowGuards == Spec => []EffectGuarded
  BY Inductive, PTL

-----------------------------------------------------------------------------
(* What the rows say about the effect is true: the invariant behind success *)
(* being earned and a retry being safe.                                     *)

(* What says that the effect happened, says so of one that did.             *)
SuccessHasGround ==
    /\ effect = "verified" \/ action = "completed" \/ step.status = "completed" => Happened # {}
    /\ \A w \in Workers : worker[w].verdict = "verified" => Happened # {}

(* A run about to be finished as completed keeps its completed step, unless *)
(* a cancellation takes both; no other control runs beside one.             *)
RunFollowsStep ==
    /\ run = "completed" => step.status = "completed"
    /\ \A w \in Workers : worker[w].pc = "finishing" /\ worker[w].final = "completed"
         => step.status = "completed" \/ run = "cancelled"
    /\ cancel.on => run \in {"running", "paused"}

(* No two slots carry the same claim, and none a claim of the future.       *)
Claimed == {"admitting", "committing", "opening", "reclaiming"}
FencesAreOwn ==
    /\ \A w \in Workers : worker[w].fence <= step.fence
    /\ \A w \in Workers : worker[w].pc \in Claimed \/ InFlight(w) => worker[w].fence # 0
    /\ \A v, w \in Workers : v # w /\ worker[v].fence # 0 => worker[v].fence # worker[w].fence
    /\ \A f \in Happened : f <= step.fence

(* A worker told of a failure holds an older claim than whoever entered the *)
(* plugin after it: to enter, one has to own the step.                      *)
AfterAnswer == {"observing", "projecting", "reconciling", "settling"}
FailuresAreOld == \A w \in Workers :
    /\ worker[w].pc \in AfterAnswer /\ worker[w].result = "failure" =>
         /\ \A v \in Workers : InFlight(v) => worker[w].fence < worker[v].fence
         /\ \A f \in applied : worker[w].fence < f
    /\ worker[w].pc = "projecting" /\ worker[w].verdict = "failed" => worker[w].result = "failure"

(* A call that was told a failure was made under an older claim than any    *)
(* that is still to be made, or took effect since.                          *)
Unsent == {"executing", "dispatching"}
DenialsAreOld ==
    /\ \A w \in Workers : worker[w].pc \in Claimed => worker[w].fence \notin denied
    /\ \A w \in Workers : worker[w].pc \in Unsent => \A g \in denied : g < worker[w].fence
    /\ \A f \in applied, g \in denied : g < f

(* A step that shows no sign of an effect has none but of a call that was   *)
(* told a failure, and no call is under way.                                *)
Underway == applied # {} \/ \E v \in Workers : InFlight(v)
SignsAreTrue ==
    /\ step.exec = "failed_before_effect" => ~Underway
    /\ Underway => step.committed
    /\ step.exec = "authorized" => step.status = "pending"

Grounded ==
    SuccessHasGround /\ RunFollowsStep /\ FencesAreOwn /\ FailuresAreOld /\ DenialsAreOld
    /\ SignsAreTrue

(* What most steps keep: success is written only for an effect that is      *)
(* applied, a failure before the effect only when none is under way, and    *)
(* no sign of an effect goes while there is one.                            *)
QuietRows ==
    /\ UNCHANGED <<applied, denied>>
    /\ step'.fence = step.fence
    /\ effect' = "verified" => effect = "verified" \/ Happened # {}
    /\ action' = "completed" => action = "completed" \/ Happened # {}
    /\ step'.status = "completed" => step.status = "completed" \/ Happened # {}
    /\ step.status = "completed" => step'.status = "completed" \/ run' = "cancelled"
    /\ run' = "completed" => run = "completed" \/ step.status = "completed"
    /\ run = "cancelled" => run' = "cancelled"
    /\ cancel'.on => run' \in {"running", "paused"}
    /\ step'.exec = "failed_before_effect" => step.exec = "failed_before_effect" \/ ~Underway
    /\ step.committed => step'.committed \/ ~Underway
    /\ step'.exec = "authorized" => step'.status = "pending"

(* A slot moves without a new claim or a new answer, and takes up a success *)
(* only where there is one.                                                 *)
QuietSlot(w) == LET r == worker[w]  s == worker'[w] IN
    /\ s.fence \in {0, r.fence}
    /\ s.pc \in Claimed => r.pc \in Claimed /\ s.fence = r.fence /\ s.fence # 0
    /\ s.pc \in Unsent => r.pc \in Unsent /\ s.fence = r.fence
    /\ s.verdict = "verified" => r.verdict = "verified" \/ Happened # {}
    /\ s.pc = "finishing" /\ s.final = "completed" => step'.status = "completed"
    /\ s.pc \in AfterAnswer /\ s.result = "failure" =>
         r.pc \in AfterAnswer /\ r.result = "failure" /\ s.fence = r.fence
    /\ s.pc = "projecting" /\ s.verdict = "failed" => s.result = "failure"
    /\ s.pc \in {"executing", "dispatching", "returned"} =>
         r.pc \in {"executing", "dispatching", "returned"} /\ s.fence = r.fence

(* The other slots are left alone.                                          *)
OnlyMoves(w) == \A v \in Workers : v # w => worker'[v] = worker[v]

(* A step of the rows alone, such as a control, keeps the invariant.        *)
LEMMA QuietRowsGrounded ==
    ASSUME Grounded, QuietRows, worker' = worker
    PROVE  Grounded'
<1>1. Underway' = Underway /\ \A v \in Workers : InFlight(v)' = InFlight(v)
  BY DEF QuietRows, Underway, InFlight
<1>2. SuccessHasGround' /\ RunFollowsStep'
  BY DEF Grounded, QuietRows, SuccessHasGround, RunFollowsStep, Happened
<1>3. FencesAreOwn' /\ FailuresAreOld' /\ DenialsAreOld' /\ SignsAreTrue'
  BY <1>1 DEF Grounded, QuietRows, FencesAreOwn, FailuresAreOld, DenialsAreOld, SignsAreTrue, Happened
<1> QED
  BY <1>2, <1>3 DEF Grounded

(* So does a step of a worker that is quiet.                                *)
LEMMA QuietGrounded ==
    ASSUME TypeOK, Grounded, NEW w \in Workers, QuietRows, QuietSlot(w), OnlyMoves(w)
    PROVE  Grounded'
<1>1. \A v \in Workers : v # w => worker'[v] = worker[v]
  BY DEF OnlyMoves
<1>2. \A v \in Workers : InFlight(v)' => InFlight(v) /\ worker'[v].fence = worker[v].fence
  BY <1>1 DEF InFlight, QuietSlot
<1>3. Underway' => Underway
  BY <1>2 DEF QuietRows, Underway
<1>4. SuccessHasGround' /\ RunFollowsStep'
  BY <1>1 DEF Grounded, QuietRows, QuietSlot, SuccessHasGround, RunFollowsStep, Happened
<1>5. FencesAreOwn'
  <2>1. worker[w].fence \in Nat /\ step.fence \in Nat
    BY ConstantsAssumption DEF TypeOK, Slot, Step
  <2> QED
    BY <1>1, <1>2, <2>1 DEF Grounded, QuietRows, QuietSlot, FencesAreOwn, Happened
<1>6. FailuresAreOld'
  BY <1>1, <1>2 DEF Grounded, QuietRows, QuietSlot, FailuresAreOld
<1>7. SignsAreTrue'
  BY <1>3 DEF Grounded, QuietRows, SignsAreTrue
<1>8. DenialsAreOld'
  BY <1>1 DEF Grounded, QuietRows, QuietSlot, DenialsAreOld
<1> QED
  BY <1>4, <1>5, <1>6, <1>7, <1>8 DEF Grounded

(* What a slot becomes when it is assigned, moved or sent home.             *)
LEMMA SlotAssigned ==
    ASSUME TypeOK, NEW w \in Workers, NEW s, worker' = [worker EXCEPT ![w] = s]
    PROVE  worker'[w] = s /\ OnlyMoves(w)
  BY DEF TypeOK, OnlyMoves

(* ... and what it keeps when only its transaction changes.                 *)
LEMMA SlotMoved ==
    ASSUME TypeOK, NEW w \in Workers, NEW pc, GoTo(w, pc)
    PROVE  /\ worker'[w].pc = pc /\ worker'[w].fence = worker[w].fence
           /\ worker'[w].verdict = worker[w].verdict /\ worker'[w].result = worker[w].result
           /\ worker'[w].final = worker[w].final /\ OnlyMoves(w)
<1> DEFINE s == [worker[w] EXCEPT !.pc = pc]
<1>1. worker[w] \in Slot /\ worker \in [Workers -> Slot]
  BY DEF TypeOK
<1>2. worker' = [worker EXCEPT ![w] = s]
  BY <1>1 DEF GoTo
<1>3. /\ s.pc = pc /\ s.fence = worker[w].fence /\ s.verdict = worker[w].verdict
      /\ s.result = worker[w].result /\ s.final = worker[w].final
  BY <1>1 DEF Slot
<1> HIDE DEF s
<1> QED
  BY <1>2, <1>3, SlotAssigned

(* A slot at home, or on its way to a claim, says nothing.                  *)
LEMMA HomeIsQuiet ==
    ASSUME TypeOK, NEW w \in Workers, NEW s, worker' = [worker EXCEPT ![w] = s],
           s.pc \in {"idle", "recovering", "eligible", "advancing"},
           s.fence = 0, s.verdict = "none"
    PROVE  QuietSlot(w) /\ OnlyMoves(w)
<1>1. worker'[w] = s /\ OnlyMoves(w)
  BY SlotAssigned
<1> QED
  BY <1>1 DEF QuietSlot, Claimed, Unsent, AfterAnswer

(* So does a slot that gives up, or is done with recovery.                  *)
LEMMA ReturnIsQuiet ==
    ASSUME TypeOK, NEW w \in Workers, Return(w) \/ Recovered(w)
    PROVE  QuietSlot(w) /\ OnlyMoves(w)
<1>1. CASE Return(w)
  <2>1. Idle.pc = "idle" /\ Idle.fence = 0 /\ Idle.verdict = "none"
    BY DEF Idle
  <2> QED
    BY <1>1, <2>1, HomeIsQuiet DEF Return
<1>2. CASE Recovered(w)
  <2> DEFINE s == [Idle EXCEPT !.pc = "eligible", !.gen = worker[w].gen]
  <2>1. s.pc = "eligible" /\ s.fence = 0 /\ s.verdict = "none"
    BY IdleIsSlot DEF Idle, Slot
  <2>2. worker' = [worker EXCEPT ![w] = s]
    BY <1>2 DEF Recovered
  <2> HIDE DEF s
  <2> QED
    BY <2>1, <2>2, HomeIsQuiet
<1> QED
  BY <1>1, <1>2

(* A slot that only moves among the transactions before the plugin.         *)
LEMMA MoveIsQuiet ==
    ASSUME TypeOK, NEW w \in Workers, NEW pc, GoTo(w, pc),
           pc \notin AfterAnswer \union {"finishing", "executing", "dispatching", "returned"},
           pc \in Claimed => worker[w].pc \in Claimed /\ worker[w].fence # 0
    PROVE  QuietSlot(w) /\ OnlyMoves(w)
<1>1. /\ worker'[w].pc = pc /\ worker'[w].fence = worker[w].fence
      /\ worker'[w].verdict = worker[w].verdict /\ OnlyMoves(w)
  BY SlotMoved
<1> QED
  BY <1>1 DEF QuietSlot, AfterAnswer, Claimed, Unsent

(* Rows that are left alone are quiet, with or without a cancellation.      *)
LEMMA SameRowsAreQuiet ==
    ASSUME Grounded, UNCHANGED <<step, run, action, effect, cancel, applied, denied>>
    PROVE  QuietRows
  BY DEF Grounded, RunFollowsStep, SignsAreTrue, QuietRows

(* Steps of a delivery, or of recovery, are quiet.                          *)
LEMMA DeliverRecoverGrounded ==
    ASSUME TypeOK, Grounded, NEW w \in Workers, Deliver(w) \/ Recover(w)
    PROVE  Grounded'
<1>0. /\ worker[w] \in Slot /\ step \in Step
      /\ SignsAreTrue /\ RunFollowsStep
  BY DEF TypeOK, Grounded
<1>1. CASE \E g \in Gens : StartStepJob(w, g)
  <2>1. PICK g \in Gens : StartStepJob(w, g)
    BY <1>1
  <2> DEFINE s == [Idle EXCEPT !.pc = "recovering", !.gen = g]
  <2>2. s.pc = "recovering" /\ s.fence = 0 /\ s.verdict = "none"
    BY IdleIsSlot DEF Idle, Slot
  <2>3. worker' = [worker EXCEPT ![w] = s]
    BY <2>1 DEF StartStepJob
  <2> HIDE DEF s
  <2>4. QuietRows
    BY <2>1, SameRowsAreQuiet DEF StartStepJob, rows
  <2> QED
    BY <2>2, <2>3, <2>4, HomeIsQuiet, QuietGrounded
<1>2. CASE StartObservation(w)
  <2> DEFINE r == IF op = "succeeded" THEN "success" ELSE "recovered"
             s == [Idle EXCEPT !.pc = "observing", !.kind = "observation", !.gen = step.gen,
                               !.result = r]
  <2>1. worker' = [worker EXCEPT ![w] = s]
    BY <1>2 DEF StartObservation
  <2>2. r # "failure"
    OBVIOUS
  <2> HIDE DEF r
  <2>3. s.pc = "observing" /\ s.result = r /\ s.fence = 0 /\ s.verdict = "none"
    BY IdleIsSlot DEF Idle, Slot
  <2> HIDE DEF s
  <2>4. worker'[w] = s /\ OnlyMoves(w)
    BY <2>1, SlotAssigned
  <2>5. QuietSlot(w)
    BY <2>2, <2>3, <2>4 DEF QuietSlot, Claimed, Unsent, AfterAnswer
  <2>6. QuietRows
    BY <1>2, SameRowsAreQuiet DEF StartObservation, rows
  <2> QED
    BY <2>4, <2>5, <2>6, QuietGrounded
<1>3. CASE RecoverRead(w)
  <2> DEFINE s == IF StepIsStale THEN [worker[w] EXCEPT !.pc = "inspecting", !.seen = step.fence]
                  ELSE [worker[w] EXCEPT !.pc = "eligible"]
  <2>1. worker' = [worker EXCEPT ![w] = s]
    BY <1>3 DEF RecoverRead
  <2>2. s.pc \in {"inspecting", "eligible"} /\ s.fence = worker[w].fence
        /\ s.verdict = worker[w].verdict
    BY <1>0 DEF Slot
  <2> HIDE DEF s
  <2>3. worker'[w] = s /\ OnlyMoves(w)
    BY <2>1, SlotAssigned
  <2>4. QuietSlot(w)
    BY <2>2, <2>3 DEF QuietSlot, Claimed, Unsent, AfterAnswer
  <2>5. QuietRows
    BY <1>3, SameRowsAreQuiet DEF RecoverRead, rows
  <2> QED
    BY <2>3, <2>4, <2>5, QuietGrounded
<1>4. CASE RecoverInspect(w) \/ RecoverOpenCase(w)
  <2>1. PICK pc \in {"rearming", "parking", "doubting", "doubted"} : GoTo(w, pc)
    BY <1>4 DEF RecoverInspect, RecoverOpenCase
  <2>2. QuietSlot(w) /\ OnlyMoves(w)
    BY <2>1, MoveIsQuiet DEF Claimed, AfterAnswer
  <2>3. QuietRows
    BY <1>4, SameRowsAreQuiet DEF RecoverInspect, RecoverOpenCase, rows
  <2> QED
    BY <2>2, <2>3, QuietGrounded
<1>5. CASE RecoverRearm(w) \/ RecoverPark(w) \/ RecoverDoubt(w)
  <2>1. Recovered(w)
    BY <1>5 DEF RecoverRearm, RecoverPark, RecoverDoubt
  <2>2. QuietSlot(w) /\ OnlyMoves(w)
    BY <2>1, ReturnIsQuiet
  <2>3. RecoverRearm(w) => QuietRows
    BY <1>0 DEF RecoverRearm, RedriveTo, QuietRows, RunFollowsStep, SignsAreTrue, Step
  <2>4. RecoverPark(w) => QuietRows
    BY <1>0 DEF RecoverPark, StillStale, StepIsStale, MoveStep, QuietRows, RunFollowsStep,
                      SignsAreTrue, Step
  <2>5. RecoverDoubt(w) => QuietRows
    BY <1>0 DEF RecoverDoubt, NeedsReview, StillStale, StepIsStale, MoveStep, QuietRows,
                      RunFollowsStep, SignsAreTrue, Step
  <2> QED
    BY <1>5, <2>2, <2>3, <2>4, <2>5, QuietGrounded
<1> QED
  BY <1>1, <1>2, <1>3, <1>4, <1>5 DEF Deliver, Recover

(* So are controls, and the passing of a lease: a retried run has nothing   *)
(* under way that it could lose the sign of.                                *)
LEMMA OperateGrounded ==
    ASSUME TypeOK, Grounded, Operate \/ ExpireLease
    PROVE  Grounded'
<1>0. /\ step \in Step /\ step' \in Step
      /\ SignsAreTrue /\ RunFollowsStep
  BY OperateTypes DEF TypeOK, Grounded
<1>1. worker' = worker
  BY DEF Operate, ExpireLease, Pause, Resume, Escalate, CancelRead, CancelWrite, RetryRun,
         ResolveReconciliationCase, rows
<1>2. Pause \/ Escalate \/ ExpireLease \/ ResolveReconciliationCase => QuietRows
  BY <1>0 DEF Pause, Escalate, ExpireLease, ResolveReconciliationCase, NeedsReview, QuietRows,
              RunFollowsStep, SignsAreTrue
<1>3. Resume => QuietRows
  BY <1>0 DEF Resume, QuietRows, RunFollowsStep, SignsAreTrue, Step
<1>4. CancelRead => QuietRows
  BY <1>0 DEF CancelRead, rows, QuietRows, RunFollowsStep, SignsAreTrue
<1>5. ASSUME CancelWrite PROVE QuietRows
  <2>1. run' = "cancelled" /\ cancel'.on = FALSE /\ UNCHANGED <<applied, denied>>
    BY <1>5 DEF CancelWrite, NotCancelling
  <2>2. /\ effect' = "verified" => effect = "verified"
        /\ action' = "completed" => action = "completed"
    BY <1>5 DEF CancelWrite, NeedsReview
  <2>3. \/ step' = [step EXCEPT !.status = "failed", !.exec = "cancelled_before_effect"]
        \/ step' = [step EXCEPT !.exec = "cancellation_requested"]
        \/ step' = step
    BY <1>5 DEF CancelWrite, MoveStep
  <2>4. /\ step'.fence = step.fence /\ step'.committed = step.committed
        /\ step'.status \in {"failed", step.status}
        /\ step'.exec \in {"cancelled_before_effect", "cancellation_requested"} \/ step' = step
    BY <1>0, <2>3 DEF Step
  <2> QED
    BY <1>0, <2>1, <2>2, <2>4 DEF QuietRows, RunFollowsStep, SignsAreTrue
<1>6. RetryRun => QuietRows
  BY <1>0 DEF RetryRun, Retryable, QuietRows, RunFollowsStep, SignsAreTrue, Step
<1> QED
  BY <1>1, <1>2, <1>3, <1>4, <1>5, <1>6, QuietRowsGrounded DEF Operate

-----------------------------------------------------------------------------
(* Before the plugin only the claim and the operation row say anything new. *)

(* A claim takes a fence that nobody has.                                   *)
LEMMA ClaimGrounded ==
    ASSUME TypeOK, Grounded, NEW w \in Workers, ClaimStep(w)
    PROVE  Grounded'
<1>0. step \in Step /\ step.fence \in Nat
  BY ConstantsAssumption DEF TypeOK, Step
<1>1. CASE step.status = "pending" /\ step.gen = worker[w].gen /\ run = "running"
  <2> DEFINE f == step.fence + 1
             s == [Idle EXCEPT !.pc = "admitting", !.gen = worker[w].gen, !.fence = f]
  <2>1. /\ step' = [step EXCEPT !.status = "leased", !.exec = "claimed", !.fence = f]
        /\ worker' = [worker EXCEPT ![w] = s]
        /\ UNCHANGED <<run, effect, action, cancel, applied, denied>>
    BY <1>1 DEF ClaimStep
  <2>2. /\ step'.fence = f /\ step'.status = "leased" /\ step'.exec = "claimed"
        /\ step'.committed = step.committed
    BY <1>0, <2>1 DEF Step
  <2>3. f > step.fence /\ f \in Nat
    BY <1>0
  <2> HIDE DEF f
  <2>4. s.pc = "admitting" /\ s.fence = f /\ s.verdict = "none"
    BY IdleIsSlot DEF Idle, Slot
  <2> HIDE DEF s
  <2>5. worker'[w] = s /\ \A v \in Workers : v # w => worker'[v] = worker[v]
    BY <2>1, SlotAssigned DEF OnlyMoves
  <2>6. Underway' => Underway
    BY <2>1, <2>4, <2>5 DEF Underway, InFlight
  <2>7. SuccessHasGround' /\ RunFollowsStep'
    BY <1>1, <2>1, <2>2, <2>4, <2>5 DEF Grounded, SuccessHasGround, RunFollowsStep, Happened
  <2>8. FencesAreOwn'
    <3>1. \A v \in Workers : worker[v].fence \in Nat /\ worker[v].fence <= step.fence
      BY ConstantsAssumption DEF TypeOK, Slot, Grounded, FencesAreOwn
    <3>2. \A g \in Happened : g \in Nat /\ g <= step.fence
      BY ConstantsAssumption DEF TypeOK, Grounded, FencesAreOwn, Happened
    <3>3. \A v \in Workers : v # w => worker'[v].fence < f
      BY <1>0, <2>3, <2>5, <3>1
    <3>4. \A g \in Happened : g < f
      BY <1>0, <2>3, <3>2
    <3>5. f # 0 /\ worker'[w].fence = f /\ step'.fence = f
      BY <1>0, <2>2, <2>3, <2>4, <2>5
    <3>6. \A v \in Workers : worker'[v].fence \in Nat
      BY <2>3, <2>5, <3>1, <3>5
    <3>7. \A v \in Workers : v # w => worker'[v].fence # f
      BY <3>3, <3>6, <2>3
    <3>8. \A v \in Workers : worker'[v].fence <= f
      BY <3>3, <3>5, <3>6, <2>3
    <3>9. \A g \in Happened : g <= f
      BY <3>2, <3>4, <2>3
    <3> QED
      BY <2>1, <2>5, <3>5, <3>7, <3>8, <3>9 DEF Grounded, FencesAreOwn, InFlight, Happened
  <2>9. FailuresAreOld'
    BY <2>1, <2>4, <2>5 DEF Grounded, FailuresAreOld, InFlight, AfterAnswer
  <2>10. SignsAreTrue'
    BY <2>2, <2>6 DEF Grounded, SignsAreTrue
  <2>11. DenialsAreOld'
    <3>1. \A g \in denied : g \in Nat /\ g <= step.fence
      BY ConstantsAssumption DEF TypeOK, Grounded, FencesAreOwn, Happened
    <3>2. f \notin denied
      BY <1>0, <2>3, <3>1
    <3> QED
      BY <2>1, <2>4, <2>5, <3>2 DEF Grounded, DenialsAreOld, Unsent
  <2> QED
    BY <2>7, <2>8, <2>9, <2>10, <2>11 DEF Grounded
<1>2. CASE ~(step.status = "pending" /\ step.gen = worker[w].gen /\ run = "running")
  <2>1. Return(w) /\ UNCHANGED <<step, run, action, effect, cancel, applied, denied>>
    BY <1>2 DEF ClaimStep
  <2> QED
    BY <2>1, ReturnIsQuiet, SameRowsAreQuiet, QuietGrounded
<1> QED
  BY <1>1, <1>2

(* The worker that enters the plugin owns the step, so that its claim is    *)
(* newer than any other, and commits before anything is under way.          *)
LEMMA StartGrounded ==
    ASSUME TypeOK, EffectGuarded, Grounded, NEW w \in Workers,
           worker[w].pc \in {"opening", "reclaiming"}, StartOperation(w)
    PROVE  Grounded'
<1> DEFINE s == [worker[w] EXCEPT !.pc = "executing", !.sawExecuting = FALSE]
<1>0. worker[w] \in Slot /\ step \in Step /\ worker \in [Workers -> Slot]
  BY DEF TypeOK
<1>1. /\ s.pc = "executing" /\ s.fence = worker[w].fence /\ s.verdict = worker[w].verdict
  BY <1>0 DEF Slot
<1>2. worker' = [worker EXCEPT ![w] = s]
  BY <1>0 DEF StartOperation
<1> HIDE DEF s
<1>3. worker'[w] = s /\ \A v \in Workers : v # w => worker'[v] = worker[v]
  BY <1>2, SlotAssigned DEF OnlyMoves
<1>4. /\ step'.status = step.status /\ step'.fence = step.fence /\ step'.committed
      /\ step'.exec = "commit_started" /\ step.status = "leased"
      /\ step.fence = worker[w].fence
      /\ UNCHANGED <<run, action, cancel, applied, denied>>
      /\ effect' = "verified" => effect = "verified"
  BY <1>0 DEF StartOperation, Owns, Step
<1>5. applied = {} /\ \A v \in Workers : ~InFlight(v)
  BY DEF StartOperation, EffectGuarded, AppliedIsRecorded, OneInFlight
<1>6. \A v \in Workers : InFlight(v)' => v = w
  BY <1>3, <1>5 DEF InFlight
<1>7. SuccessHasGround' /\ RunFollowsStep'
  BY <1>1, <1>3, <1>4 DEF Grounded, SuccessHasGround, RunFollowsStep, Happened
<1>8. FencesAreOwn'
  BY <1>1, <1>3, <1>4, <1>6 DEF Grounded, FencesAreOwn, Claimed, Happened
<1>9. FailuresAreOld'
  <2>1. worker[w].fence # 0
    BY DEF Grounded, FencesAreOwn, Claimed
  <2>2. \A v \in Workers : worker[v].fence \in Nat
    BY ConstantsAssumption DEF TypeOK, Slot
  <2>3. \A v \in Workers : v # w => worker[v].fence < worker[w].fence
    <3> SUFFICES ASSUME NEW v \in Workers, v # w PROVE worker[v].fence < worker[w].fence
      OBVIOUS
    <3>1. worker[v].fence <= worker[w].fence /\ worker[v].fence # worker[w].fence
      BY <1>4, <2>1 DEF Grounded, FencesAreOwn
    <3>2. worker[v].fence \in Nat /\ worker[w].fence \in Nat
      BY <2>2
    <3> QED
      BY <3>1, <3>2
  <2> QED
    BY <1>1, <1>3, <1>4, <1>5, <1>6, <2>3 DEF Grounded, FailuresAreOld, AfterAnswer
<1>10. SignsAreTrue'
  BY <1>4, <1>5 DEF SignsAreTrue
<1>11. DenialsAreOld'
  <2>1. worker[w].fence \notin denied
    BY DEF Grounded, DenialsAreOld, Claimed
  <2>2. \A g \in denied : g \in Nat /\ g <= worker[w].fence
    BY <1>4, ConstantsAssumption DEF TypeOK, Grounded, FencesAreOwn, Happened
  <2>3. worker[w].fence \in Nat
    BY <1>0, ConstantsAssumption DEF Slot
  <2>4. \A g \in denied : g < worker[w].fence
    BY <2>1, <2>2, <2>3
  <2> QED
    BY <1>1, <1>3, <1>4, <2>4 DEF Grounded, DenialsAreOld, Claimed
<1> QED
  BY <1>7, <1>8, <1>9, <1>10, <1>11 DEF Grounded

(* A slot that looked at the operation row and did not start it.            *)
LEMMA PrepareGrounded ==
    ASSUME TypeOK, EffectGuarded, Grounded, NEW w \in Workers, Prepare(w)
    PROVE  Grounded'
<1>0. /\ worker[w] \in Slot /\ worker \in [Workers -> Slot] /\ step \in Step
      /\ SignsAreTrue /\ RunFollowsStep
      /\ worker[w].pc \in Claimed => worker[w].fence # 0
  BY DEF TypeOK, Grounded, FencesAreOwn
<1>1. CASE CheckEligibility(w)
  <2>1. PICK pc \in {"claiming", "ineligible"} : GoTo(w, pc)
    BY <1>1 DEF CheckEligibility
  <2>2. QuietSlot(w) /\ OnlyMoves(w)
    BY <2>1, MoveIsQuiet DEF Claimed, AfterAnswer
  <2>3. QuietRows
    BY <1>1, SameRowsAreQuiet DEF CheckEligibility, rows
  <2> QED
    BY <2>2, <2>3, QuietGrounded
<1>2. CASE RecordIneligibility(w)
  <2>1. QuietSlot(w) /\ OnlyMoves(w)
    BY <1>2, ReturnIsQuiet DEF RecordIneligibility
  <2>2. QuietRows
    BY <1>0, <1>2 DEF RecordIneligibility, NeedsReview, QuietRows, RunFollowsStep, SignsAreTrue, Step
  <2> QED
    BY <2>1, <2>2, QuietGrounded
<1>3. CASE ClaimStep(w)
  BY <1>3, ClaimGrounded
<1>4. CASE Admit(w)
  <2>1. Return(w) \/ \E pc \in {"committing", "blocking"} : GoTo(w, pc)
    BY <1>4 DEF Admit
  <2>2. QuietSlot(w) /\ OnlyMoves(w)
    <3>1. CASE Return(w)
      BY <3>1, ReturnIsQuiet
    <3>2. CASE \E pc \in {"committing", "blocking"} : GoTo(w, pc)
      <4>1. PICK pc \in {"committing", "blocking"} : GoTo(w, pc)
        BY <3>2
      <4>2. worker[w].pc \in Claimed /\ worker[w].fence # 0
        BY <1>0, <1>4 DEF Admit, Claimed
      <4> QED
        BY <4>1, <4>2, MoveIsQuiet DEF AfterAnswer
    <3> QED
      BY <2>1, <3>1, <3>2
  <2>3. QuietRows
    BY <1>4, SameRowsAreQuiet DEF Admit, rows
  <2> QED
    BY <2>2, <2>3, QuietGrounded
<1>5. CASE BeginEffectCommit(w)
  <2> DEFINE saw == effect = "executing"
             s == [worker[w] EXCEPT !.pc = "opening", !.sawExecuting = saw]
  <2>1. worker' = [worker EXCEPT ![w] = s]
    BY <1>0, <1>5 DEF BeginEffectCommit
  <2> HIDE DEF saw
  <2>2. /\ s.pc = "opening" /\ s.fence = worker[w].fence /\ s.verdict = worker[w].verdict
    BY <1>0 DEF Slot
  <2> HIDE DEF s
  <2>3. worker'[w] = s /\ OnlyMoves(w)
    BY <2>1, SlotAssigned
  <2>4. worker[w].fence # 0
    BY <1>0, <1>5 DEF BeginEffectCommit, Claimed
  <2>5. QuietSlot(w)
    BY <1>5, <2>2, <2>3, <2>4 DEF BeginEffectCommit, QuietSlot, AfterAnswer, Claimed, Unsent
  <2>6. QuietRows
    BY <1>5, SameRowsAreQuiet DEF BeginEffectCommit, rows
  <2> QED
    BY <2>3, <2>5, <2>6, QuietGrounded
<1>6. CASE StartOperation(w) /\ worker[w].pc \in {"opening", "reclaiming"}
  BY <1>6, StartGrounded
<1>7. CASE FindOperation(w) /\ op # "none"
  <2> DEFINE pc == CASE op = "failed" -> "reclaiming"
                     [] op = "succeeded" -> "observing"
                     [] op \in {"running", "unknown"} -> "doubtful"
             r == IF op = "succeeded" THEN "success" ELSE "none"
             saw == worker[w].sawExecuting /\ op = "failed"
             s == [worker[w] EXCEPT !.pc = pc, !.result = r, !.sawExecuting = saw]
  <2>1. worker' = [worker EXCEPT ![w] = s]
    BY <1>0, <1>7 DEF FindOperation
  <2>2. pc \in {"reclaiming", "observing", "doubtful"} /\ r # "failure"
    BY <1>7 DEF TypeOK, OpStatus
  <2> HIDE DEF pc, r, saw
  <2>3. /\ s.pc = pc /\ s.fence = worker[w].fence /\ s.verdict = worker[w].verdict
        /\ s.result = r
    BY <1>0 DEF Slot
  <2> HIDE DEF s
  <2>4. worker'[w] = s /\ OnlyMoves(w)
    BY <2>1, SlotAssigned
  <2>5. worker[w].fence # 0
    BY <1>0, <1>7 DEF FindOperation, Claimed
  <2>6. QuietSlot(w)
    BY <1>7, <2>2, <2>3, <2>4, <2>5 DEF FindOperation, QuietSlot, Claimed, Unsent
  <2>7. QuietRows
    BY <1>7, SameRowsAreQuiet DEF FindOperation, rows
  <2> QED
    BY <2>4, <2>6, <2>7, QuietGrounded
<1>8. CASE DoubtOperation(w)
  <2> DEFINE s == [worker[w] EXCEPT !.pc = "reconciling", !.result = "uncommitted",
                                    !.sawExecuting = FALSE]
  <2>1. worker' = [worker EXCEPT ![w] = s]
    BY <1>0, <1>8 DEF DoubtOperation
  <2>2. /\ s.pc = "reconciling" /\ s.fence = worker[w].fence /\ s.verdict = worker[w].verdict
        /\ s.result = "uncommitted"
    BY <1>0 DEF Slot
  <2> HIDE DEF s
  <2>3. worker'[w] = s /\ OnlyMoves(w)
    BY <2>1, SlotAssigned
  <2>4. QuietSlot(w)
    BY <2>2, <2>3 DEF QuietSlot, Claimed, Unsent
  <2>5. QuietRows
    BY <1>0, <1>8 DEF DoubtOperation, Owns, QuietRows, RunFollowsStep, SignsAreTrue, Step
  <2> QED
    BY <2>3, <2>4, <2>5, QuietGrounded
<1>9. CASE RefuseEffectCommit(w)
  <2> DEFINE s == [worker[w] EXCEPT !.pc = "blocking", !.sawExecuting = FALSE]
  <2>1. Return(w) \/ worker' = [worker EXCEPT ![w] = s]
    BY <1>0, <1>9 DEF RefuseEffectCommit
  <2>2. s.pc = "blocking" /\ s.fence = worker[w].fence /\ s.verdict = worker[w].verdict
    BY <1>0 DEF Slot
  <2> HIDE DEF s
  <2>3. QuietSlot(w) /\ OnlyMoves(w)
    <3>1. CASE Return(w)
      BY <3>1, ReturnIsQuiet
    <3>2. CASE worker' = [worker EXCEPT ![w] = s]
      <4>1. worker'[w] = s /\ OnlyMoves(w)
        BY <3>2, SlotAssigned
      <4> QED
        BY <2>2, <4>1 DEF QuietSlot, AfterAnswer, Claimed, Unsent
    <3> QED
      BY <2>1, <3>1, <3>2
  <2>4. QuietRows
    BY <1>9, SameRowsAreQuiet DEF RefuseEffectCommit, rows
  <2> QED
    BY <2>3, <2>4, QuietGrounded
<1>10. CASE BlockBeforeEffect(w)
  <2> DEFINE s == [worker[w] EXCEPT !.pc = "settling", !.result = "blocked"]
  <2>1. worker' = [worker EXCEPT ![w] = s]
    BY <1>0, <1>10 DEF BlockBeforeEffect
  <2>2. /\ s.pc = "settling" /\ s.fence = worker[w].fence /\ s.verdict = worker[w].verdict
        /\ s.result = "blocked"
    BY <1>0 DEF Slot
  <2> HIDE DEF s
  <2>3. worker'[w] = s /\ OnlyMoves(w)
    BY <2>1, SlotAssigned
  <2>4. QuietSlot(w)
    BY <2>2, <2>3 DEF QuietSlot, Claimed, Unsent
  <2>5. QuietRows
    BY <1>0, <1>10 DEF BlockBeforeEffect, NeedsReview, Owns, QuietRows, RunFollowsStep,
                       SignsAreTrue, Step
  <2> QED
    BY <2>3, <2>4, <2>5, QuietGrounded
<1>11. FindOperation(w) => \/ StartOperation(w) /\ worker[w].pc \in {"opening", "reclaiming"}
                           \/ FindOperation(w) /\ op # "none"
  BY DEF FindOperation
<1>12. ReclaimOperation(w) => StartOperation(w) /\ worker[w].pc \in {"opening", "reclaiming"}
  BY DEF ReclaimOperation
<1> QED
  BY <1>1, <1>2, <1>3, <1>4, <1>5, <1>6, <1>7, <1>8, <1>9, <1>10, <1>11, <1>12 DEF Prepare

-----------------------------------------------------------------------------
(* From the plugin to the settlement.                                       *)

(* The answer of a worker moves only its own slot.                          *)
LEMMA AnswerMoves ==
    ASSUME TypeOK, NEW w \in Workers, NEW r,
           worker' = [worker EXCEPT ![w].pc = "returned", ![w].result = r]
    PROVE  worker'[w].pc = "returned" /\ OnlyMoves(w)
<1> DEFINE s == [worker[w] EXCEPT !.pc = "returned", !.result = r]
<1>1. worker[w] \in Slot /\ worker \in [Workers -> Slot]
  BY DEF TypeOK
<1>2. worker' = [worker EXCEPT ![w] = s]
  BY <1>1
<1>3. s.pc = "returned"
  BY <1>1 DEF Slot
<1> HIDE DEF s
<1> QED
  BY <1>2, <1>3, SlotAssigned

(* The one worker in the plugin owns the newest claim that is under way.    *)
LEMMA CallGrounded ==
    ASSUME TypeOK, EffectGuarded, Grounded, NEW w \in Workers, VerifyDispatch(w) \/ Dispatch(w)
    PROVE  Grounded'
<1>0. /\ worker[w] \in Slot /\ worker \in [Workers -> Slot]
      /\ UNCHANGED <<rows, cancel>> /\ InFlight(w)
      /\ step' = step /\ run' = run /\ effect' = effect /\ action' = action
  BY DEF TypeOK, VerifyDispatch, Dispatch, rows, InFlight
<1>1. /\ applied' \subseteq applied \union {worker[w].fence}
      /\ denied' \subseteq denied \union {worker[w].fence}
  BY DEF VerifyDispatch, Dispatch
<1>2. applied \subseteq applied' /\ denied \subseteq denied'
  BY DEF VerifyDispatch, Dispatch
<1>3. \E pc \in {"dispatching", "returned"}, r \in Result :
        worker' = [worker EXCEPT ![w] = [worker[w] EXCEPT !.pc = pc, !.result = r]]
  <2>1. CASE GoTo(w, "dispatching")
    <3>1. [worker EXCEPT ![w].pc = "dispatching"]
            = [worker EXCEPT ![w] = [worker[w] EXCEPT !.pc = "dispatching",
                                                      !.result = worker[w].result]]
      BY <1>0 DEF Slot
    <3> QED
      BY <1>0, <2>1, <3>1 DEF GoTo, Slot
  <2>2. CASE \E r \in Result : worker' = [worker EXCEPT ![w].pc = "returned", ![w].result = r]
    <3>1. PICK r \in Result : worker' = [worker EXCEPT ![w].pc = "returned", ![w].result = r]
      BY <2>2
    <3>2. worker' = [worker EXCEPT ![w] = [worker[w] EXCEPT !.pc = "returned", !.result = r]]
      BY <1>0, <3>1
    <3> QED
      BY <3>2
  <2> QED
    BY <2>1, <2>2 DEF VerifyDispatch, Dispatch, Result
<1>4. PICK pc \in {"dispatching", "returned"}, r \in Result :
        worker' = [worker EXCEPT ![w] = [worker[w] EXCEPT !.pc = pc, !.result = r]]
  BY <1>3
<1> DEFINE s == [worker[w] EXCEPT !.pc = pc, !.result = r]
<1>5. /\ s.pc = pc /\ s.fence = worker[w].fence /\ s.verdict = worker[w].verdict
  BY <1>0 DEF Slot
<1>6. worker' = [worker EXCEPT ![w] = s]
  BY <1>4
<1> HIDE DEF s
<1>7. worker'[w] = s /\ \A v \in Workers : v # w => worker'[v] = worker[v]
  BY <1>6, SlotAssigned DEF OnlyMoves
<1>8. \A v \in Workers : InFlight(v)' => InFlight(v)
  BY <1>0, <1>7 DEF InFlight
<1>9. SuccessHasGround' /\ RunFollowsStep'
  BY <1>0, <1>2, <1>5, <1>7 DEF Grounded, SuccessHasGround, RunFollowsStep, Happened
<1>10. FencesAreOwn'
  BY <1>0, <1>1, <1>5, <1>7, <1>8 DEF Grounded, FencesAreOwn, Claimed, Happened
<1>11. FailuresAreOld'
  BY <1>0, <1>1, <1>5, <1>7, <1>8 DEF Grounded, FailuresAreOld, AfterAnswer
<1>12. SignsAreTrue'
  <2>1. Underway
    BY <1>0 DEF Underway
  <2> QED
    BY <1>0, <2>1 DEF Grounded, SignsAreTrue
<1>13. DenialsAreOld'
  <2>1. applied = {} /\ worker[w].pc \in Unsent /\ \A v \in Workers : InFlight(v) => v = w
    BY <1>0 DEF EffectGuarded, NothingYet, OneInFlight, VerifyDispatch, Dispatch, Unsent
  <2>2. \A v \in Workers : worker'[v].pc \in Unsent => v = w
    BY <1>0, <1>7, <2>1 DEF InFlight, Unsent
  <2>3. \A g \in denied : g < worker[w].fence
    BY <2>1 DEF Grounded, DenialsAreOld
  <2>4. worker'[w].pc \in Unsent => denied' = denied
    <3>1. CASE VerifyDispatch(w)
      BY <3>1 DEF VerifyDispatch
    <3>2. CASE Dispatch(w)
      <4>1. worker'[w].pc = "returned"
        BY <3>2, AnswerMoves DEF Dispatch
      <4> QED
        BY <4>1 DEF Unsent
    <3> QED
      BY <3>1, <3>2
  <2>5. \A v \in Workers : worker'[v].pc \in Claimed => worker'[v].fence \notin denied'
    BY <1>0, <1>1, <1>5, <1>7 DEF Grounded, DenialsAreOld, FencesAreOwn, Claimed
  <2>6. \A f \in applied', g \in denied' : g < f
    <3>1. applied' = {} \/ (applied' = {worker[w].fence} /\ denied' = denied)
      BY <2>1 DEF VerifyDispatch, Dispatch
    <3> QED
      BY <2>3, <3>1
  <2> QED
    BY <1>5, <1>7, <2>2, <2>3, <2>4, <2>5, <2>6 DEF DenialsAreOld
<1> QED
  BY <1>9, <1>10, <1>11, <1>12, <1>13 DEF Grounded

(* A worker that was told of a failure leaves the plugin empty, with        *)
(* nothing applied.                                                         *)
LEMMA AnswerGrounded ==
    ASSUME TypeOK, EffectGuarded, Grounded, NEW w \in Workers, RecordSemanticOperation(w)
    PROVE  Grounded'
<1>1. /\ UNCHANGED <<step, run, action, effect, cancel, applied, denied>>
      /\ GoTo(w, "observing") /\ worker[w].pc = "returned"
  BY DEF RecordSemanticOperation
<1>2. /\ worker'[w].pc = "observing" /\ worker'[w].fence = worker[w].fence
      /\ worker'[w].verdict = worker[w].verdict /\ worker'[w].result = worker[w].result
      /\ \A v \in Workers : v # w => worker'[v] = worker[v]
  BY <1>1, SlotMoved DEF OnlyMoves
<1>3. \A v \in Workers : ~InFlight(v)'
  BY <1>1, <1>2 DEF InFlight, EffectGuarded, OneInFlight
<1>4. worker[w].result = "failure" => applied = {}
  BY <1>1 DEF EffectGuarded, NothingYet
<1>5. SuccessHasGround' /\ RunFollowsStep'
  BY <1>1, <1>2 DEF Grounded, SuccessHasGround, RunFollowsStep, Happened
<1>6. FencesAreOwn'
  BY <1>1, <1>2, <1>3 DEF Grounded, FencesAreOwn, Claimed, Happened
<1>7. FailuresAreOld'
  BY <1>1, <1>2, <1>3, <1>4 DEF Grounded, FailuresAreOld, AfterAnswer
<1>8. SignsAreTrue'
  <2>1. Underway' => Underway
    BY <1>1, <1>3 DEF Underway
  <2> QED
    BY <1>1, <2>1 DEF Grounded, SignsAreTrue
<1>9. DenialsAreOld'
  BY <1>1, <1>2 DEF Grounded, DenialsAreOld, Claimed, Unsent
<1> QED
  BY <1>5, <1>6, <1>7, <1>8, <1>9 DEF Grounded

(* What a settlement does to the step: a completed one had its effect       *)
(* verified, and a failed one keeps the execution state it shows or says    *)
(* that the effect is possible.                                             *)
LEMMA SettleQuiet ==
    ASSUME TypeOK, Grounded, NEW w \in Workers, NEW status \in {"completed", "failed"},
           NEW exec, SettleStep(w, status, exec),
           status = "completed" => Happened # {},
           exec \in {step.exec, "verified", "failed_after_possible_effect"},
           UNCHANGED <<run, action, effect, cancel, applied, denied>>
    PROVE  QuietRows
<1>0. step \in Step /\ SignsAreTrue /\ RunFollowsStep
  BY DEF TypeOK, Grounded
<1>1. CASE step' = step
  BY <1>1, SameRowsAreQuiet
<1>2. CASE MaySettle(w)
  <2>1. /\ step'.fence = step.fence /\ step'.committed = step.committed
        /\ step'.status = status /\ step'.exec = exec
    BY <1>0, <1>2 DEF SettleStep, MoveStep, Step
  <2>2. step.status \in {"leased", "waiting_observation"}
    BY <1>2 DEF MaySettle, Owns
  <2>3. step.exec # "authorized"
    BY <1>0, <2>2 DEF SignsAreTrue
  <2> QED
    BY <1>0, <2>1, <2>2, <2>3 DEF QuietRows, RunFollowsStep
<1> QED
  BY <1>1, <1>2 DEF SettleStep

(* A late failure does not write its verdict over the signs of a newer      *)
(* claim: its worker no longer owns the step.                               *)
LEMMA ProjectQuiet ==
    ASSUME TypeOK, EffectGuarded, Grounded, NEW w \in Workers, Project(w)
    PROVE  QuietRows
<1>0. /\ step \in Step /\ SignsAreTrue /\ RunFollowsStep
      /\ worker[w].pc = "projecting"
      /\ UNCHANGED <<run, effect, cancel, applied, denied>>
  BY DEF TypeOK, Grounded, Project
<1>1. worker[w].result \in Answers /\ worker[w].verdict # "none" /\ worker[w].verdict \in Verdict
  BY <1>0 DEF TypeOK, Slot, EffectGuarded, SlotsCarry, Carries
<1>2. action' = "completed" => action = "completed" \/ Happened # {}
  <2>1. ProjectedAction(w) = "completed" => worker[w].verdict = "verified"
    BY <1>1 DEF ProjectedAction, SettlementMissing, Answers
  <2>2. worker[w].verdict = "verified" => Happened # {}
    BY DEF Grounded, SuccessHasGround
  <2>3. action' \in {action, ProjectedAction(w)}
    BY DEF Project
  <2> QED
    BY <2>1, <2>2, <2>3
<1>3. CASE Owns(w) /\ step' = [step EXCEPT !.exec = ProjectedExecution(w)]
  <2>1. worker[w].verdict = "failed" => ~Underway
    <3> SUFFICES ASSUME worker[w].verdict = "failed" PROVE ~Underway
      OBVIOUS
    <3>1. /\ \A v \in Workers : InFlight(v) => worker[w].fence < worker[v].fence
          /\ \A f \in applied : worker[w].fence < f
      BY <1>0 DEF Grounded, FailuresAreOld, AfterAnswer
    <3>2. /\ \A v \in Workers : worker[v].fence \in Nat /\ worker[v].fence <= worker[w].fence
          /\ \A f \in applied : f \in Nat /\ f <= worker[w].fence
      BY <1>3, ConstantsAssumption DEF Owns, TypeOK, Slot, Grounded, FencesAreOwn, Happened
    <3>3. worker[w].fence \in Nat
      BY <3>2
    <3>4. ASSUME NEW f \in Nat, f <= worker[w].fence, worker[w].fence < f PROVE FALSE
      BY <3>3, <3>4
    <3> QED
      BY <3>1, <3>2, <3>4 DEF Underway
  <2>2. /\ step'.fence = step.fence /\ step'.committed = step.committed
        /\ step'.status = step.status /\ step'.exec = ProjectedExecution(w)
    BY <1>0, <1>3 DEF Step
  <2>3. /\ ProjectedExecution(w) = "failed_before_effect" => ~Underway
        /\ ProjectedExecution(w) # "authorized"
    BY <1>1, <2>1 DEF ProjectedExecution, Verdict
  <2> QED
    BY <1>0, <1>2, <2>2, <2>3 DEF QuietRows, RunFollowsStep
<1>4. CASE step' = step
  BY <1>0, <1>2, <1>4 DEF QuietRows, RunFollowsStep, SignsAreTrue
<1> QED
  BY <1>3, <1>4 DEF Project

(* Judging, projecting and settling what a plugin answered.                 *)
LEMMA ExecuteGrounded ==
    ASSUME TypeOK, EffectGuarded, Grounded, NEW w \in Workers, Execute(w) \/ HandlerThrows(w)
    PROVE  Grounded'
<1>0. /\ worker[w] \in Slot /\ worker \in [Workers -> Slot] /\ step \in Step
      /\ SuccessHasGround /\ SignsAreTrue /\ RunFollowsStep
      /\ Carries(worker[w])
  BY DEF TypeOK, Grounded, EffectGuarded, SlotsCarry
<1>1. CASE VerifyDispatch(w) \/ Dispatch(w)
  BY <1>1, CallGrounded
<1>2. CASE RecordSemanticOperation(w)
  BY <1>2, AnswerGrounded
<1>3. CASE RecordBusinessEffectOutcome(w)
  <2>1. PICK v \in Verdicts(w) :
          /\ effect' = CASE v = "verified" -> "verified"
                         [] v = "missing" -> "divergent"
                         [] v = "failed" -> "failed"
                         [] v = "uncertain" -> "reconciliation_required"
          /\ worker' = [worker EXCEPT ![w].pc = "projecting", ![w].verdict = v]
    BY <1>3 DEF RecordBusinessEffectOutcome
  <2>2. /\ v \in {"verified", "missing", "failed", "uncertain"}
        /\ v = "verified" => Happened # {}
    BY <1>0, <2>1 DEF Verdicts, SuccessHasGround
  <2>3. v = "failed" => worker[w].result = "failure"
    BY <2>1 DEF Verdicts
  <2>4. effect' = "verified" => v = "verified"
    BY <2>1, <2>2
  <2> DEFINE s == [worker[w] EXCEPT !.pc = "projecting", !.verdict = v]
  <2>5. /\ s.pc = "projecting" /\ s.verdict = v /\ s.result = worker[w].result
        /\ s.fence = worker[w].fence
    BY <1>0 DEF Slot
  <2>6. worker' = [worker EXCEPT ![w] = s]
    BY <1>0, <2>1
  <2> HIDE DEF s
  <2>7. worker'[w] = s /\ OnlyMoves(w)
    BY <2>6, SlotAssigned
  <2>8. QuietSlot(w)
    BY <1>3, <2>2, <2>3, <2>5, <2>7 DEF RecordBusinessEffectOutcome, QuietSlot, Claimed, Unsent, AfterAnswer
  <2>9. QuietRows
    BY <1>0, <1>3, <2>2, <2>4 DEF RecordBusinessEffectOutcome, QuietRows, RunFollowsStep, SignsAreTrue
  <2> QED
    BY <2>7, <2>8, <2>9, QuietGrounded
<1>4. CASE Project(w) \/ OpenReconciliationCase(w)
  <2>1. PICK pc \in {"reconciling", "settling"} : GoTo(w, pc)
    BY <1>4 DEF Project, OpenReconciliationCase
  <2>2. /\ worker'[w].pc = pc /\ worker'[w].fence = worker[w].fence
        /\ worker'[w].verdict = worker[w].verdict /\ worker'[w].result = worker[w].result
        /\ OnlyMoves(w)
    BY <2>1, SlotMoved
  <2>3. worker[w].pc \in AfterAnswer
    BY <1>4 DEF Project, OpenReconciliationCase, AfterAnswer
  <2>4. QuietSlot(w)
    BY <2>2, <2>3 DEF QuietSlot, Claimed, Unsent
  <2>5. QuietRows
    BY <1>4, ProjectQuiet, SameRowsAreQuiet DEF OpenReconciliationCase
  <2> QED
    BY <2>2, <2>4, <2>5, QuietGrounded
<1>5. CASE Settle(w)
  <2> DEFINE s == [Idle EXCEPT !.pc = "advancing"]
  <2>1. s.pc = "advancing" /\ s.fence = 0 /\ s.verdict = "none"
    BY DEF Idle
  <2>2. worker' = [worker EXCEPT ![w] = s]
    BY <1>5 DEF Settle
  <2> HIDE DEF s
  <2>3. QuietSlot(w) /\ OnlyMoves(w)
    BY <2>1, <2>2, HomeIsQuiet
  <2>4. worker[w].result \in Result \ {"none"}
    BY <1>0, <1>5 DEF Settle, Carries, Slot
  <2>5. UNCHANGED <<run, action, effect, cancel, applied, denied>>
    BY <1>5 DEF Settle
  <2>6. CASE SettlementMissing(w)
    <3>1. SettleStep(w, "failed", "failed_after_possible_effect")
      BY <1>5, <2>6 DEF Settle, FailStep, SettlementMissing
    <3>2. QuietRows
      BY <2>5, <3>1, SettleQuiet
    <3> QED
      BY <2>3, <3>2, QuietGrounded
  <2>7. CASE ~SettlementMissing(w) /\ worker[w].result \in {"success", "recovered"}
    <3>1. SettleStep(w, "completed", "verified")
      BY <1>5, <2>7 DEF Settle, CompleteStep
    <3>2. Happened # {}
      BY <1>0, <2>7 DEF SettlementMissing, SuccessHasGround
    <3>3. QuietRows
      BY <2>5, <3>1, <3>2, SettleQuiet
    <3> QED
      BY <2>3, <3>3, QuietGrounded
  <2>8. CASE worker[w].result \notin {"success", "recovered"}
    <3>1. SettleStep(w, "failed", step.exec)
      BY <1>5, <2>4, <2>8 DEF Settle, FailStep, SettlementMissing, Result
    <3>2. QuietRows
      BY <2>5, <3>1, SettleQuiet
    <3> QED
      BY <2>3, <3>2, QuietGrounded
  <2> QED
    BY <2>6, <2>7, <2>8
<1>6. CASE HandlerThrows(w)
  <2>1. SettleStep(w, "failed", step.exec)
    BY <1>6 DEF HandlerThrows, FailStep
  <2>2. QuietRows
    BY <1>6, <2>1, SettleQuiet DEF HandlerThrows
  <2> QED
    BY <1>6, <2>2, ReturnIsQuiet, QuietGrounded DEF HandlerThrows
<1> QED
  BY <1>1, <1>2, <1>3, <1>4, <1>5, <1>6 DEF Execute

(* Advancing the workflow, heartbeats and crashes: a run is finished as     *)
(* completed by a worker that saw the completed step.                       *)
LEMMA AdvanceGrounded ==
    ASSUME TypeOK, Grounded, NEW w \in Workers,
           Advance(w) \/ HeartbeatStepClaim(w) \/ Crash(w)
    PROVE  Grounded'
<1>0. /\ worker[w] \in Slot /\ worker \in [Workers -> Slot] /\ step \in Step
      /\ SignsAreTrue /\ RunFollowsStep
  BY DEF TypeOK, Grounded
<1>1. CASE AdvanceRead(w)
  <2> DEFINE s == CASE step.status = "pending" -> [worker[w] EXCEPT !.pc = "enqueueing"]
                    [] step.status \in {"completed", "failed"} ->
                         [worker[w] EXCEPT !.pc = "finishing", !.final = step.status]
                    [] OTHER -> Idle
  <2>1. worker' = [worker EXCEPT ![w] = s] /\ UNCHANGED <<rows, cancel, applied, denied>>
    BY <1>1 DEF AdvanceRead
  <2>2. /\ s.pc \in {"enqueueing", "finishing", "idle"}
        /\ s.pc = "finishing" /\ s.final = "completed" => step.status = "completed"
        /\ s.fence \in {0, worker[w].fence} /\ s.verdict \in {"none", worker[w].verdict}
    <3>1. CASE step.status = "pending"
      <4>1. s = [worker[w] EXCEPT !.pc = "enqueueing"]
        BY <3>1
      <4> HIDE DEF s
      <4> QED
        BY <1>0, <4>1 DEF Slot
    <3>2. CASE step.status \in {"completed", "failed"}
      <4>1. s = [worker[w] EXCEPT !.pc = "finishing", !.final = step.status]
        BY <3>2
      <4> HIDE DEF s
      <4> QED
        BY <1>0, <3>2, <4>1 DEF Slot
    <3>3. CASE step.status \notin {"pending", "completed", "failed"}
      <4>1. s = Idle
        BY <3>3
      <4> HIDE DEF s
      <4> QED
        BY <4>1 DEF Idle
    <3> QED
      BY <3>1, <3>2, <3>3
  <2> HIDE DEF s
  <2>3. worker'[w] = s /\ OnlyMoves(w)
    BY <2>1, SlotAssigned
  <2>4. QuietRows
    BY <2>1, SameRowsAreQuiet DEF rows
  <2>5. step' = step
    BY <2>1 DEF rows
  <2>6. QuietSlot(w)
    BY <2>2, <2>3, <2>5 DEF QuietSlot, Claimed, Unsent, AfterAnswer
  <2> QED
    BY <2>3, <2>4, <2>6, QuietGrounded
<1>2. CASE EnqueueStep(w)
  <2>1. QuietRows
    BY <1>0, <1>2 DEF EnqueueStep, QuietRows, RunFollowsStep, SignsAreTrue, Step
  <2> QED
    BY <1>2, <2>1, ReturnIsQuiet, QuietGrounded DEF EnqueueStep
<1>3. CASE FinishRun(w)
  <2>1. QuietRows
    BY <1>0, <1>3 DEF FinishRun, QuietRows, RunFollowsStep, SignsAreTrue
  <2>2. QuietSlot(w) /\ OnlyMoves(w)
    BY <1>3, ReturnIsQuiet, MoveIsQuiet DEF FinishRun, Claimed, AfterAnswer
  <2> QED
    BY <2>1, <2>2, QuietGrounded
<1>4. CASE FinishCommand(w) \/ Crash(w)
  <2>1. QuietRows
    BY <1>4, SameRowsAreQuiet DEF FinishCommand, Crash, rows
  <2>2. Return(w)
    BY <1>4 DEF FinishCommand, Crash
  <2> QED
    BY <2>1, <2>2, ReturnIsQuiet, QuietGrounded
<1>5. CASE HeartbeatStepClaim(w)
  <2>1. QuietRows /\ worker' = worker
    BY <1>5, SameRowsAreQuiet DEF HeartbeatStepClaim
  <2> QED
    BY <2>1, QuietRowsGrounded
<1> QED
  BY <1>1, <1>2, <1>3, <1>4, <1>5 DEF Advance

(* Grounded holds at the start, and with the invariants above every step    *)
(* keeps it.                                                                *)
THEOREM SignsAreGrounded == Spec => []Grounded
<1>1. Init => Grounded
  <2> SUFFICES ASSUME Init PROVE Grounded
    OBVIOUS
  <2>1. \A w \in Workers : /\ worker[w].pc = "idle" /\ worker[w].fence = 0
                          /\ worker[w].verdict = "none"
    BY DEF Init, Idle
  <2>2. /\ step.status = "pending" /\ step.exec = "authorized" /\ step.fence = 0
        /\ run = "running" /\ ~cancel.on /\ applied = {} /\ denied = {}
        /\ effect = "authorized" /\ action = "executing"
    BY DEF Init, NotCancelling
  <2>3. ~Underway
    BY <2>1, <2>2 DEF Underway, InFlight
  <2> QED
    BY <2>1, <2>2, <2>3 DEF Grounded, SuccessHasGround, RunFollowsStep, FencesAreOwn,
                            FailuresAreOld, DenialsAreOld, SignsAreTrue, Claimed, AfterAnswer,
                            InFlight, Happened
<1>2. TypeOK /\ EffectGuarded /\ Grounded /\ [Next]_vars => Grounded'
  <2> SUFFICES ASSUME TypeOK, EffectGuarded, Grounded, [Next]_vars PROVE Grounded'
    OBVIOUS
  <2>1. ASSUME NEW w \in Workers, Deliver(w) \/ Recover(w)
        PROVE  Grounded'
    BY <2>1, DeliverRecoverGrounded
  <2>2. ASSUME NEW w \in Workers, Prepare(w)
        PROVE  Grounded'
    BY <2>2, PrepareGrounded
  <2>3. ASSUME NEW w \in Workers, Execute(w) \/ HandlerThrows(w)
        PROVE  Grounded'
    BY <2>3, ExecuteGrounded
  <2>4. ASSUME NEW w \in Workers, Advance(w) \/ HeartbeatStepClaim(w) \/ Crash(w)
        PROVE  Grounded'
    BY <2>4, AdvanceGrounded
  <2>5. CASE Operate \/ ExpireLease
    BY <2>5, OperateGrounded
  <2>6. CASE UNCHANGED vars
    BY <2>6, SameRowsAreQuiet, QuietRowsGrounded DEF vars
  <2> QED
    BY <2>1, <2>2, <2>3, <2>4, <2>5, <2>6 DEF Next
<1> QED
  BY <1>1, <1>2, Inductive, PTL DEF Spec

(* Whoever writes them and however late, the effect row, the action and the *)
(* step record success only for an effect that was applied, and the run     *)
(* only for a completed step.                                               *)
THEOREM SuccessesAreEarned == Spec => []SuccessIsEarned
<1>1. Grounded => SuccessIsEarned
  BY DEF Grounded, SuccessHasGround, RunFollowsStep, SuccessIsEarned
<1> QED
  BY <1>1, SignsAreGrounded, PTL

(* However many workers, redeliveries, expired leases, redrives and         *)
(* operator retries there are, an authorized effect is applied again only   *)
(* after calls that were told a failure: the operation row is enough of a   *)
(* guard against all else, without any fence.                               *)
THEOREM EffectOnce == Spec => []EffectAppliedOnce
<1>1. TypeOK /\ EffectGuarded /\ Grounded => EffectAppliedOnce
  <2> SUFFICES ASSUME TypeOK, EffectGuarded, Grounded,
                      NEW f \in Happened, NEW g \in Happened, f < g, f \notin denied
               PROVE  FALSE
    BY DEF EffectAppliedOnce
  <2>1. f \in applied /\ f \in Nat /\ g \in Nat
    BY ConstantsAssumption DEF Happened, TypeOK
  <2>2. CASE g \in applied
    BY <2>1, <2>2 DEF EffectGuarded, OneStands
  <2>3. CASE g \in denied
    <3>1. g < f
      BY <2>1, <2>3 DEF Grounded, DenialsAreOld
    <3> QED
      BY <2>1, <3>1
  <2> QED
    BY <2>2, <2>3 DEF Happened
<1> QED
  BY <1>1, Inductive, SignsAreGrounded, PTL

(* An operator is offered a retry only while nothing was applied but by     *)
(* calls that were told a failure, although retryRun looks at rows that     *)
(* late workers write.                                                      *)
THEOREM RetriesAreUnapplied == Spec => []RetryableIsUnapplied
<1>1. Grounded => RetryableIsUnapplied
  BY DEF Grounded, SignsAreTrue, Underway, Retryable, RetryableIsUnapplied, Happened
<1> QED
  BY <1>1, SignsAreGrounded, PTL

(* No worker is between the operation row and its answer when a retry is    *)
(* offered, however late it is: the retry has the plugin to itself.         *)
NobodyInsideAtRetry == Retryable => \A w \in Workers : ~InFlight(w)

THEOREM RetriesAreAlone == Spec => []NobodyInsideAtRetry
<1>1. Grounded => NobodyInsideAtRetry
  BY DEF Grounded, SignsAreTrue, Underway, Retryable, NobodyInsideAtRetry
<1> QED
  BY <1>1, SignsAreGrounded, PTL

(* A verified effect stays verified: the only step that takes it back is    *)
(* beginEffectCommit's own doubt about an earlier attempt.                  *)
Unverifies == \E w \in Workers : worker[w].pc \in {"doubtful", "reclaiming"}
                                /\ worker'[w].result = "uncommitted"

THEOREM VerificationIsKept == Spec => VerifiedIsKept
<1>1. TypeOK /\ [Next]_vars => [effect = "verified" /\ effect' # "verified" => Unverifies]_vars
  <2> SUFFICES ASSUME TypeOK, [Next]_vars, effect = "verified", effect' # "verified"
               PROVE  Unverifies
    OBVIOUS
  <2>1. ASSUME NEW w \in Workers, Deliver(w) \/ Recover(w) PROVE FALSE
    BY <2>1 DEF Deliver, StartStepJob, StartObservation, Recover, RecoverRead, RecoverInspect,
                RecoverRearm, RecoverPark, RecoverOpenCase, RecoverDoubt, rows
  <2>2. ASSUME NEW w \in Workers, Prepare(w) PROVE Unverifies
    <3>1. DoubtOperation(w)
      BY <2>2 DEF Prepare, CheckEligibility, RecordIneligibility, ClaimStep, Admit,
                  BeginEffectCommit, FindOperation, ReclaimOperation, StartOperation,
                  RefuseEffectCommit, BlockBeforeEffect, rows
    <3> DEFINE s == [worker[w] EXCEPT !.pc = "reconciling", !.result = "uncommitted",
                                      !.sawExecuting = FALSE]
    <3>2. worker[w] \in Slot /\ worker \in [Workers -> Slot]
      BY DEF TypeOK
    <3>3. s.result = "uncommitted"
      BY <3>2 DEF Slot
    <3>4. worker' = [worker EXCEPT ![w] = s]
      BY <3>1, <3>2 DEF DoubtOperation
    <3> HIDE DEF s
    <3>5. worker'[w].result = "uncommitted"
      BY <3>3, <3>4, SlotAssigned
    <3> QED
      BY <3>1, <3>5 DEF DoubtOperation, Unverifies
  <2>3. ASSUME NEW w \in Workers, Execute(w) \/ HandlerThrows(w) PROVE FALSE
    <3>1. CASE RecordBusinessEffectOutcome(w)
      BY <3>1 DEF RecordBusinessEffectOutcome, Verdicts
    <3> QED
      BY <2>3, <3>1 DEF Execute, VerifyDispatch, Dispatch, RecordSemanticOperation, Project,
                        OpenReconciliationCase, Settle, HandlerThrows, rows
  <2>4. ASSUME NEW w \in Workers, Advance(w) \/ HeartbeatStepClaim(w) \/ Crash(w) PROVE FALSE
    BY <2>4 DEF Advance, AdvanceRead, EnqueueStep, FinishRun, FinishCommand, HeartbeatStepClaim,
                Crash, rows
  <2>5. CASE Operate \/ ExpireLease
    BY <2>5 DEF Operate, ExpireLease, Pause, Resume, Escalate, CancelRead, CancelWrite, RetryRun,
                ResolveReconciliationCase, rows
  <2>6. CASE UNCHANGED vars
    BY <2>6 DEF vars
  <2> QED
    BY <2>1, <2>2, <2>3, <2>4, <2>5, <2>6 DEF Next
<1> QED
  BY <1>1, TypeCorrect, PTL DEF Spec, VerifiedIsKept, Unverifies

-----------------------------------------------------------------------------
(* The refinement.                                                          *)

(* What the invariants say of the rows makes every judgement a true one, so *)
(* that a step which leaves the plugin alone is a judgement of              *)
(* OutsideEffect.                                                           *)
LEMMA JudgementsAreTrue ==
    ASSUME EffectGuarded', Grounded', Calling' = Calling, UNCHANGED <<applied, denied>>
    PROVE  Promise!Next
<1>1. (effect = "verified" \/ action = "completed" \/ step.status = "completed")' => Happened # {}
  BY DEF Grounded, SuccessHasGround, Happened
<1>2. Calling' # {} => \E w \in Workers : InFlight(w)'
  BY DEF Calling, InFlight
<1>3. (op \in {"none", "failed"})' => Calling \union applied = {}
  BY <1>2 DEF EffectGuarded, OneInFlight, AppliedIsRecorded
<1>4. Retryable' => Calling \union applied = {}
  BY <1>2 DEF Grounded, SignsAreTrue, Underway, Retryable
<1>5. /\ (effect = "verified" \/ action = "completed" \/ step.status = "completed")' \in BOOLEAN
      /\ (op \in {"none", "failed"} \/ Retryable)' \in BOOLEAN
  BY DEF Retryable
<1>6. Promise!Judge
  BY <1>1, <1>3, <1>4, <1>5 DEF Promise!Judge, Happened
<1> QED
  BY <1>6 DEF Promise!Next

(* A step of a worker outside the plugin.                                   *)
StaysOut(w) ==
    /\ worker[w].pc # "dispatching" /\ worker'[w].pc # "dispatching"
    /\ OnlyMoves(w) /\ UNCHANGED <<applied, denied>>

LEMMA StayingOutCallsNobody ==
    ASSUME NEW w \in Workers, StaysOut(w)
    PROVE  Calling' = Calling /\ UNCHANGED <<applied, denied>>
  BY DEF StaysOut, OnlyMoves, Calling

(* A worker that starts over, gives up or moves on.                         *)
LEMMA HomeStaysOut ==
    ASSUME TypeOK, NEW w \in Workers, Return(w) \/ Recovered(w)
    PROVE  worker'[w].pc # "dispatching" /\ OnlyMoves(w)
<1>1. QuietSlot(w) /\ OnlyMoves(w)
  BY ReturnIsQuiet
<1>2. Idle.pc = "idle" /\ [Idle EXCEPT !.pc = "eligible", !.gen = worker[w].gen].pc = "eligible"
  BY DEF Idle
<1>3. worker'[w].pc \in {"idle", "eligible"}
  BY <1>2, SlotAssigned DEF Return, Recovered
<1> QED
  BY <1>1, <1>3

(* Deliveries, recovery and what leads to the commit point stay out.        *)
LEMMA DeliverRecoverStaysOut ==
    ASSUME TypeOK, NEW w \in Workers, Deliver(w) \/ Recover(w)
    PROVE  StaysOut(w)
<1>1. CASE \E g \in Gens : StartStepJob(w, g)
  <2>1. PICK g \in Gens : StartStepJob(w, g)
    BY <1>1
  <2>2. [Idle EXCEPT !.pc = "recovering", !.gen = g].pc = "recovering"
    BY DEF Idle
  <2> QED
    BY <2>1, <2>2, SlotAssigned DEF StartStepJob, StaysOut
<1>2. CASE StartObservation(w)
  <2> DEFINE r == IF op = "succeeded" THEN "success" ELSE "recovered"
             s == [Idle EXCEPT !.pc = "observing", !.kind = "observation", !.gen = step.gen,
                               !.result = r]
  <2>1. worker' = [worker EXCEPT ![w] = s]
    BY <1>2 DEF StartObservation
  <2> HIDE DEF r
  <2>2. s.pc = "observing"
    BY IdleIsSlot DEF Idle, Slot
  <2> HIDE DEF s
  <2> QED
    BY <1>2, <2>1, <2>2, SlotAssigned DEF StartObservation, StaysOut
<1>3. CASE RecoverRead(w)
  <2> DEFINE s == IF StepIsStale THEN [worker[w] EXCEPT !.pc = "inspecting", !.seen = step.fence]
                  ELSE [worker[w] EXCEPT !.pc = "eligible"]
  <2>1. s.pc \in {"inspecting", "eligible"}
    BY DEF TypeOK, Slot
  <2>2. worker' = [worker EXCEPT ![w] = s]
    BY <1>3 DEF RecoverRead
  <2> HIDE DEF s
  <2> QED
    BY <1>3, <2>1, <2>2, SlotAssigned DEF RecoverRead, StaysOut
<1>4. CASE RecoverInspect(w) \/ RecoverOpenCase(w)
  <2>1. PICK pc \in {"rearming", "parking", "doubting", "doubted"} : GoTo(w, pc)
    BY <1>4 DEF RecoverInspect, RecoverOpenCase
  <2> QED
    BY <1>4, <2>1, SlotMoved DEF RecoverInspect, RecoverOpenCase, StaysOut
<1>5. CASE RecoverRearm(w) \/ RecoverPark(w) \/ RecoverDoubt(w)
  BY <1>5, HomeStaysOut DEF RecoverRearm, RecoverPark, RecoverDoubt, StaysOut
<1> QED
  BY <1>1, <1>2, <1>3, <1>4, <1>5 DEF Deliver, Recover

LEMMA PrepareStaysOut ==
    ASSUME TypeOK, NEW w \in Workers, Prepare(w)
    PROVE  StaysOut(w)
<1>0. worker[w] \in Slot /\ worker \in [Workers -> Slot]
  BY DEF TypeOK
<1>1. CASE CheckEligibility(w) \/ Admit(w)
  <2>1. Return(w) \/ \E pc \in {"claiming", "ineligible", "committing", "blocking"} : GoTo(w, pc)
    BY <1>1 DEF CheckEligibility, Admit
  <2> QED
    BY <1>1, <2>1, SlotMoved, HomeStaysOut DEF CheckEligibility, Admit, StaysOut
<1>2. CASE RecordIneligibility(w)
  BY <1>2, HomeStaysOut DEF RecordIneligibility, StaysOut
<1>3. CASE ClaimStep(w)
  <2> DEFINE s == [Idle EXCEPT !.pc = "admitting", !.gen = worker[w].gen, !.fence = step.fence + 1]
  <2>1. s.pc = "admitting"
    BY DEF Idle
  <2>2. Return(w) \/ worker' = [worker EXCEPT ![w] = s]
    BY <1>3 DEF ClaimStep
  <2> HIDE DEF s
  <2> QED
    BY <1>3, <2>1, <2>2, SlotAssigned, HomeStaysOut DEF ClaimStep, StaysOut
<1>4. CASE BeginEffectCommit(w)
  <2> DEFINE s == [worker[w] EXCEPT !.pc = "opening", !.sawExecuting = (effect = "executing")]
  <2>1. worker' = [worker EXCEPT ![w] = s]
    BY <1>0, <1>4 DEF BeginEffectCommit
  <2>2. s.pc = "opening"
    BY <1>0 DEF Slot
  <2> HIDE DEF s
  <2> QED
    BY <1>4, <2>1, <2>2, SlotAssigned DEF BeginEffectCommit, StaysOut
<1>5. CASE StartOperation(w) /\ worker[w].pc \in {"opening", "reclaiming"}
  <2> DEFINE s == [worker[w] EXCEPT !.pc = "executing", !.sawExecuting = FALSE]
  <2>1. worker' = [worker EXCEPT ![w] = s]
    BY <1>0, <1>5 DEF StartOperation
  <2>2. s.pc = "executing"
    BY <1>0 DEF Slot
  <2> HIDE DEF s
  <2> QED
    BY <1>5, <2>1, <2>2, SlotAssigned DEF StartOperation, StaysOut
<1>6. CASE FindOperation(w) /\ op # "none"
  <2>1. op \in {"running", "succeeded", "failed", "unknown"}
    BY <1>6 DEF TypeOK, OpStatus
  <2> DEFINE pc == CASE op = "failed" -> "reclaiming"
                     [] op = "succeeded" -> "observing"
                     [] op \in {"running", "unknown"} -> "doubtful"
  <2>2. pc # "dispatching"
    BY <2>1
  <2>3. /\ worker[w].pc = "opening" /\ UNCHANGED <<applied, denied>>
        /\ worker' = [worker EXCEPT ![w].pc = pc,
                                    ![w].result = IF op = "succeeded" THEN "success" ELSE "none",
                                    ![w].sawExecuting = @ /\ op = "failed"]
    BY <1>6 DEF FindOperation, StartOperation
  <2> HIDE DEF pc
  <2> DEFINE s == [worker[w] EXCEPT !.pc = pc,
                                    !.result = IF op = "succeeded" THEN "success" ELSE "none",
                                    !.sawExecuting = @ /\ op = "failed"]
  <2>4. worker' = [worker EXCEPT ![w] = s]
    BY <1>0, <2>3
  <2>5. s.pc = pc
    BY <1>0 DEF Slot
  <2> HIDE DEF s
  <2> QED
    BY <2>2, <2>3, <2>4, <2>5, SlotAssigned DEF StaysOut
<1>7. CASE DoubtOperation(w)
  <2> DEFINE s == [worker[w] EXCEPT !.pc = "reconciling", !.result = "uncommitted", !.sawExecuting = FALSE]
  <2>1. worker' = [worker EXCEPT ![w] = s]
    BY <1>0, <1>7 DEF DoubtOperation
  <2>2. s.pc = "reconciling"
    BY <1>0 DEF Slot
  <2> HIDE DEF s
  <2> QED
    BY <1>7, <2>1, <2>2, SlotAssigned DEF DoubtOperation, StaysOut
<1>8. CASE RefuseEffectCommit(w)
  <2> DEFINE s == [worker[w] EXCEPT !.pc = "blocking", !.sawExecuting = FALSE]
  <2>1. Return(w) \/ worker' = [worker EXCEPT ![w] = s]
    BY <1>0, <1>8 DEF RefuseEffectCommit
  <2>2. s.pc = "blocking"
    BY <1>0 DEF Slot
  <2> HIDE DEF s
  <2> QED
    BY <1>8, <2>1, <2>2, SlotAssigned, HomeStaysOut DEF RefuseEffectCommit, StaysOut
<1>9. CASE BlockBeforeEffect(w)
  <2> DEFINE s == [worker[w] EXCEPT !.pc = "settling", !.result = "blocked"]
  <2>1. worker' = [worker EXCEPT ![w] = s]
    BY <1>0, <1>9 DEF BlockBeforeEffect
  <2>2. s.pc = "settling"
    BY <1>0 DEF Slot
  <2> HIDE DEF s
  <2> QED
    BY <1>9, <2>1, <2>2, SlotAssigned DEF BlockBeforeEffect, StaysOut
<1> QED
  BY <1>1, <1>2, <1>3, <1>4, <1>5, <1>6, <1>7, <1>8, <1>9
     DEF Prepare, FindOperation, ReclaimOperation

(* So does what follows the answer.                                         *)
LEMMA AfterwardsStaysOut ==
    ASSUME TypeOK, NEW w \in Workers,
           \/ RecordSemanticOperation(w) \/ RecordBusinessEffectOutcome(w) \/ Project(w)
           \/ OpenReconciliationCase(w) \/ Settle(w) \/ HandlerThrows(w) \/ Advance(w)
    PROVE  StaysOut(w)
<1>0. worker[w] \in Slot /\ worker \in [Workers -> Slot]
  BY DEF TypeOK
<1>1. CASE RecordSemanticOperation(w)
  BY <1>1, SlotMoved DEF RecordSemanticOperation, StaysOut
<1>2. CASE RecordBusinessEffectOutcome(w)
  <2>1. PICK v \in Verdicts(w) : worker' = [worker EXCEPT ![w].pc = "projecting", ![w].verdict = v]
    BY <1>2 DEF RecordBusinessEffectOutcome
  <2> DEFINE s == [worker[w] EXCEPT !.pc = "projecting", !.verdict = v]
  <2>2. worker' = [worker EXCEPT ![w] = s]
    BY <1>0, <2>1
  <2>3. s.pc = "projecting"
    BY <1>0 DEF Slot
  <2> HIDE DEF s
  <2> QED
    BY <1>2, <2>2, <2>3, SlotAssigned DEF RecordBusinessEffectOutcome, StaysOut
<1>3. CASE Project(w) \/ OpenReconciliationCase(w)
  <2>1. PICK pc \in {"reconciling", "settling"} : GoTo(w, pc)
    BY <1>3 DEF Project, OpenReconciliationCase
  <2> QED
    BY <1>3, <2>1, SlotMoved DEF Project, OpenReconciliationCase, StaysOut
<1>4. CASE Settle(w)
  <2>1. [Idle EXCEPT !.pc = "advancing"].pc = "advancing"
    BY DEF Idle
  <2> QED
    BY <1>4, <2>1, SlotAssigned DEF Settle, StaysOut
<1>5. CASE HandlerThrows(w)
  BY <1>5, HomeStaysOut DEF HandlerThrows, StaysOut
<1>6. CASE AdvanceRead(w)
  <2> DEFINE s == CASE step.status = "pending" -> [worker[w] EXCEPT !.pc = "enqueueing"]
                    [] step.status \in {"completed", "failed"} ->
                         [worker[w] EXCEPT !.pc = "finishing", !.final = step.status]
                    [] OTHER -> Idle
  <2>1. s.pc \in {"enqueueing", "finishing", "idle"}
    <3>1. [worker[w] EXCEPT !.pc = "enqueueing"].pc = "enqueueing"
      BY <1>0 DEF Slot
    <3>2. [worker[w] EXCEPT !.pc = "finishing", !.final = step.status].pc = "finishing"
      BY <1>0 DEF Slot
    <3>3. Idle.pc = "idle"
      BY DEF Idle
    <3>4. \/ s = [worker[w] EXCEPT !.pc = "enqueueing"]
          \/ s = [worker[w] EXCEPT !.pc = "finishing", !.final = step.status]
          \/ s = Idle
      OBVIOUS
    <3> HIDE DEF s
    <3> QED
      BY <3>1, <3>2, <3>3, <3>4
  <2>2. worker' = [worker EXCEPT ![w] = s]
    BY <1>6 DEF AdvanceRead
  <2> HIDE DEF s
  <2> QED
    BY <1>6, <2>1, <2>2, SlotAssigned DEF AdvanceRead, StaysOut
<1>7. CASE EnqueueStep(w) \/ FinishCommand(w)
  BY <1>7, HomeStaysOut DEF EnqueueStep, FinishCommand, StaysOut
<1>8. CASE FinishRun(w)
  BY <1>8, HomeStaysOut, SlotMoved DEF FinishRun, StaysOut
<1> QED
  BY <1>1, <1>2, <1>3, <1>4, <1>5, <1>6, <1>7, <1>8 DEF Advance

(* Entering the plugin is sending: the operation row admits one worker, so  *)
(* that nobody else is inside and nothing was applied.                      *)
LEMMA EntrySends ==
    ASSUME TypeOK, EffectGuarded, Grounded, NEW w \in Workers,
           worker[w].pc = "executing", GoTo(w, "dispatching"), UNCHANGED <<rows, applied, denied>>
    PROVE  Promise!Next
<1> DEFINE r == worker[w].fence
<1>1. /\ worker'[w].pc = "dispatching" /\ worker'[w].fence = r
      /\ \A v \in Workers : v # w => worker'[v] = worker[v]
  BY SlotMoved DEF OnlyMoves
<1>2. InFlight(w) /\ \A v \in Workers : v # w => ~InFlight(v)
  BY DEF EffectGuarded, OneInFlight, InFlight
<1>3. Calling = {} /\ applied = {}
  BY <1>2 DEF Calling, InFlight, EffectGuarded, NothingYet
<1>4. Calling' = {r}
  BY <1>1, <1>2 DEF Calling, InFlight
<1>5. r \in Fences
  BY <1>2, ConstantsAssumption DEF Grounded, FencesAreOwn, TypeOK, Slot, Fences
<1>6. op \in {"running", "unknown"} /\ ~Retryable
  BY <1>2 DEF EffectGuarded, OneInFlight, Grounded, SignsAreTrue, Underway, Retryable
<1>7. effect = "verified" \/ action = "completed" \/ step.status = "completed"
         => denied # {}
  BY <1>3 DEF Grounded, SuccessHasGround, Happened
<1>8. UNCHANGED <<step, run, action, effect, op, applied, denied>>
  BY DEF rows
<1>9. Promise!Send(r)
  BY <1>3, <1>4, <1>6, <1>7, <1>8 DEF Promise!Send, Retryable
<1> QED
  BY <1>5, <1>9 DEF Promise!Next

(* A worker that leaves the plugin, whether it was answered or died, leaves *)
(* it empty.                                                                *)
LEMMA LeavingEmpties ==
    ASSUME TypeOK, EffectGuarded, Grounded, NEW w \in Workers, worker[w].pc = "dispatching",
           worker'[w].pc # "dispatching", OnlyMoves(w)
    PROVE  worker[w].fence \in Fences /\ Calling = {worker[w].fence} /\ Calling' = {}
<1>1. InFlight(w) /\ \A v \in Workers : v # w => ~InFlight(v)
  BY DEF EffectGuarded, OneInFlight, InFlight
<1>2. worker[w].fence \in Fences
  BY <1>1, ConstantsAssumption DEF Grounded, FencesAreOwn, TypeOK, Slot, Fences
<1>3. Calling = {worker[w].fence}
  BY <1>1 DEF Calling, InFlight
<1>4. Calling' = {}
  BY <1>1 DEF Calling, InFlight, OnlyMoves
<1> QED
  BY <1>2, <1>3, <1>4

(* So the call it made took effect, told or not, or is lost.                *)
Comes(w) ==
    \/ UNCHANGED <<applied, denied>>
    \/ applied' = applied \union {worker[w].fence} /\ UNCHANGED denied
    \/ denied' = denied \union {worker[w].fence} /\ UNCHANGED applied

LEMMA LeavingEndsCall ==
    ASSUME TypeOK, EffectGuarded, Grounded, NEW w \in Workers, worker[w].pc = "dispatching",
           worker'[w].pc # "dispatching", OnlyMoves(w), UNCHANGED rows,
           Comes(w)
    PROVE  Promise!Next
<1>1. worker[w].fence \in Fences /\ Calling = {worker[w].fence} /\ Calling' = {}
  BY LeavingEmpties
<1>2. UNCHANGED <<step, run, action, effect, op>>
  BY DEF rows
<1>3. CASE UNCHANGED <<applied, denied>>
  <2>1. Promise!GetLost(worker[w].fence)
    BY <1>1, <1>2, <1>3 DEF Promise!GetLost, Retryable
  <2> QED
    BY <1>1, <2>1 DEF Promise!Next
<1>4. CASE applied' = applied \union {worker[w].fence} /\ UNCHANGED denied
  <2>1. Promise!TakeEffect(worker[w].fence)
    BY <1>1, <1>2, <1>4 DEF Promise!TakeEffect, Retryable
  <2> QED
    BY <1>1, <2>1 DEF Promise!Next
<1>5. CASE denied' = denied \union {worker[w].fence} /\ UNCHANGED applied
  <2>1. Promise!Deny(worker[w].fence)
    BY <1>1, <1>2, <1>5 DEF Promise!Deny, Retryable
  <2> QED
    BY <1>1, <2>1 DEF Promise!Next
<1> QED
  BY <1>3, <1>4, <1>5 DEF Comes

(* Every behaviour of the durable execution is one of OutsideEffect:        *)
(* deliveries, recoveries, redrives, cancellations, retries and late        *)
(* workers add nothing to what is promised of the effect                    *)
(* (steps.ts:343, durable-execution.ts).                                    *)
THEOREM EffectKeepsPromise == Spec => KeepsPromise
<1>1. Init => Promise!Init
  BY DEF Init, Promise!Init, Calling, Idle, Retryable
<1>2. TypeOK /\ EffectGuarded /\ Grounded /\ (EffectGuarded /\ Grounded)' /\ [Next]_vars
      => [Promise!Next]_(Promise!state)
  <2> SUFFICES ASSUME TypeOK, EffectGuarded, Grounded, EffectGuarded', Grounded', [Next]_vars
               PROVE  Promise!Next
    OBVIOUS
  <2>1. ASSUME NEW w \in Workers,
               Deliver(w) \/ Recover(w) \/ Prepare(w) \/ Advance(w) \/ HandlerThrows(w)
        PROVE  Promise!Next
    <3>1. StaysOut(w)
      BY <2>1, DeliverRecoverStaysOut, PrepareStaysOut, AfterwardsStaysOut
    <3> QED
      BY <3>1, StayingOutCallsNobody, JudgementsAreTrue
  <2>2. ASSUME NEW w \in Workers, Execute(w)
        PROVE  Promise!Next
    <3>1. CASE VerifyDispatch(w)
      <4>1. CASE GoTo(w, "dispatching")
        BY <3>1, <4>1, EntrySends DEF VerifyDispatch
      <4>2. CASE worker' = [worker EXCEPT ![w].pc = "returned", ![w].result = "failure"]
        <5>1. StaysOut(w)
          BY <3>1, <4>2, AnswerMoves DEF VerifyDispatch, StaysOut
        <5> QED
          BY <5>1, StayingOutCallsNobody, JudgementsAreTrue
      <4> QED
        BY <3>1, <4>1, <4>2 DEF VerifyDispatch
    <3>2. CASE Dispatch(w)
      <4>1. PICK answer : worker' = [worker EXCEPT ![w].pc = "returned", ![w].result = answer]
        BY <3>2 DEF Dispatch
      <4>2. worker'[w].pc # "dispatching" /\ OnlyMoves(w)
        BY <4>1, AnswerMoves
      <4>3. Comes(w)
        BY <3>2 DEF Dispatch, Comes
      <4> QED
        BY <3>2, <4>2, <4>3, LeavingEndsCall DEF Dispatch
    <3>3. CASE ~VerifyDispatch(w) /\ ~Dispatch(w)
      <4>1. StaysOut(w)
        BY <2>2, <3>3, AfterwardsStaysOut DEF Execute
      <4> QED
        BY <4>1, StayingOutCallsNobody, JudgementsAreTrue
    <3> QED
      BY <3>1, <3>2, <3>3
  <2>3. ASSUME NEW w \in Workers, Crash(w)
        PROVE  Promise!Next
    <3>1. worker'[w].pc # "dispatching" /\ OnlyMoves(w)
      BY <2>3, HomeStaysOut DEF Crash
    <3>2. CASE worker[w].pc = "dispatching"
      BY <2>3, <3>1, <3>2, LeavingEndsCall DEF Crash, Comes
    <3>3. CASE worker[w].pc # "dispatching"
      BY <2>3, <3>1, <3>3, StayingOutCallsNobody, JudgementsAreTrue DEF Crash, StaysOut
    <3> QED
      BY <3>2, <3>3
  <2>4. CASE worker' = worker /\ UNCHANGED <<applied, denied>>
    BY <2>4, JudgementsAreTrue DEF Calling
  <2>5. ASSUME NEW w \in Workers, HeartbeatStepClaim(w)
        PROVE  worker' = worker /\ UNCHANGED <<applied, denied>>
    BY <2>5 DEF HeartbeatStepClaim
  <2>6. CASE Operate \/ ExpireLease \/ UNCHANGED vars
    BY <2>4, <2>6 DEF Operate, Pause, Resume, Escalate, CancelRead, CancelWrite, RetryRun,
                      ResolveReconciliationCase, ExpireLease, vars
  <2> QED
    BY <2>1, <2>2, <2>3, <2>4, <2>5, <2>6 DEF Next
<1> QED
  BY <1>1, <1>2, Inductive, SignsAreGrounded, PTL DEF Spec, KeepsPromise, Promise!Spec
=============================================================================
