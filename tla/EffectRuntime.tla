--------------------------- MODULE EffectRuntime ---------------------------
(***************************************************************************)
(* The durable execution of one authorized business effect: the rows of    *)
(* one single-action run (workflow_runs, commands, workflow_steps,         *)
(* workflow_step_claims, domain_actions, business_effects,                 *)
(* integration_operations, reconciliation_cases), the workers that deliver *)
(* its run_workflow_step and observe_external_effect jobs, and the         *)
(* operator's run controls.                                                *)
(*                                                                         *)
(* Sources: packages/workflow-runtime/src (steps, run-controls,            *)
(* reconciliation), packages/orchestration/src (durable-execution,         *)
(* compiler), apps/worker/src/handlers/run-workflow-step.ts.               *)
(*                                                                         *)
(* Every transaction is one step; between two of them any other worker or  *)
(* control may run.  cancelRun and beginEffectCommit are split further:    *)
(* they decide on rows they read without locking them, and the             *)
(* transactions are READ COMMITTED.                                        *)
(*                                                                         *)
(* workflow_steps_claim_shape_v2_check makes claim_token non-null exactly  *)
(* while the step is leased, and every claim writes a new token with       *)
(* claim_fence + 1, so (token, fence, generation) of a worker matches the  *)
(* row iff the row is leased with that fence and generation.               *)
(***************************************************************************)
EXTENDS Naturals, FiniteSets

CONSTANTS
    Workers,     \* execution slots that deliver this step's jobs
    Controls,    \* the operator's verbs that are used
    Boundary,    \* the plugin's effect passes verifyConsequentialToolDispatch
    MaxClaims,   \* bound on claim_fence
    MaxGen       \* bound on dispatch_generation

ASSUME ConstantsAssumption ==
    /\ Controls \subseteq {"pause", "cancel", "retry", "escalate", "resolve"}
    /\ Boundary \in BOOLEAN
    /\ MaxClaims \in Nat \ {0}
    /\ MaxGen \in Nat

VARIABLES
    step,       \* workflow_steps: status, executionState, fence, generation, effectCommitAt
    leaseLive,  \* workflow_steps.lease_expires_at > now()
    claims,     \* workflow_step_claims.outcome by claim_fence
    run,        \* workflow_runs.status
    command,    \* commands.status
    action,     \* domain_actions.status
    effect,     \* business_effects.status
    op,         \* integration_operations.status of the effect's operation key
    caseOpen,   \* an open reconciliation_cases row for the effect exists
    sent,       \* generations whose job row exists (delivered at least once)
    worker,     \* what each slot is doing
    cancel,     \* a cancelRun transaction that holds the run row
    applied,    \* history: claims whose plugin call took effect and was not told a failure
    denied      \* history: claims whose plugin call took effect and was told a failure

rows == <<step, leaseLive, claims, run, command, action, effect, op, caseOpen, sent>>
vars == <<step, leaseLive, claims, run, command, action, effect, op, caseOpen,
          sent, worker, cancel, applied, denied>>

Happened == applied \union denied

Gens == 0..MaxGen
Fences == 1..MaxClaims

StepStatus == {"pending", "leased", "waiting_observation", "completed", "failed"}
ExecutionState ==
    {"authorized", "claimed", "commit_started", "awaiting_observation", "reconciling",
     "verified", "failed_before_effect", "failed_after_possible_effect", "blocked",
     "cancelled_before_effect", "cancellation_requested"}
Step ==
    [status : StepStatus, exec : ExecutionState, fence : 0..MaxClaims, gen : Gens,
     committed : BOOLEAN]
(* "closed" stands for the six outcomes that come with finished_at: whoever  *)
(* asks for a claim asks whether it is finished, never how.                  *)
ClaimOutcome == {"none", "claimed", "attempted", "closed"}
OpenClaim == {"claimed", "attempted"}
RunStatus == {"running", "paused", "cancelled", "failed", "completed", "escalated"}
CommandStatus == {"running", "cancelled", "failed", "completed"}
ActionStatus == {"executing", "needs_human_review", "completed", "failed", "rejected"}
EffectStatus ==
    {"authorized", "executing", "verified", "failed", "cancelled", "divergent",
     "partially_verified", "reconciliation_required"}
OpStatus == {"none", "running", "succeeded", "failed", "unknown"}

Pc == {"idle", "recovering", "inspecting", "rearming", "parking", "doubting", "doubted",
       "eligible", "ineligible", "claiming", "admitting", "committing", "opening",
       "reclaiming", "doubtful", "blocking",
       "executing", "dispatching", "returned", "observing", "projecting", "reconciling",
       "settling", "advancing", "enqueueing", "finishing", "commanding"}
Result == {"none", "success", "recovered", "failure", "unknown", "blocked", "uncommitted"}
Verdict == {"none", "verified", "missing", "failed", "uncertain"}
Slot ==
    [pc : Pc, kind : {"claim", "observation"}, gen : Gens, fence : 0..MaxClaims,
     seen : 0..MaxClaims, sawExecuting : BOOLEAN, result : Result, verdict : Verdict,
     final : {"none", "completed", "failed"}]
Idle == [pc |-> "idle", kind |-> "claim", gen |-> 0, fence |-> 0,
         seen |-> 0, sawExecuting |-> FALSE, result |-> "none", verdict |-> "none", final |-> "none"]
NotCancelling == [on |-> FALSE, crossed |-> FALSE, before |-> FALSE, after |-> FALSE]

TypeOK ==
    /\ step \in Step
    /\ leaseLive \in BOOLEAN
    /\ claims \in [Fences -> ClaimOutcome]
    /\ run \in RunStatus
    /\ command \in CommandStatus
    /\ action \in ActionStatus
    /\ effect \in EffectStatus
    /\ op \in OpStatus
    /\ caseOpen \in BOOLEAN
    /\ sent \subseteq Gens
    /\ worker \in [Workers -> Slot]
    /\ cancel \in [on : BOOLEAN, crossed : BOOLEAN, before : BOOLEAN, after : BOOLEAN]
    /\ applied \subseteq 0..MaxClaims
    /\ denied \subseteq 0..MaxClaims

(* The state submitCommand leaves behind: an approved action whose run,     *)
(* step and first job were inserted in one transaction.                     *)
Init ==
    /\ step = [status |-> "pending", exec |-> "authorized", fence |-> 0, gen |-> 0,
               committed |-> FALSE]
    /\ leaseLive = FALSE
    /\ claims = [f \in Fences |-> "none"]
    /\ run = "running"
    /\ command = "running"
    /\ action = "executing"
    /\ effect = "authorized"
    /\ op = "none"
    /\ caseOpen = FALSE
    /\ sent = {0}
    /\ worker = [w \in Workers |-> Idle]
    /\ cancel = NotCancelling
    /\ applied = {}
    /\ denied = {}

-----------------------------------------------------------------------------
(* Row conditions and row updates the transactions share.                   *)

Owns(w) ==
    /\ step.status = "leased"
    /\ step.fence = worker[w].fence
    /\ step.gen = worker[w].gen

GoTo(w, pc) == worker' = [worker EXCEPT ![w].pc = pc]
Return(w) == worker' = [worker EXCEPT ![w] = Idle]
Recovered(w) ==
    worker' = [worker EXCEPT ![w] = [Idle EXCEPT !.pc = "eligible", !.gen = worker[w].gen]]

(* Leave 'leased' or 'waiting_observation': the lease and token are cleared. *)
MoveStep(status, exec) ==
    /\ step' = [step EXCEPT !.status = status, !.exec = exec]
    /\ leaseLive' = FALSE

CloseClaim(f) ==
    claims' = IF f \in Fences /\ claims[f] \in OpenClaim
                THEN [claims EXCEPT ![f] = "closed"] ELSE claims

(* settlementFencePredicate: the claim fence, or for an observation the     *)
(* generation of a step that still waits.                                   *)
MaySettle(w) ==
    IF worker[w].kind = "claim" THEN Owns(w)
    ELSE step.status = "waiting_observation" /\ step.gen = worker[w].gen

SettleStep(w, status, exec) ==
    IF MaySettle(w)
      THEN /\ MoveStep(status, exec)
           /\ IF worker[w].kind = "claim" THEN CloseClaim(worker[w].fence)
              ELSE UNCHANGED claims
      ELSE UNCHANGED <<step, leaseLive, claims>>

CompleteStep(w) == SettleStep(w, "completed", "verified")

(* failStep(errorKind, failureExecutionState).                              *)
FailStep(w, exec) == SettleStep(w, "failed", exec)

NeedsReview(from) == action' = IF action \in from THEN "needs_human_review" ELSE action

-----------------------------------------------------------------------------
(* Deliveries, leases and crashes.                                          *)

(* The queue delivers a job at least once; a handler may run concurrently   *)
(* with an earlier delivery of the same job whose lease was lost.           *)
StartStepJob(w, g) ==
    /\ worker[w].pc = "idle"
    /\ g \in sent
    /\ worker' = [worker EXCEPT ![w] = [Idle EXCEPT !.pc = "recovering", !.gen = g]]
    /\ UNCHANGED <<rows, cancel, applied, denied>>

(* The worker dies or loses its connection for good.                        *)
Crash(w) ==
    /\ worker[w].pc # "idle"
    /\ Return(w)
    /\ UNCHANGED <<rows, cancel, applied, denied>>

ExpireLease ==
    /\ leaseLive
    /\ leaseLive' = FALSE
    /\ UNCHANGED <<step, claims, run, command, action, effect, op, caseOpen, sent,
                   worker, cancel, applied, denied>>

(* heartbeatStepClaim: fenced, but with no condition on the lease itself.   *)
HeartbeatStepClaim(w) ==
    /\ worker[w].fence # 0
    /\ worker[w].kind = "claim"
    /\ Owns(w)
    /\ ~leaseLive
    /\ leaseLive' = TRUE
    /\ UNCHANGED <<step, claims, run, command, action, effect, op, caseOpen, sent,
                   worker, cancel, applied, denied>>

-----------------------------------------------------------------------------
(* recoverStaleSteps, called at the top of every run_workflow_step handler. *)

StepIsStale == step.status = "leased" /\ ~leaseLive

(* The list of stale steps is read in a transaction of its own; the fence   *)
(* stands for the pair (fence, generation), which a leased step never alters *)
RecoverRead(w) ==
    /\ worker[w].pc = "recovering"
    /\ worker' = [worker EXCEPT ![w] =
         IF StepIsStale
           THEN [@ EXCEPT !.pc = "inspecting", !.seen = step.fence]
           ELSE [@ EXCEPT !.pc = "eligible"]]
    /\ UNCHANGED <<rows, cancel, applied, denied>>

(* ... and so is the operation row that decides what to do.                 *)
RecoverInspect(w) ==
    /\ worker[w].pc = "inspecting"
    /\ GoTo(w, IF op \in {"none", "failed"} THEN "rearming"
               ELSE IF op = "succeeded" THEN "parking" ELSE "doubting")
    /\ UNCHANGED <<rows, cancel, applied, denied>>

(* Back to the pre-claim boundary under a new generation, with a job for it *)
(* if the run is running.  effectCommitAt is kept.                          *)
RedriveTo(g) ==
    /\ step' = [step EXCEPT !.status = "pending", !.exec = "authorized", !.gen = g]
    /\ leaseLive' = FALSE
    /\ sent' = IF run = "running" THEN sent \union {g} ELSE sent

(* redriveStepTx without a control: whatever the row has become since it    *)
(* was read stale, a pending, leased or failed step is taken.               *)
RecoverRearm(w) ==
    /\ worker[w].pc = "rearming"
    /\ IF step.status \in {"pending", "leased", "failed"}
         THEN /\ step.gen < MaxGen
              /\ RedriveTo(step.gen + 1)
              /\ IF step.status = "leased" THEN CloseClaim(step.fence)
                 ELSE UNCHANGED claims
         ELSE UNCHANGED <<step, leaseLive, sent, claims>>
    /\ Recovered(w)
    /\ UNCHANGED <<run, command, action, effect, op, caseOpen, cancel, applied, denied>>

StillStale(w) == StepIsStale /\ step.fence = worker[w].seen

RecoverPark(w) ==
    /\ worker[w].pc = "parking"
    /\ IF StillStale(w)
         THEN /\ MoveStep("waiting_observation", "awaiting_observation")
              /\ CloseClaim(worker[w].seen)
         ELSE UNCHANGED <<step, leaseLive, claims>>
    /\ Recovered(w)
    /\ UNCHANGED <<run, command, action, effect, op, caseOpen, sent, cancel, applied, denied>>

RecoverOpenCase(w) ==
    /\ worker[w].pc = "doubting"
    /\ caseOpen' = TRUE
    /\ GoTo(w, "doubted")
    /\ UNCHANGED <<step, leaseLive, claims, run, command, action, effect, op, sent,
                   cancel, applied, denied>>

(* Fault: a crashed attempt is presumed to have delivered nothing.          *)
RecoverPresumingFailure(w) ==
    /\ worker[w].pc = "doubted"
    /\ op' = IF op = "running" THEN "failed" ELSE op
    /\ Recovered(w)
    /\ UNCHANGED <<step, leaseLive, claims, run, command, action, effect, caseOpen, sent,
                   cancel, applied, denied>>

(* One transaction, but only its step update asks whether the step is still *)
(* the stale one; a running operation is marked unknown all the same.       *)
RecoverDoubt(w) ==
    /\ worker[w].pc = "doubted"
    /\ op' = IF op = "running" THEN "unknown" ELSE op
    /\ IF StillStale(w) THEN MoveStep("waiting_observation", "reconciling")
       ELSE UNCHANGED <<step, leaseLive>>
    /\ CloseClaim(worker[w].seen)
    /\ effect' = IF effect = "executing" THEN "reconciliation_required" ELSE effect
    /\ NeedsReview({"executing"})
    /\ Recovered(w)
    /\ UNCHANGED <<run, command, caseOpen, sent, cancel, applied, denied>>

-----------------------------------------------------------------------------
(* The handler up to the effect commit point.                               *)

(* revalidateActionExecution denies every effect that is not in one of      *)
(* these; authority, policy and preconditions may deny any effect.          *)
EffectAdmits == effect \in {"authorized", "executing", "failed", "partially_verified", "verified"}

CheckEligibility(w) ==
    /\ worker[w].pc = "eligible"
    /\ \/ EffectAdmits /\ GoTo(w, "claiming")
       \/ GoTo(w, "ineligible")
    /\ UNCHANGED <<rows, cancel, applied, denied>>

(* recordAuthorizedEffectIneligibility, before any claim.                   *)
RecordIneligibility(w) ==
    /\ worker[w].pc = "ineligible"
    /\ IF step.status = "pending" /\ step.gen = worker[w].gen
         THEN /\ ~cancel.on
              /\ step' = [step EXCEPT !.status = "failed", !.exec = "blocked"]
              /\ run' = IF run = "running" THEN "failed" ELSE run
              /\ command' = IF command = "running" THEN "failed" ELSE command
              /\ NeedsReview({"executing"})
         ELSE UNCHANGED <<step, run, command, action>>
    /\ Return(w)
    /\ UNCHANGED <<leaseLive, claims, effect, op, caseOpen, sent, cancel, applied, denied>>

ClaimStep(w) ==
    /\ worker[w].pc = "claiming"
    /\ IF step.status = "pending" /\ step.gen = worker[w].gen /\ run = "running"
         THEN LET f == step.fence + 1 IN
              /\ f \in Fences
              /\ step' = [step EXCEPT !.status = "leased", !.exec = "claimed", !.fence = f]
              /\ leaseLive' = TRUE
              /\ claims' = [claims EXCEPT ![f] = "claimed"]
              /\ worker' = [worker EXCEPT ![w] =
                   [Idle EXCEPT !.pc = "admitting", !.gen = worker[w].gen, !.fence = f]]
         ELSE Return(w) /\ UNCHANGED <<step, leaseLive, claims>>
    /\ UNCHANGED <<run, command, action, effect, op, caseOpen, sent, cancel, applied, denied>>

(* loadExecution, then the revalidation of authority and preconditions.  A  *)
(* step without a token has no physical claim: its worker fails a step it   *)
(* does not own, which changes nothing.                                     *)
Admit(w) ==
    /\ worker[w].pc = "admitting"
    /\ \/ step.status # "leased" /\ Return(w)
       \/ step.status = "leased" /\ EffectAdmits /\ GoTo(w, "committing")
       \/ step.status = "leased" /\ GoTo(w, "blocking")
    /\ UNCHANGED <<rows, cancel, applied, denied>>

MayCommit(w) ==
    /\ Owns(w)
    /\ step.exec = "claimed"
    /\ run = "running" /\ command = "running" /\ action = "executing"

(* The rows are read together, with no lock ...                             *)
BeginEffectCommit(w) ==
    /\ worker[w].pc = "committing"
    /\ MayCommit(w)
    /\ worker' = [worker EXCEPT ![w].pc = "opening", ![w].sawExecuting = (effect = "executing")]
    /\ UNCHANGED <<rows, cancel, applied, denied>>

(* ... the operation is inserted, or taken from "failed" by a conditional   *)
(* update, and the step and claim updates repeat the fence; the effect may  *)
(* be any that was "executing" when the rows were read.                     *)
StartOperation(w) ==
    /\ op \in {"none", "failed"}
    /\ op' = "running"
    /\ effect \in {"authorized", "failed"} \/ worker[w].sawExecuting
    /\ effect' = IF effect \in {"authorized", "failed"} THEN "executing" ELSE effect
    /\ Owns(w)
    /\ step.exec = "claimed"
    /\ step' = [step EXCEPT !.exec = "commit_started", !.committed = TRUE]
    /\ claims[worker[w].fence] = "claimed"
    /\ claims' = [claims EXCEPT ![worker[w].fence] = "attempted"]
    /\ worker' = [worker EXCEPT ![w].pc = "executing", ![w].sawExecuting = FALSE]
    /\ UNCHANGED <<leaseLive, run, command, action, caseOpen, sent, cancel, applied, denied>>

(* The operation row of this effect, if there is one, decides: a failed one *)
(* is reclaimed, a succeeded one replayed, any other leaves doubt.          *)
FindOperation(w) ==
    /\ worker[w].pc = "opening"
    /\ \/ op = "none" /\ StartOperation(w)
       \/ /\ op # "none"
          /\ worker' = [worker EXCEPT
               ![w].pc = CASE op = "failed" -> "reclaiming"
                           [] op = "succeeded" -> "observing"
                           [] op \in {"running", "unknown"} -> "doubtful",
               ![w].result = IF op = "succeeded" THEN "success" ELSE "none",
               ![w].sawExecuting = @ /\ op = "failed"]
          /\ UNCHANGED <<rows, cancel, applied, denied>>

ReclaimOperation(w) ==
    /\ worker[w].pc = "reclaiming"
    /\ op = "failed"
    /\ StartOperation(w)

(* The doubt, or the lost race for a failed operation, is written down by   *)
(* updates of which only the step's is conditional.                         *)
DoubtOperation(w) ==
    /\ worker[w].pc = "doubtful" \/ (worker[w].pc = "reclaiming" /\ op # "failed")
    /\ step' = IF Owns(w) THEN [step EXCEPT !.exec = "reconciling"] ELSE step
    /\ effect' = "reconciliation_required"
    /\ action' = "needs_human_review"
    /\ worker' = [worker EXCEPT ![w].pc = "reconciling", ![w].result = "uncommitted",
                                ![w].sawExecuting = FALSE]
    /\ UNCHANGED <<leaseLive, claims, run, command, op, caseOpen, sent, cancel, applied, denied>>

(* Every guard above, and the control-boundary, generation and epistemic    *)
(* checks of the same transaction, throws; a cancelled step is left alone.  *)
RefuseEffectCommit(w) ==
    /\ worker[w].pc \in {"committing", "opening", "reclaiming", "doubtful"}
    /\ IF step.exec = "cancelled_before_effect" THEN Return(w)
       ELSE worker' = [worker EXCEPT ![w].pc = "blocking", ![w].sawExecuting = FALSE]
    /\ UNCHANGED <<rows, cancel, applied, denied>>

(* blockBeforeEffect: only the step update is fenced.                       *)
BlockBeforeEffect(w) ==
    /\ worker[w].pc = "blocking"
    /\ step' = IF Owns(w) /\ step.exec = "claimed" THEN [step EXCEPT !.exec = "blocked"] ELSE step
    /\ effect' = IF effect = "authorized" THEN "cancelled" ELSE effect
    /\ NeedsReview({"executing"})
    /\ worker' = [worker EXCEPT ![w].pc = "settling", ![w].result = "blocked"]
    /\ UNCHANGED <<leaseLive, claims, run, command, op, caseOpen, sent, cancel, applied, denied>>

-----------------------------------------------------------------------------
(* The plugin call and its result.                                          *)

DispatchAllowed(w) ==
    /\ Owns(w)
    /\ step.exec = "commit_started"
    /\ run = "running" /\ command = "running" /\ action = "executing"
    /\ leaseLive

(* verifyConsequentialToolDispatch, for the effects that go through a tool; *)
(* what it throws reaches the worker as a failure of the plugin.            *)
VerifyDispatch(w) ==
    /\ worker[w].pc = "executing"
    /\ \/ /\ ~Boundary \/ (DispatchAllowed(w) /\ EffectAdmits)
          /\ GoTo(w, "dispatching")
       \/ /\ Boundary
          /\ worker' = [worker EXCEPT ![w].pc = "returned", ![w].result = "failure"]
    /\ UNCHANGED <<rows, cancel, applied, denied>>

(* The call takes effect or not, and is answered or not, each whatever the  *)
(* other: the catch around plugin.execute turns all that is thrown, a       *)
(* timeout or a lost connection after the request left too, into "failure". *)
(* An effect that outlives its call is counted when the call ends.          *)
Dispatch(w) ==
    /\ worker[w].pc = "dispatching"
    /\ \E happened \in BOOLEAN, answer \in {"success", "failure", "unknown"} :
         /\ applied' = IF happened /\ answer # "failure"
                         THEN applied \union {worker[w].fence} ELSE applied
         /\ denied' = IF happened /\ answer = "failure"
                        THEN denied \union {worker[w].fence} ELSE denied
         /\ worker' = [worker EXCEPT ![w].pc = "returned", ![w].result = answer]
    /\ UNCHANGED <<rows, cancel>>

(* Fault: a call that went unanswered is recorded as a failed one.          *)
RecordSilenceAsFailure(w) ==
    /\ worker[w].pc = "returned"
    /\ op' = IF worker[w].result = "success" THEN "succeeded" ELSE "failed"
    /\ GoTo(w, "observing")
    /\ UNCHANGED <<step, leaseLive, claims, run, command, action, effect, caseOpen,
                   sent, cancel, applied, denied>>

(* recordSemanticOperation: by step and key only, whoever owns the step.    *)
RecordSemanticOperation(w) ==
    /\ worker[w].pc = "returned"
    /\ op' = CASE worker[w].result = "success" -> "succeeded"
               [] worker[w].result = "failure" -> "failed"
               [] worker[w].result = "unknown" -> "unknown"
    /\ GoTo(w, "observing")
    /\ UNCHANGED <<step, leaseLive, claims, run, command, action, effect, caseOpen,
                   sent, cancel, applied, denied>>

(* Faults: the answer is taken for the effect; a verified effect is judged anew. *)
VerdictsByAnswer(w) ==
    CASE worker[w].result = "unknown" -> {"uncertain"}
      [] worker[w].result = "failure" -> {"failed"}
      [] OTHER -> {"verified"}
VerdictsForgetful(w) ==
    CASE worker[w].result = "unknown" -> {"uncertain"}
      [] worker[w].result = "failure" -> {"failed"}
      [] OTHER -> IF Happened = {} THEN {"missing"} ELSE {"verified", "missing"}

(* What recordBusinessEffectOutcome finds: a verified effect stays so; a    *)
(* success must be seen in canonical state, and seeing it may fail.         *)
Verdicts(w) ==
    IF effect = "verified" THEN {"verified"}
    ELSE CASE worker[w].result = "unknown" -> {"uncertain"}
           [] worker[w].result = "failure" -> {"failed"}
           [] OTHER -> IF Happened = {} THEN {"missing"} ELSE {"verified", "missing"}

RecordBusinessEffectOutcome(w) ==
    /\ worker[w].pc = "observing"
    /\ \E v \in Verdicts(w) :
         /\ effect' = CASE v = "verified" -> "verified"
                        [] v = "missing" -> "divergent"
                        [] v = "failed" -> "failed"
                        [] v = "uncertain" -> "reconciliation_required"
         /\ caseOpen' = (caseOpen \/ v = "uncertain")
         /\ worker' = [worker EXCEPT ![w].pc = "projecting", ![w].verdict = v]
    /\ UNCHANGED <<step, leaseLive, claims, run, command, action, op, sent, cancel, applied, denied>>

SettlementMissing(w) ==
    worker[w].result \in {"success", "recovered"} /\ worker[w].verdict # "verified"

ProjectedVerdict(w) == worker[w].verdict  \* fault: the verdict is stored as it is

ProjectedExecution(w) ==
    CASE worker[w].verdict = "uncertain" -> "reconciling"
      [] worker[w].verdict = "verified" -> "verified"
      [] worker[w].verdict = "missing" -> "failed_after_possible_effect"
      [] worker[w].verdict = "failed" -> "failed_before_effect"

ProjectedAction(w) ==
    CASE SettlementMissing(w) \/ worker[w].result = "unknown" -> "needs_human_review"
      [] worker[w].result \in {"success", "recovered"} /\ ~SettlementMissing(w) -> "completed"
      [] worker[w].result = "failure" -> "failed"

(* The step update is fenced, the action update is not; an observation      *)
(* projects on the action alone and resolves the case it could answer.      *)
Project(w) ==
    /\ worker[w].pc = "projecting"
    /\ IF worker[w].kind = "claim"
         THEN /\ step' = IF Owns(w) THEN [step EXCEPT !.exec = ProjectedExecution(w)] ELSE step
              /\ action' = IF action = "executing" THEN ProjectedAction(w) ELSE action
              /\ UNCHANGED caseOpen
         ELSE /\ action' = IF action \in {"executing", "needs_human_review"}
                             THEN ProjectedAction(w) ELSE action
              /\ caseOpen' = (caseOpen /\ ~(/\ worker[w].result = "recovered"
                                            /\ worker[w].verdict = "verified"))
              /\ UNCHANGED step
    /\ GoTo(w, IF SettlementMissing(w) THEN "reconciling" ELSE "settling")
    /\ UNCHANGED <<leaseLive, claims, run, command, effect, op, sent, cancel, applied, denied>>

OpenReconciliationCase(w) ==
    /\ worker[w].pc = "reconciling"
    /\ caseOpen' = TRUE
    /\ GoTo(w, "settling")
    /\ UNCHANGED <<step, leaseLive, claims, run, command, action, effect, op, sent,
                   cancel, applied, denied>>

Settle(w) ==
    /\ worker[w].pc = "settling"
    /\ CASE SettlementMissing(w) ->
              FailStep(w, "failed_after_possible_effect")
         [] worker[w].result \in {"success", "recovered"} /\ ~SettlementMissing(w) ->
              CompleteStep(w)
         [] worker[w].result \in {"unknown", "uncommitted", "failure", "blocked"} ->
              FailStep(w, step.exec)
    /\ worker' = [worker EXCEPT ![w] = [Idle EXCEPT !.pc = "advancing"]]
    /\ UNCHANGED <<run, command, action, effect, op, caseOpen, sent, cancel, applied, denied>>

(* An error thrown in the handler's own transactions is caught by           *)
(* runWorkflowStep, which fails the step as terminal and returns normally;  *)
(* once the step is settled that changes nothing, as a crash would.         *)
HandlerThrows(w) ==
    /\ worker[w].kind = "claim"
    /\ worker[w].pc \in {"blocking", "returned", "observing", "projecting", "reconciling",
                         "settling"}
    /\ FailStep(w, step.exec)
    /\ Return(w)
    /\ UNCHANGED <<run, command, action, effect, op, caseOpen, sent, cancel, applied, denied>>

(* observeRecoveredAuthorizedAttempt: the observe_external_effect job of a  *)
(* parked step.  An unknown attempt is observable only by its effect.       *)
StartObservation(w) ==
    /\ worker[w].pc = "idle"
    /\ step.status = "waiting_observation"
    /\ op = "succeeded" \/ (op = "unknown" /\ Happened # {})
    /\ worker' = [worker EXCEPT ![w] =
         [Idle EXCEPT !.pc = "observing", !.kind = "observation", !.gen = step.gen,
                      !.result = IF op = "succeeded" THEN "success" ELSE "recovered"]]
    /\ UNCHANGED <<rows, cancel, applied, denied>>

-----------------------------------------------------------------------------
(* advanceWorkflow: read the steps, then write what they called for.        *)

AdvanceRead(w) ==
    /\ worker[w].pc = "advancing"
    /\ worker' = [worker EXCEPT ![w] =
         CASE step.status = "pending" -> [@ EXCEPT !.pc = "enqueueing"]
           [] step.status \in {"completed", "failed"} ->
                [@ EXCEPT !.pc = "finishing", !.final = step.status]
           [] OTHER -> Idle]
    /\ UNCHANGED <<rows, cancel, applied, denied>>

(* enqueueStep: a job of this generation that may still run is enough; a    *)
(* spent one is replaced under a new generation.                            *)
EnqueueStep(w) ==
    /\ worker[w].pc = "enqueueing"
    /\ IF step.status = "pending" /\ run = "running"
         THEN \/ /\ step.gen \in sent
                 /\ UNCHANGED <<step, sent>>
              \/ /\ step.gen \in sent
                 /\ step.gen < MaxGen
                 /\ step' = [step EXCEPT !.gen = @ + 1]
                 /\ sent' = sent \union {step.gen + 1}
              \/ /\ step.gen \notin sent
                 /\ sent' = sent \union {step.gen}
                 /\ UNCHANGED step
         ELSE UNCHANGED <<step, sent>>
    /\ Return(w)
    /\ UNCHANGED <<leaseLive, claims, run, command, action, effect, op, caseOpen, cancel, applied, denied>>

FinishRun(w) ==
    /\ worker[w].pc = "finishing"
    /\ ~cancel.on
    /\ IF run = "running"
         THEN run' = worker[w].final /\ GoTo(w, "commanding")
         ELSE Return(w) /\ UNCHANGED run
    /\ UNCHANGED <<step, leaseLive, claims, command, action, effect, op, caseOpen, sent,
                   cancel, applied, denied>>

FinishCommand(w) ==
    /\ worker[w].pc = "commanding"
    /\ ~cancel.on
    /\ command' = worker[w].final
    /\ Return(w)
    /\ UNCHANGED <<step, leaseLive, claims, run, action, effect, op, caseOpen, sent,
                   cancel, applied, denied>>

-----------------------------------------------------------------------------
(* The operator's controls.  A control's expected version is the run's      *)
(* version when it executes: a lost race is a control that changes nothing. *)

Pause ==
    /\ "pause" \in Controls
    /\ ~cancel.on
    /\ run = "running"
    /\ run' = "paused"
    /\ UNCHANGED <<step, leaseLive, claims, command, action, effect, op, caseOpen, sent,
                   worker, cancel, applied, denied>>

(* The resumed run gets a job of a new generation for its pending step.     *)
Resume ==
    /\ "pause" \in Controls
    /\ ~cancel.on
    /\ run = "paused"
    /\ run' = "running"
    /\ IF step.status = "pending"
         THEN /\ step.gen < MaxGen
              /\ step' = [step EXCEPT !.exec = "authorized", !.gen = @ + 1]
              /\ sent' = sent \union {step.gen + 1}
         ELSE UNCHANGED <<step, sent>>
    /\ UNCHANGED <<leaseLive, claims, command, action, effect, op, caseOpen, worker,
                   cancel, applied, denied>>

Escalate ==
    /\ "escalate" \in Controls
    /\ ~cancel.on
    /\ run \in {"running", "failed"}
    /\ run' = "escalated"
    /\ UNCHANGED <<step, leaseLive, claims, command, action, effect, op, caseOpen, sent,
                   worker, cancel, applied, denied>>

PossibleEffect ==
    \/ step.committed
    \/ step.exec \in {"commit_started", "awaiting_observation", "reconciling", "verified",
                      "failed_after_possible_effect", "cancellation_requested"}

Active == step.status \in {"pending", "leased"}
BeforeEffect == ~step.committed /\ step.exec \in {"authorized", "claimed"}

(* cancelRun takes the run row and reads the steps, without a lock ...      *)
CancelRead ==
    /\ "cancel" \in Controls
    /\ ~cancel.on
    /\ run \in {"running", "paused"}
    /\ cancel' = [on |-> TRUE, crossed |-> PossibleEffect,
                  before |-> Active /\ BeforeEffect, after |-> Active /\ ~BeforeEffect]
    /\ UNCHANGED <<rows, worker, applied, denied>>

(* ... and then writes every row by the ids and the answers it read.        *)
CancelWrite ==
    /\ cancel.on
    /\ cancel' = NotCancelling
    /\ run' = "cancelled"
    /\ command' = IF command = "running" THEN "cancelled" ELSE command
    /\ IF cancel.before
         THEN /\ claims' = [f \in Fences |->
                              IF claims[f] \in OpenClaim THEN "closed" ELSE claims[f]]
              /\ MoveStep("failed", "cancelled_before_effect")
         ELSE /\ step' = IF cancel.after THEN [step EXCEPT !.exec = "cancellation_requested"] ELSE step
              /\ UNCHANGED <<claims, leaseLive>>
    /\ IF cancel.crossed
         THEN /\ effect' = IF effect \in {"authorized", "executing", "failed", "partially_verified"}
                             THEN "reconciliation_required" ELSE effect
              /\ caseOpen' = TRUE
              /\ NeedsReview({"executing"})
         ELSE /\ effect' = IF effect = "authorized" THEN "cancelled" ELSE effect
              /\ action' = IF action = "executing" THEN "rejected" ELSE action
              /\ UNCHANGED caseOpen
    /\ UNCHANGED <<op, sent, worker, applied, denied>>

RetryableByStatus == run = "failed" /\ step.status = "failed"  \* fault: effect not asked

Retryable ==
    /\ run = "failed"
    /\ step.status = "failed"
    /\ \/ step.exec \in {"authorized", "failed_before_effect"}
       \/ step.exec = "claimed" /\ ~step.committed
    /\ effect = "failed"

RetryRun ==
    /\ "retry" \in Controls
    /\ Retryable
    /\ ~cancel.on
    /\ step.gen < MaxGen
    /\ run' = "running"
    /\ command' = IF command = "failed" THEN "running" ELSE command
    /\ step' = [step EXCEPT !.status = "pending", !.exec = "authorized",
                            !.committed = FALSE, !.gen = @ + 1]
    /\ sent' = sent \union {step.gen + 1}
    /\ action' = IF action = "failed" THEN "executing" ELSE action
    /\ UNCHANGED <<leaseLive, claims, effect, op, caseOpen, worker, cancel, applied, denied>>

(* resolveReconciliationCase for an effect without provider operations: the *)
(* aggregate is partially_verified whatever the operator found, and the     *)
(* waiting step is not settled.                                             *)
ResolveReconciliationCase ==
    /\ "resolve" \in Controls
    /\ caseOpen
    /\ caseOpen' = FALSE
    /\ effect' = IF effect = "verified" THEN effect ELSE "partially_verified"
    /\ NeedsReview({"executing", "needs_human_review", "failed"})
    /\ UNCHANGED <<step, leaseLive, claims, run, command, op, sent, worker, cancel, applied, denied>>

-----------------------------------------------------------------------------
Deliver(w) ==
    \/ \E g \in Gens : StartStepJob(w, g)
    \/ StartObservation(w)
Recover(w) ==
    \/ RecoverRead(w) \/ RecoverInspect(w) \/ RecoverRearm(w)
    \/ RecoverPark(w) \/ RecoverOpenCase(w) \/ RecoverDoubt(w)
Prepare(w) ==
    \/ CheckEligibility(w) \/ RecordIneligibility(w) \/ ClaimStep(w) \/ Admit(w)
    \/ BeginEffectCommit(w) \/ FindOperation(w) \/ ReclaimOperation(w) \/ DoubtOperation(w)
    \/ RefuseEffectCommit(w) \/ BlockBeforeEffect(w)
Execute(w) ==
    \/ VerifyDispatch(w) \/ Dispatch(w) \/ RecordSemanticOperation(w)
    \/ RecordBusinessEffectOutcome(w) \/ Project(w) \/ OpenReconciliationCase(w) \/ Settle(w)
Advance(w) ==
    \/ AdvanceRead(w) \/ EnqueueStep(w) \/ FinishRun(w) \/ FinishCommand(w)
Operate ==
    \/ Pause \/ Resume \/ Escalate \/ CancelRead \/ CancelWrite \/ RetryRun
    \/ ResolveReconciliationCase

Next ==
    \/ \E w \in Workers :
         \/ Deliver(w) \/ Recover(w) \/ Prepare(w) \/ Execute(w) \/ Advance(w)
         \/ HeartbeatStepClaim(w) \/ HandlerThrows(w) \/ Crash(w)
    \/ ExpireLease
    \/ Operate

Spec == Init /\ [][Next]_vars

-----------------------------------------------------------------------------
(* Properties.                                                              *)

(* However often the step is delivered, reclaimed, redriven or retried, a   *)
(* call takes effect after an earlier one did only if every earlier one was *)
(* told a failure: nothing else (silence, a crash, a lost lease, recovery,  *)
(* a late worker) makes the effect happen again.                            *)
EffectAppliedOnce == \A f, g \in Happened : f < g => f \in denied

(* Success is only ever recorded for an effect that happened: in the effect *)
(* row, the action, the step and the run, whoever writes them and when.     *)
SuccessIsEarned ==
    /\ effect = "verified" \/ action = "completed" \/ step.status = "completed"
         => Happened # {}
    /\ run = "completed" => step.status = "completed"

(* retryRun lets an operator send a run again only while no call has taken  *)
(* effect but those that were told a failure, although late workers still   *)
(* write the rows it looks at.                                              *)
RetryableIsUnapplied == Retryable => Happened \subseteq denied

(* The claims under which a worker is inside the plugin.                    *)
Calling == {worker[w].fence : w \in {v \in Workers : worker[v].pc = "dispatching"}}

(* Every delivery, recovery, control and late worker keeps what             *)
(* OutsideEffect promises: the plugin is entered only after the operation   *)
(* row stopped saying "none" or "failed", never beside another entry or     *)
(* after one that took effect and was not told a failure, and what the rows *)
(* and a retry on offer say of the effect is true but for such denials ("no *)
(* provider effect can begin without durable evidence", steps.ts:343).      *)
Promise == INSTANCE OutsideEffect WITH
    Requests <- Fences,
    confirmed <- effect = "verified" \/ action = "completed" \/ step.status = "completed",
    excluded <- op \in {"none", "failed"} \/ Retryable,
    underway <- Calling,
    happened <- applied,
    disowned <- denied

KeepsPromise == Promise!Spec

(* A verified effect stays verified, whatever late worker, recovery,        *)
(* cancellation or resolution comes after it: only beginEffectCommit's own  *)
(* doubt about an earlier attempt ever takes it back.                       *)
VerifiedIsKept ==
    [][effect = "verified" /\ effect' # "verified"
       => \E w \in Workers : worker[w].pc \in {"doubtful", "reclaiming"}
                            /\ worker'[w].result = "uncommitted"]_vars

-----------------------------------------------------------------------------
(* The inductive invariant behind EffectAppliedOnce.                        *)

(* What a slot carries from one transaction to the next is there when the   *)
(* next one reads it.                                                       *)
Answers == {"success", "recovered", "failure", "unknown"}
Carries(s) ==
    /\ s.pc = "returned" => s.result \in Answers \ {"recovered"}
    /\ s.pc = "observing" => s.result \in Answers
    /\ s.pc = "projecting" => s.result \in Answers /\ s.verdict # "none"
    /\ s.pc \in {"reconciling", "settling"} => s.result # "none"
    /\ s.pc \in {"finishing", "commanding"} => s.final # "none"
SlotsCarry == \A w \in Workers : Carries(worker[w])

InFlight(w) == worker[w].pc \in {"executing", "dispatching", "returned"}

(* The operation row admits one worker to the plugin at a time, and keeps   *)
(* saying so until that worker's own answer is recorded.                    *)
OneInFlight ==
    /\ \A v, w \in Workers : InFlight(v) /\ InFlight(w) => v = w
    /\ \A w \in Workers : InFlight(w) => op \in {"running", "unknown"}

(* A worker that has not called yet, or was told a failure, finds nothing   *)
(* applied: whatever has happened was told a failure too.                   *)
NothingYet == \A w \in Workers :
    /\ worker[w].pc \in {"executing", "dispatching"} => applied = {}
    /\ worker[w].pc = "returned" /\ worker[w].result = "failure" => applied = {}

(* Once applied, no operation row says the effect may be started.           *)
AppliedIsRecorded == applied # {} => op \notin {"none", "failed"}

(* At most one call took effect without being told a failure.               *)
OneStands == \A f, g \in applied : f = g

(* Their conjunction, which every step preserves: beginEffectCommit and     *)
(* recordSemanticOperation need no fence to act once.                       *)
EffectGuarded ==
    SlotsCarry /\ OneInFlight /\ NothingYet /\ AppliedIsRecorded /\ OneStands

-----------------------------------------------------------------------------
(* What comments claim, and the code does not keep.                         *)

(* beginEffectCommit: "A concurrent cancel must either win before this      *)
(* transaction (and prevent mutation) or observe commit_started": a step    *)
(* cancelled before its effect has none.                                    *)
CancelledHasNoEffect == step.exec = "cancelled_before_effect" => Happened = {}

(* run-controls.ts:253: a retry is offered "only when the prior result is   *)
(* known not to have produced an effect".  A plugin that throws after its   *)
(* request took effect is recorded as having failed before it.              *)
RetriedHadNoEffect == Retryable => Happened = {}

=============================================================================
