# Durable execution of finnor-os in TLA+

The program is `src/finnor-os`, a TypeScript monorepo over Postgres that turns approved decisions
into durable, auditable effects. Everything in it that must survive crashes, lost leases, duplicate
deliveries and impatient operators goes through one path:

    approved action -> command -> workflow run -> workflow step -> job -> worker -> effect -> outcome

This directory models that path, what elects and throttles the processes on it (leadership leases, the
scheduler, the capacity governor), the ledger of calls to outside providers, the objective loop that
keeps proposing actions, and the governed execution service with its own append-only ledger. Every
transaction of the code is one step of the model; between two transactions any other worker, sweep or
operator may act. Transactions run READ COMMITTED (`packages/db/index.ts`), so where a transaction reads
rows without locking them and acts on what it read, the read and the writes are separate steps. The
governed execution ledger is files and not Postgres: there every write, sync and rename is a step.

## Inventory

The durable core, by the state it keeps and the operations on it.

| Part | State | Operations | Hard because | Correct when |
|---|---|---|---|---|
| Job queue (`apps/worker/src/queue.ts`, `job-heartbeat.ts`) | `jobs`, `job_delivery_attempts` | enqueue, claim, renew, dispatch, complete, fail, drain return, capacity deferral, expired-lease sweep | at-least-once delivery, leases, crashes between commit and dispatch, lost acknowledgements | a claim has one holder; attempts equal charged deliveries; work that may not be replayed acts once; every job settles |
| Worker process (`apps/worker/src/index.ts`) | slots, drain flag | recovery sweep under a leader, drain, restart | a drain races a claim | a drained claim is either run or refunded |
| Workflow steps (`packages/workflow-runtime/src/steps.ts`) | `workflow_steps`, `workflow_step_claims`, `workflow_runs` | claim, heartbeat, complete, fail, park, redrive, recover stale steps, advance | token, fence and generation; recovery decides in one transaction and writes in another | only the holder settles; success is earned |
| Effect execution (`packages/orchestration/src/durable-execution.ts`) | `business_effects`, `integration_operations`, `domain_actions` | admit, begin commit, dispatch, record operation, verify, project, settle, refuse | the call cannot be rolled back; a crash leaves it unknown | nothing but a call that was told a failure is ever repeated; success is never recorded without the effect |
| Effect outcome (`packages/orchestration/src/compiler.ts`) | `business_effects.status` | record outcome | late and duplicate observations | verified truth does not regress |
| Run controls (`run-controls.ts`) | run, command | pause, resume, cancel, retry, escalate | they race the worker | cancelled-before-effect has no effect; retry only after calls that were told a failure |
| Reconciliation (`reconciliation.ts`) | `reconciliation_cases` | open, resolve | resolution races a late answer | every doubt has a case; resolution does not contradict evidence |
| Dead letters (`dlq.ts`) | `dead_letters` | record, replay | nothing: no code puts a dead letter of a step into the table | not modelled |
| Provider operation ledger (`packages/tools/src/idempotent-call.ts`, `provider-invocations.ts`) | `external_operations`, `provider_operation_attempts`, invocations | claim, prepare, mark, call, record, recover, observe, resolve | the call may have left although nobody heard; losers, recovery, observer and operator write the same rows | at most one application; failure means harmless; success is proven |
| Control leases (`packages/db/compute-control.ts`) | one row per lease, a closure per process | acquire, renew, release, stop | a leader finds out late that it is not one; statements execute after their sender is gone | one owner per fence; only time ends a live leader |
| Scheduler (`apps/worker/src/scheduler.ts`) | `lastScheduleAt`, keys of `jobs` | tick, enqueue per tenant and scan | two processes believe to lead; ticks are cut off; inserts arrive late | once per window; every scan keeps firing |
| Compute governor (`packages/db/compute-governor.ts`) | `compute_resource_leases` | acquire, renew, release | permits expire under running calls, callers die | overlapping calls within capacity, reserve and tenant share; capacity comes back |
| Cutover (`migrations/0138`) | one epoch row | activate | workers of two releases run side by side | an old worker cannot claim after the epoch |
| Objective loop (`packages/orchestration/src/objective-loop.ts`) | `work_objective_loops`, steps, iteration jobs | claim, inspect, finish, reserve and run a node, resume, recover, control | an iteration reads without a lock, works for minutes under a lease nobody renews, and is overtaken by wakes | an objective rests only on news; one that is to continue is served |
| Event waits (`packages/db/event-fabric.ts`, `event-waits.ts`) | `work_event_waits`, wake claims | create, ingest, match, claim the wake, time out | event against deadline, event before the wait | a wait wakes once |
| Governed execution ledger (`packages/governed-execution/src/ledger.ts`) | journal file, anchor file, an outside witness, the writer's memory | open, commit, read | kills between a write and its sync, power loss, three records of one history | what was acknowledged is history for good |
| Governed dispatch (`dispatch-broker.ts`) | nothing of its own | deliver, reconcile | must learn from the ledger alone what it did before it died | a change is sent once; readback ends |
| Submission (`runtime-bridge.ts`) | command, run, steps, first job | authorize execution | duplicate submissions | one run per authorized action |

How they interact: submission inserts a run, its steps and the first `run_workflow_step` job in one
transaction. A queue slot claims the job and calls the handler, which first recovers stale steps,
then claims its step, commits to the effect, calls the plugin, records the operation and the outcome,
settles the step and advances the run, each in a transaction of its own. The queue's lease and the
step's lease are independent. Operators change the same rows at any time. Jobs, steps, operations and
effects are coupled only through rows: nothing holds a lock across two transactions.

The objective loop drafts actions, which take the path above and, once settled, wake the loop through an
event or a direct resumption. A plugin that calls a provider does so through the provider ledger, whose
rows outlive the job that made them. Governed execution is reached from one job type and one request
handler and keeps its state apart.

Around the core are parts without concurrency of their own or that no decision of the core reads:
domain calculation, planning, model calls, projections, receipts, documents, providers, the API and
the consoles. `PROJECT.json` lists each with its status and the reason.

## Modules

| Module | Stands for |
|---|---|
| `JobQueue` | the queue: one action per statement of `queue.ts` and the sweep |
| `JobObligation` | what the queue promises of a job, without claims, leases or slots |
| `MCJobQueue` | the instance for TLC, with the slots interchangeable |
| `JobQueueProofs` | the inductive invariant `IInv`, the theorems, and that `JobQueue` implements `JobObligation` |
| `EffectRuntime` | one authorized effect: run, step, claims, action, effect, operation, case, the workers that deliver it and the controls |
| `MCEffectRuntime` | its instance |
| `EffectRuntimeProofs` | only a call that was told a failure is ever repeated, success is earned, what a retry may follow, a verification stays; `EffectRuntime` implements `OutsideEffect` |
| `OutsideEffect` | what the system promises of one effect on the outside, whatever asks for it, records it and recovers it |
| `ProviderLedger` | one operation at an outside provider: its row, attempts, invocations and everyone who writes them |
| `MCProviderLedger` | its instance |
| `ProviderLedgerProofs` | the inductive invariant, the safety properties from it, and that `ProviderLedger` implements `OutsideEffect` |
| `ObjectiveLoop` | one objective: loop row, steps, iteration jobs, nodes, event waits, resumptions, operator |
| `MCObjectiveLoop` | its instance |
| `ObjectiveLoopProofs` | whoever holds the loop's lease began after the last wake |
| `ExperienceLedger` | the append-only ledger of governed execution: journal, anchor, witness, one writer |
| `GovernedDispatch` | the broker on top of it, one call at a time, extending `ExperienceLedger` |
| `MCGovernedDispatch` | the instance of both |
| `GovernedDispatchProofs` | changes are sent once, acknowledged history is kept, readbacks are bounded; `GovernedDispatch` implements `OutsideEffect` for each member |
| `ControlLease` | one singleton lease row and the leadership closure of each process |
| `ControlLeaseProofs` | fences have one owner; only time ends a live leader |
| `Scheduler` | the proactive scheduler, composed with `ControlLease` |
| `MCScheduler` | its instances: an hourly and a half-hourly scan; the lease is checked in it |
| `SchedulerProofs` | once per window for hourly and daily scans, and the lease's promises under the scheduler, on top of `ControlLeaseProofs` |
| `ComputeGovernor` | capacity permits around physical requests |
| `MCComputeGovernor` | its instance: two policies, three calls |
| `ComputeGovernorProofs` | permits cover the requests at work, so these stay within capacity |

### JobQueue

State: per job the row (`status`, `attempts`, `fence`, `lease` in ticks left, `due`), the ledger
(`job_delivery_attempts.outcome` per claim fence) and the history `acted` (claims whose handler
reached outside); per slot where its tick is; the drain signal. `slot.lost` is the heartbeat's local
belief that the lease is gone, which the code consults and which may lag the row.

`Claim` is the claiming transaction, `Dispatch` and `ReturnUndispatched` the check between claim and
handler, `Act` whatever the handler does outside, `HandlerReturns`, `HandlerThrows` and
`HandlerMeetsCapacity` its three ways to end, `Complete`, `Fail`, `Defer` and `DeferRefused` the
settling transactions, `RecoverExpiredRunningJobs(S)` one sweep over any batch `S` of expired rows,
`Crash` and `Restart` the loss of a slot. A completion may commit and its acknowledgement still be
lost, in which case the slot goes on as if the handler had thrown.

Left open or out: the order of claiming, tenant quota and the compatibility filter (any due row may
be claimed); legacy rows without a tenant; rows of a retired vertical that were running before it was
retired. A job type's retry contract is a constant of the job.

### JobObligation

The abstract queue. An obligation is absent, waiting, open, or has its verdict (completed, dead letter,
quarantined). It is delivered in numbered turns, one open at a time, of which at most `MaxAttempts` count;
a turn may hand back what it did not use; somebody may act late, after his turn was taken away, only for
work that may be replayed; a verdict is passed on the open turn or on waiting work, and is final.

`JobQueue` implements it under the mapping at its end (`Obligation`): the phase is the row's status, the turn
its fence, what counts is `attempts`, and whether the turn acted is in the history. Leases, slots, lost
acknowledgements, sweeps over batches and the ledger disappear: a step of the queue is a step of the
abstract queue for every job it touches, or a stutter. `job_replayable` checks it as `KeepsPromise`;
`QueueImplementsObligation` proves it for every constant.

### EffectRuntime

State: the rows above for a run of one step, a lease bit, the set `sent` of generations for which a
job exists, per worker its place in the handler with the values it carries between transactions, a
cancellation in progress, and two histories of claims whose plugin call took effect: `denied` if the
worker was told a failure, `applied` if it was told anything else or nothing. Because
`workflow_steps_claim_shape_v2_check` gives a step a token exactly while it is leased, and each claim
takes a new fence, "token, fence and generation match" is `Owns(w)`. Of a finished claim the model
keeps only that it is closed: readers ask for `finished_at IS NULL`, never for how a claim ended.

The handler in order: `StartStepJob`; recovery (`RecoverRead`, `RecoverInspect`, then `RecoverRearm`,
`RecoverPark`, or `RecoverOpenCase` and `RecoverDoubt`); `CheckEligibility` and
`RecordIneligibility`; `ClaimStep`; `Admit`; the commit point, whose unlocked reads are
`BeginEffectCommit` and `FindOperation` and whose writes are `StartOperation` (directly or through
`ReclaimOperation`) or `DoubtOperation`, every refused guard being `RefuseEffectCommit`;
`VerifyDispatch`, `Dispatch`; `RecordSemanticOperation`; `RecordBusinessEffectOutcome`; `Project`;
`OpenReconciliationCase`; `Settle`; `AdvanceRead` with `EnqueueStep`, `FinishRun`, `FinishCommand`.
`HandlerThrows` is the handler's catch block. `Crash` can come at any moment and also stands for an
acknowledgement of a commit that never arrives. `cancelRun` is `CancelRead` and `CancelWrite`.

A definition introduced as a "fault" is a plausible bug of the definition next to it; no specification
uses it. Each property is shown to catch one (`PROJECT.json`, "mutants").

Abstractions, and why they are harmless or what they cost:

- One action, one step, one local operation. Every `submitCommand` submits exactly one `single_action` step,
  so a run of several steps does not occur. Operations at providers are `ProviderLedger`, governed
  obligations `GovernedDispatch`; delegated child runtimes, waits for external observation and plan repair
  are left out.
- `unverified` effects are counted with `divergent`, `blocked_integration_unavailable` with `failed`:
  no modelled decision tells them apart.
- Every answer is possible for an effect that happened and for one that did not. In particular a plugin that throws is answered as a failure (`durable-execution.ts:974-981`),
  whether its request took effect or not. Such an effect may come even later than the answer; that it is put
  at the answer makes no difference to the properties, which all except it.
- Authority, preconditions, generation and policy are one arbitrary refusal, except the effect states
  `revalidateActionExecution` admits.
- `afterPossibleEffect` in the commit's refusal path needs a committed step at the commit point,
  which TLC found unreachable; it is left out.
- A control reads the run's version when it executes: the version race is lost by doing nothing.
  `retryRun` and `resumeRun` read steps before the conditional run update in the same transaction and
  are not split: both require a run that no worker is then moving out of that status.
- Statements of a transaction that each repeat their own condition are one step.
- The pair (fence, generation) seen by recovery is represented by the fence, since a leased step never
  changes its generation.
- Lock waits that end as deadlock errors are thrown errors, hence `HandlerThrows` or `Crash`.

### ProviderLedger

State: the `external_operations` row (`status`, `execution_state`, the operator's ruling), its attempts with
the invocation of each, what every caller holds between two transactions, the requests on their way
(`flight`) and those that took effect (`applied`), an open reconciliation case, the observation job, the
resolution in progress. `ClaimOperation`, `RefuseRepetition`, `LoseClaim` are the three ends of the claim;
`PrepareProviderInvocation`, `MarkProviderRequestMayHaveLeft` and the end of the call (`AdapterRefuses`,
`CallEnds`) the path to the provider; the two `RecordProviderInvocation...` and
`RecordExternalOperationResult` what is written of it; `RecoverStaleOperation` the watchdog; `ObserveEffect`
and `SettleObservation` the readback; `BeginResolution` to `AbortResolution` the operator. `LoseClaim` is the
caller that found another at work and waits two seconds; if it finds no result then, it marks the operation
unknown under the owner's feet (`MarkExternalOperationUnknown`), so the owner's answer arrives at an
operation already in doubt. The retry inside an idempotent call never repeats a request here: a request
that may have left is not repeatable without evidence.

Assumed of the world: an operator's evidence is true when recorded, and "definitely did not happen" is said
only when no request is under way; a readback never reports absence; an adapter that reports
`definite_pre_dispatch` sent nothing. Time is abstract: an operation can be stale at any moment. A
transaction that loses a deadlock over the order of row locks aborts. Left out: upload sessions of several
requests, `definite_rejection`, provider idempotency keys and repeatable requests (no registered
consequential tool uses one), the verdicts `legally_compensatable` and `still_unknowable`, `reconcileOwned`
and `markDivergent`, the aggregate over several members of an effect.

### ObjectiveLoop

State: the loop row with the fate of its Work, the steps by number, the iteration jobs, per worker where its
iteration is, each node's action (not drafted, unsettled, settled), per action where the resumption after its
settlement is, the event waits. `Claim`, `Decline`, `Inspect`, `Finish`, `Redelivered`, `Refused`,
`Superseded`, `ScheduleNext` are the iteration; `Reserve` and `RunNode` (`Draft`, `Observe`, the two finishes,
`CompleteNode`, `ScheduleAfterNode`) a plan node; `Settle` and `Resume` the way back from an action, by the
event fabric (`Ingest`) and by the direct resumption (`ReadLoop`, `WriteLoop`, `ScheduleResumed`), whose read
takes no lock; `TimeOut`, `Recover`, `Expire` time; `Interrupt`, `Cancel`, `Regenerate` the operator. `Crash`,
`Throw`, `Lapse`, `LoseResumption` are failures; they and the operator's commands share the bound `MaxUpsets`.

`heard` (has an iteration begun since the last wake?) and `fresh` are histories. Some things follow from the
code and surprise: a wake sets the Work to executing without looking whether it has ended; a node that
finishes after the controller blocked the loop sets it to continue again; an event stored before a wait is
never replayed into it, since the earliest time defaults to the wait's creation. `awaiting_approval` is
written `waiting`. The iteration an operator's command schedules afterwards is covered by `Recover`.

An iteration that reserves nodes goes on without its lease: `RequestAssignment` asks for a worker, and
`RecordRefusal`, then `Park` or `Block`, write what came of it, in transactions fenced by the revision alone
(and by `continue`, for `Block`). `unstaffed` marks such a rest. `Retire` is the reservation that found no
ready node. Left
out: the native wait before the first iteration and the harness condition, plan revisions, what a
workforce assignment does after it was made, node leases, the planner, budgets other than steps, several
nodes reserved at once. An action changes once, from unsettled
to settled.

### ExperienceLedger and GovernedDispatch

State of the ledger: the journal's lines, whether it ends in part of a line, how many lines outlast a power
loss, the history named by the anchor file, the history the witness has acknowledged; in the process the
installed history, the journal as last hashed, the anchor last written; the call under way; and as histories
the longest answer given (`acked`) and how far an opening ever took unsynced lines for history (`adopted`). A
call is `Integrity`, `WriteLine`, `SyncLine`, `PersistAnchor`, `TellWitness`, each of which can fail; `Recover`
and the same tail open the ledger. A digest stands for the history before it, as each line contains its
predecessor's.

The broker adds the call it serves, what was sent, what the provider did, and how many readbacks left.
`ReadHistory` decides from the ledger alone; `RecordIntent`, then per member `RecordAttempt`, `ConfirmOwner`,
`SendChange`, `RecordAcknowledgment`; then `ClaimReadback`, `Readback`, `Observed`, `Settle`,
`ExhaustReadbacks`. `ProviderHandles` makes the change while its sender waits or later; a change never
handled was lost or refused.

Abstractions: one obligation of `N` members worth `Limit` readbacks (64 in the code). The witness is
advanced in one batch. Content files are durable before the line that names them and are folded into it.
Left out: other owners' entries in the same ledger, takeover of the lock, the entry limit, the bound of 512
on a history, the backlog limits. Every check that an owner, a signature, a policy, a clock or a budget can
fail is an arbitrary refusal; a refused readback unit counts as an upset. Signed policy and release stay
valid. Other people's writes to the record show as a readback that does not match. `Stop` is the operator who
restarts a ledger that refuses everything.

### OutsideEffect

The code has three ways to an effect that it cannot take back: a plugin call under a workflow step, a request
to a provider, a governed change at a provider. Each has its own rows, its own recovery and its own notion of
doubt, and nothing in one is shared with another. `OutsideEffect` is what they have in common: a record that
confirms the effect, or excludes it (it did not happen and may not any more), or is in doubt, and requests that
are under way, brought the effect about, or brought it about and were answered that they failed (`disowned`).
A request leaves only while the record is in doubt and no other
request left that is not known to be gone; a judgement may change the record at will, also take back
an earlier one, as long as it is true when passed. So the order in which every path writes is part of the
promise: the record stops excluding the effect before the request leaves, and excludes it again only when no
request can still take effect. A retry on offer is an exclusion. The record is not to blame for a request that
was denied by its own answer: such a request counts as none, and another may follow it. Only `EffectRuntime`
has such requests, since a plugin's throw is a failure to it whatever was sent.

| | `EffectRuntime` | `ProviderLedger` | `GovernedDispatch`, for each member |
|---|---|---|---|
| confirmed | effect `verified`, action or step `completed` | operation `succeeded` | the journal holds a verification |
| excluded | operation row absent or `failed`, or `Retryable` | operation absent or `failed`, or verified absent | no attempt of the member outlasts a power failure |
| under way | fences of the workers inside the plugin | `flight` | sent and not yet made |
| happened | `applied` | `applied` | sent and made |
| disowned | `denied` | nothing | nothing |

Two workers inside the plugin with one fence would count as one request; that a fence is one worker's is part
of the invariant the proof uses (`FencesAreOwn`), and that only one is inside is `OneInFlight`. In
`EffectRuntime` a call ends in the plugin, so a worker that dies there has lost its request unless it took
effect before; in the other two a request outlives its sender. In `GovernedDispatch` a change that is refused or
lost stays under way for ever, which forbids more than the code needs. The runs check the refinement as
`KeepsPromise`.

### ControlLease

State: the row (`fence`, and `live` for `expires_at > clock_timestamp()`), and per process its mode, the
closure's `lease` (a fence, 0 for null) and the statement it awaits; `wire` holds the statements sent
and not yet executed. `Tick(p)` sends an acquisition or a renewal, `ExecuteAcquire`, `ExecuteRenew` and
`ExecuteRelease` are the three SQL statements, `Answer` and `CallFails` the two ends of the await,
`Stop` the abort handler, `Exit` and `Restart` the process, `Expire` the passing of `expires_at`. A
caller that fails, stops or dies leaves its statement in `wire`, where it is executed late or, by `Lose`,
never.

`owner_id`, `lease_token` and `fence` are written together by the acquisition and only there, so the
fence stands for all three. The time to live is not measured. Statements of dead callers that are equal
in every field merge into one: only their effect on the row matters, and executing an acquisition twice
is the same as two processes acquiring in turn. `MaxFaults` bounds crashes, stops, failed calls and
expiries under a running holder; a lease that no running process attends to may always expire.

### Scheduler

Adds to the lease a clock of minutes that wraps after a day, the cutover flag, and per process where its
tick is (`tickRunning`), which pairs of tenant and scan it has yet to visit, and the minutes since
`lastScheduleAt` (up to `TickEvery`; a new process has never scheduled). `StartTick`, `CheckCutover`,
`ReadBucket` and `FinishTick` are the stretches of `tick` between its awaits: `ReadBucket` asks
`stillOwned`, reads the bucket of one pair, in any order, and sends its insert. `EnqueueScan` is the database
executing it, at any later time: after a rollover, after the lease moved on, or after the sender died or gave up
the tick (`LoseInsert` if it then never arrives). A bucket, and a window of a scan's interval, is named by its
age in rollovers, so an insert under way ages with the clock (`Ripen`): `inserts` holds for each the age of the
bucket it carries and of the window it was sent in, `keys` the ages of the buckets whose key is in `jobs`, and
`fired` counts the jobs by the window their insert was sent in. `LeaseStep` is any step of `ControlLease`, and
takes the scheduler of a dead process along. Left out: which tenants are
active (fixed), and `startGlobalScheduler`, which nothing calls.

### ComputeGovernor

State: where each call is, the ticks left of each of its permits, whether the provider works on it and for
how long, whether a renewal transaction has locked its permits, and `renewalFailure`. Acquisition locks
the policy rows from the counts to the commit, so it is one step. The renewal locks only the permits: its
match and its update are two steps (`RenewMatch`, `RenewCommit`). The release runs in the `finally` blocks
after a pending renewal was awaited. A crash leaves permits and physical request behind.

The one assumption that is not in code is a comment at `compute-governor.ts:175-177` and `205-206`:
the lease of a policy exceeds the deadline of the physical request (`CallTicks < LeaseTicks`). Policies
do not change during a run of the model.

## Runs

| Run | Instance | Question |
|---|---|---|
| `job_replayable` | 1 job, 2 slots, 2 attempts, 1 refund, 2-tick lease, fairness | do renewals, expiry, sweeps and late settlements ever lose, double or rewrite a claim? does the job settle? does the queue keep its promise (`JobObligation`)? |
| `job_unsafe` | a reconcilable and a retired job, 2 attempts, 2 refunds | does work that may not be replayed act twice? do ledger and rows agree after each batch? |
| `effect_stop` | 2 workers, 2 claims, 1 redrive, cancel and retry | is anything but a call that was told a failure repeated? success earned, retry on offer only after such calls, verified kept? |
| `effect_steer` | the same with pause, escalate, resolve and the dispatch boundary | does the invariant behind `EffectOnce` hold? is the promise of `OutsideEffect` kept? |
| `effect_thrown_retry` | 2 workers, 2 claims, retry | disagreement 1 below |
| `provider_ledger` | 2 callers, 3 attempts, readback, fairness | is a call applied twice, a failure harmful, a success unproven, a request forgotten, verified truth lost? is the promise of `OutsideEffect` kept? is an abandoned operation settled? |
| `objective` | 2 workers, 2 steps, 2 generations, 1 upset, fairness | does an objective rest on an overtaken iteration, but for want of a worker? is one that is to continue served? |
| `objective_lost_wake` | 1 worker, 3 steps, no upset, fairness | disagreement 2 |
| `governed` | 2 members, 2 readbacks, 2 upsets, fairness | is a change sent twice or before its attempt is durable? is an answer ever taken back? is the promise of `OutsideEffect` kept for each member? do readbacks stay within their limit, and end? |
| `scheduler` | 2 processes, 1 fault, an hourly scan, inserts up to one rollover late, fairness | does a fence have one owner, can a late statement end a live leader, is there one leader in the end? do the inserts of one window make two jobs? does the scan keep firing? |
| `scheduler_subhour` | 2 processes, 1 fault, a half-hourly scan | disagreement 3 |
| `governor_capacity` | 3 calls, 2 tenants, 2 policies, fairness | do overlapping requests stay within capacity, reserve and share? does every permit end? |

Bounds. Two slots suffice for each race here: every one is between a holder and a successor, or a holder and a
sweep or control, and the sweep is run by either slot. `MaxClaims` 2 gives a predecessor and a successor;
`MaxGen` 1 one redrive, resume or retry; `MaxAttempts` 2 distinguishes the last attempt from one before it; a
2-tick lease lets a renewal fall before and after a tick. The operator's verbs are split over two runs to keep
each under three minutes; retry follows failure and cancel follows a running run, so they are together, and
the others change neither. That retry and cancel keep the promise of `OutsideEffect` is left to the proof. The
proofs remove all of these bounds for the properties they cover. The bound on claims and generations stops
workers at the bound, so these runs do not check for deadlock.

The scheduler's one fault is a process that fails, is succeeded, and whose statement is executed afterwards.
Its day has four minutes and its hour two, which keeps the clock running past the hour and lets a tick
straddle a rollover; ticks come every two minutes. `Late` = 1 lets an insert outlive its bucket by one
rollover, after which it meets the keys of the next; one still later is counted for an older window of its
own, where the argument is the same, and the proof is for any `Late`. One scan suffices, as each property
speaks of a scan by itself, and a tick can be cut off before it as well as after; a daily scan differs only in
its numbers, which the proof leaves open. `scheduler_subhour` has a window of two minutes in an hour of four.
The global policy of `governor_capacity` has capacity 2, share 2 and reserve 1, the model's 2, 1 and 0: each
limit is the binding one for some set of calls. Every call of the governor ends, so its run does not check for
deadlock.

`provider_ledger` needs three attempts, so that an attempt can follow a verified absence and itself be in
doubt while the first one's owner still answers; two callers give an owner and a loser, or an owner and the
next claimant. Two steps of `objective` give a controller step and the node it reserves, or the step after a
wake; two generations let an iteration of the first meet a loop of the second; the lost wake needs three
steps. Iterations stop at `MaxSteps`, which `ContinueIsServed` exempts, and callers at `MaxAttempts`. Two
upsets of `governed` are a kill and a power loss, which is what each exception the code makes needs at most:
a line the killed process left unsynced is taken over, and then lost. `adopted` is a maximum, so the
theorem holds for any number. Its run does not check for deadlock: a ledger that lost history its witness
knows refuses to open.

Fairness of `job_replayable`. Time passes; the sweep runs (a 30-second timer under an elected
leader); a slot goes on with its tick and a handler returns or throws (the code wraps both); a stopped
slot is restarted (`runSlot` loops, the process is restarted by its supervisor); a due row that slots
come back to is eventually claimed (strong, because slots may be drained in between and the claim
query orders by age). Nothing is assumed of producers, renewals, drains, crashes or the outside.

Fairness of `scheduler`. The interval timers fire (`compute-control.ts:93`, `scheduler.ts:98`); awaits end,
because the pool answers or throws; a stopping process exits within its drain deadline (`index.ts:254-273`)
and the service replaces it; the clock runs, and a lease no running process attends to expires; an insert nobody awaits is executed or lost
in the end. `Lose`,
`Stop`, crashes and failed calls are not fair, and bounded: the properties say what holds once they have
stopped. Fairness of `governor_capacity`: time passes, a physical request ends at its deadline, a renewal
transaction and a release end one way or the other.

Fairness of `provider_ledger`: the watchdog's scan recurs. Nothing is assumed of callers, provider or operator.
Fairness of `objective`: iteration jobs are delivered and their handlers return (the queue's promise), the
ten-minute recovery recurs, leases and deadlines pass, a resumption under way goes on. Fairness of `governed`:
the process goes on with a call and is restarted after it ended, and callers come back, since the job is
delivered up to 64 times and an operator may send reconcile requests. The provider and `Stop` are not fair.

## What is proved

All constants are arbitrary within their assumptions.

`JobQueueProofs`. `LedgerMatchesJobs` says that a job is running under fence f exactly when ledger
entry f is open. It is not inductive alone: a settlement by a slot that lost its claim must find its
fence stale, so `IInv` adds which slot may hold which fence (`SlotsFollowRows`), that only running rows
have a holder (`HolderIffRunning`), that what acted is not in the future (`ActedIsPast`), that unsafe
work that may have acted is not queued (`UnsafeIsConfined`), and that refunds are bounded. From it
follow `TypeCorrect`, `LedgerIsFaithful`, `UnsafeWorkActsOnce`, `DispositionsAreRight`,
`ClaimsNeverShared`, `AttemptsAreCounted`, `CompletionsAreEarned`, and the action properties
`LiveOwnerIsSafe` and `VerdictsStay`. `QueueImplementsObligation` maps each action, job by job, to one step of
`JobObligation` or to a stutter; it uses `IInv` wherever the abstract queue asks for something the code does
not test, such as that unsafe work reaches outside only in its first turn, before it could be waiting again.

`EffectRuntimeProofs`. That only calls which were told a failure are ever followed by another that takes
effect (`EffectOnce`) holds although beginEffectCommit locks nothing and recordSemanticOperation has no fence.
The argument is `EffectGuarded`: inserting the operation row, or taking it from failed, admits one worker, and
while that worker is between the commit point and its recorded answer the row says running or unknown, which
admits nobody (`OneInFlight`); a worker that has not called, or was told of a failure, finds nothing applied
(`NothingYet`) but what was denied, and at most one call stands (`OneStands`); once applied the row is never
again absent or failed (`AppliedIsRecorded`); and a slot carries between transactions what the next one reads
(`SlotsCarry`).

That what the rows say of the effect is true needs a second invariant, `Grounded`, inductive relative to the
first. A verdict is written by an unfenced update long after it was reached, so `SuccessHasGround` speaks of the
verdicts that workers carry as well as of the rows; `RunFollowsStep` says that a run about to be finished as
completed keeps its completed step, unless a cancellation takes both. From these follow `SuccessesAreEarned` and
`VerificationIsKept`. A retry is safe for a less obvious reason: a late worker told of a failure may write
`failed_before_effect` over a step whose effect a successor has meanwhile applied, unless it no longer owns it.
It does not: fences are never shared nor from the future (`FencesAreOwn`), to enter the plugin one must own the
step, so whoever was told of a failure holds an older claim than anyone who entered afterwards (`FailuresAreOld`), a
call that took effect and was told so holds an older one than any still to be made (`DenialsAreOld`), and a step
without a sign of an effect has none applied and none under way (`SignsAreTrue`). Hence `RetriesAreUnapplied`,
nothing has happened but what was denied, and `RetriesAreAlone`: no worker is at the plugin or on its way to
record the answer while a retry is offered. The exception is real (disagreement 1), and the theorems say that
it is the only one.
`EffectKeepsPromise` puts both invariants together: they make each judgement of `OutsideEffect` true, entering
the plugin a `Send`, and leaving it, answered or by a crash, a `TakeEffect` or `GetLost`.

`ControlLeaseProofs`. `OneOwner`: no two processes hold, or are about to be told, the same fence. The
invariant `LeaseInv` adds that a process awaits exactly the statement it sent last
(`CallsAwaitTheirStatements`) and that a release under way names a grant no running process knows
(`ReleasesAreOver`). The latter is why a late release cannot hit a live leader (`LeadershipIsKept`): its
fence is one that no running process can hold again, as acquisitions only go up (`LeaderKeepsGrant`).

`SchedulerProofs` builds on it, since a lease step leaves keys and counts alone and does no more to an insert
than take its sender away. The invariant is `SchedulerInv`: an insert under way carries the bucket of the
window it was sent in, however long it travels, and a job made for a window still has its key. Both hold
because for an hourly or daily scan bucket and window roll over in the same minute (`BucketIsWindow`), so that
they age together; `HourlyAndDailyFireOnce` follows, with the assumption on the scans in its statement, which
`scheduler_subhour` shows to be needed. Leadership is not used: uniqueness rests on the key alone, as
`scheduler.ts:6-13` claims. `OneOwnerWhileScheduling` and `LeadershipIsKeptWhileScheduling` carry the two
promises of the lease over to the composition, where a failed query is a fault too and so the specification is
not a refinement of `LeaseSpec`.

`ComputeGovernorProofs`. A request at work is covered by all its permits, which have at least as long to
live as its deadline is away (`WorkIsCovered`), so the requests at work are a subset of the live permits
whenever an acquisition counts them, and one more still fits (`NoOverlapBeyondCapacity`). The permits
themselves may exceed the capacity for a while (see below); the requests may not.

`ProviderLedgerProofs`. A request is under way or took effect only for the latest attempt, which is recorded as
having left and under no barrier (`Tracked`), because an attempt is added only to an operation known to have
happened nowhere (`Harmless`). To know that, every writer must be honest: no two callers at work hold the same
attempt (`Owned`), what a caller was told is true and before the mark nothing left (`Truthful`), a success, a
verification and an acknowledged invocation have something applied behind them (`Proven`), and where there is a
readback, a verified operation has no open case whose resolution could overrule it (`Watched`). The invariant
is the conjunction with `TypeOK`. `LedgerKeepsPromise` is the refinement of `OutsideEffect`: the mark is the `Send`
(`MarkSends`), what the provider does with a request its end, and every other step a judgement.

`ObjectiveLoopProofs`. The lease is the fence of an iteration: whoever holds the loop's lease began after the
last wake (`Informed`), since every wake takes the lease away and a finish needs it. An operator's
interruption is no decision of an iteration. The rest for want of a worker needs no lease, and the property
leaves it out (see below).

`GovernedDispatchProofs`. `SentIsOnRecord`: what was sent has an attempt in the installed history within the
synced lines. It holds because the process only ever installs the journal itself, or a line it appended
(`Follows`), and no line is taken from under the synced part. `AcknowledgmentsAreKept`:
everything acknowledged, told to the witness, written to the anchor or installed is a prefix of the journal
up to a line that was synced or adopted at an opening (`Healthy`). Once a power loss has taken an adopted line
that somebody outside was told of, no process comes up again, since each opening is refused by the anchor or
the witness (`Stuck`). The invariant is the disjunction.

`ReadbacksStayBounded` counts claims in histories (`Budget`). A readback goes out only on a claim of its own that
no failure takes (`ReadsAreClaimed`), and a claim is made only while the installed history, which has every
durable one, shows fewer than the limit (`ClaimsAreLimited`). That a verification and an exhaustion exclude each
other needs more than the order of the calls: after a power failure a later call must find the claims that an
exhaustion stands on as long as it finds the exhaustion, so each prefix of the journal that ends in one has the
claims (`ExhaustedIsSpent`); and a call past its first reading has found no verification, one that has
claimed a readback no exhaustion (`OneEnd`). `EachMemberKeepsPromise` is the refinement of `OutsideEffect`, which
adds to the invariants only that what was made was sent (`MadeWasSent`); `BrokerKeepsPromise` states it for all
members in the form TLC can check.

Theorems without a run of their own: `DispositionFollowsContract`, `AttemptsMatchLedger`, `CompletionIsEarned`
(`JobQueue`), `SchedulerInv`, `GovernorInv`, `Grounded`, `NobodyInsideAtRetry` (`EffectRuntime`) and, behind
`ReadbacksStayBounded`, `Budget`. TLC checked each on the instances of the runs before it was proved.

Only model-checked: the liveness properties `EveryJobSettles`, `OneLeaderInTheEnd`, `EveryScanKeepsFiring`,
`CapacityComesBack`, `AbandonedIsSettled`, `ContinueIsServed` and `ReadbackEnds`, which are out of the prover's
reach, as they rest on fairness. Every other property of a passing run is a theorem.

Some theorems say less than their names. `EffectOnce`, `RetriesAreUnapplied` and `EffectKeepsPromise` except
calls that were told a failure, `RestsAreInformed` the rest for want of a worker. `VerificationsStay` is proved for operations that are read back
(`Observed`); without a readback an operator's "happened differently" may overrule an acknowledgement.
`HourlyAndDailyFireOnce` leaves out scans of other intervals, of which the property is false, and counts a job
for the window its insert was sent in: by the time the jobs are made two may fall into one window.

## Disagreements found

Each is a run that TLC ends with a counterexample; `PROJECT.json` "findings" quotes the sentence that
the code contradicts.

1. `effect_thrown_retry`. A plugin that throws after its request took effect (a timeout, a lost connection) is
   answered as a failure (`durable-execution.ts:974-981`): the operation is recorded `failed`, the step
   `failed_before_effect`, and the operator is offered a retry, although a retry is only for "when the prior
   result is known not to have produced an effect" (`run-controls.ts:253`). The effect may then happen twice.
2. `objective_lost_wake`. An action that settles between the inspection that found it unsettled and the wait
   for its change wakes nobody: the resumption finds no wait and the iteration's own job still there, and the
   wait ignores changes before it. The objective then waits for good.
3. `scheduler_subhour`. A scan with an interval below an hour is keyed by the minute (`scheduler.ts:34`), so a
   failed tick, a restart or a new leader fires it again in its window. Ten such scans are registered
   (`index.ts:155-173`), although the bucket is said to be "a window the size of the interval".

The first applies the effect twice. `EffectOnce` shows that nothing else in the effect runtime does, and
`AppliedOnce` that nothing in the provider ledger does.

Four more sentences are contradicted by steps of the models, and stand in the modules as properties that no run
checks. Put in place of the properties of the named configuration, TLC refutes each within seconds.

- `CancelledHasNoEffect` (`EffectStop.cfg`). `cancelRun` decides on steps it read without a lock
  (`run-controls.ts:148`) and writes by id, so a step whose effect committed in between ends as
  `cancelled_before_effect`. `durable-execution.ts:463` says that a concurrent cancel wins before the commit or
  observes it.
- `ClosedMeansSettled` (`ProviderLedger.cfg`). `resolveReconciliationCase` updates the operation under the
  version it read and does not look whether it did (`reconciliation.ts:139-169`); attempt and case are written
  regardless, so the case can close over an operation that is still unknown, which line 126 calls no permission
  to close.
- `LateIsDiscarded` (`ObjectiveLoop.cfg`). An iteration that reserved nodes has given its lease back; when it
  finds that only a person can act it writes `waiting`, fenced by the revision alone
  (`objective-loop.ts:2843-2850`), over whatever came in between: an interruption or a cancellation, which leave
  the revision, or a wake. `docs/upgrade9-agentic-objective-loop.md:103` lists as verified that "a late model
  result is discarded after a person interrupts the in-flight iteration".
- `NoSecondJob` (`Scheduler.cfg`). The bucket is read before the insert is awaited (`scheduler.ts:61-62`). An
  insert executed after the rollover makes the job of the past window beside that of the new one, so a scan
  can fire twice in one window of the clock.

Behaviour of the models that a reader may not expect, without a run of its own:

- `blockBeforeEffect` fences the step but not the effect and the action (`durable-execution.ts:641`): a worker
  that lost its step cancels the effect of its successor.
- An error after the plugin call is caught and the step failed as a known failure, the operation left running,
  no case opened (`run-workflow-step.ts:141`).
- The commit's doubt branch overwrites a verdict recorded after it read the operation
  (`durable-execution.ts:531`).
- Resolving the case of an effect without provider operations finds no members to count, so whatever the
  operator says the aggregate is `partially_verified`, for which the waiting step is neither completed nor
  failed (`reconciliation.ts:223-227`, `273-285`). Only a late answer or an operator moves it afterwards.
- Two recoveries may each find no open case and open one (`steps.ts:969`); the model has one bit for both.
- A resumption reads the loop without a lock and then writes `continue` (`objective-loop.ts:3604-3606`), so it
  revives an objective cancelled in between, although "A stale wake cannot revive obsolete orchestration"
  (`scripts/release/scope2-runtime-mandatory-cases.ts:68`). Whatever finish follows is refused, as the Work
  has ended.
- An objective that is written `waiting` without an open wait is polled by the recovery every ten minutes and
  each poll costs a step of its budget (twelve by default).
- A process killed between writing a line and its sync leaves a complete line that the next opening takes for
  history, answers from and persists in anchor and witness; a power loss can still take the line, and every
  later opening is refused (`ACKNOWLEDGED_HISTORY_TRUNCATED`). This is the exception `Lapsed` of
  `AcknowledgedIsKept`.
- A delivery in recovery whose continuation is refused, the authority having ended after some members were
  attempted, returns before any readback (`dispatch-broker.ts:120-123`), although
  `run-governed-obligation.ts:59-60` says that it "may finish only untouched original members, then use exact
  readback". Only a reconcile request then reads back; `ReadbackEnds` is about obligations all of whose
  members were attempted.
- After a failed sync or read-back the ledger's process refuses every call (`PROTECTED_HISTORY_CHANGED`) until
  it is restarted.
- `recoverStaleSteps` redrives by id a step it read as stale in an earlier transaction
  (`steps.ts:932`), and its unknown-outcome branch closes the claim and marks operation, effect and
  action even when its fenced step update matched nothing (`steps.ts:985`), so a recovery may take a
  step from a live claim. Both are steps of `EffectRuntime` (`RecoverRearm`, `RecoverDoubt`).
- A renewal of capacity permits does not look at `expires_at` again after its match
  (`compute-governor.ts:122`), so a set that ran out in between is revived beside the permit granted in
  its place. `NoOverlapBeyondCapacity` holds nevertheless, as a lease outlives its request.

## Plan

1. `JobQueue`, `EffectRuntime`, `ControlLease`, `Scheduler`, `ComputeGovernor` and their first theorems
   (done).
2. `JobObligation` and the refinement from `JobQueue`, checked and proved (done).
3. `ProviderLedger`: external operations, attempts, invocations, observation, resolution (done for one
   member of an effect).
4. `ObjectiveLoop` with event waits (done without plan revisions and workforce assignments).
5. `ExperienceLedger` and `GovernedDispatch` (done for one obligation).
6. Left: the cutover epoch in front of the claims; the persisted delivery store of the governed owner
   service; the aggregate of several provider members into one effect.
7. `OutsideEffect` and its refinement by `EffectRuntime`, `ProviderLedger` and `GovernedDispatch`, checked and
   proved (done).

Runs of several steps and dead letter replay were planned and dropped: no code submits the former, and no
code makes a dead letter of a step. The runs are kept to a dozen, with some forty properties between them, so
that all of them and the mutants can be repeated with every change; a later module joins the run of a
component it composes with, or takes the place of a property that is proved.

## Not modelled

The map covers a small share of the repository's lines, and that will stay so. Of the 440 000 lines, the
larger part holds no state that several actors change: generated types (`openapi-types.ts` twice, the
generated source manifest), the table declarations of `packages/db/schema.ts`, whose constraints appear as
guards and types of the modules that use the tables, calculation over private-market data, validators and
compilers of plans and policies, model calls whose results no code determines, read models and imports,
release and acceptance scripts, tests, consoles and the interface. Where the core calls into these, the call is
an arbitrary answer or refusal. `PROJECT.json` lists each part with its reason.

Of the parts with state: dead letters and the outbox have no caller; the runtime cutover epoch is one
irreversible change that every claim reads again; the conversation's turn lock, the workforce's node leases
and capability evolution are independent of what is modelled here and are not begun.
