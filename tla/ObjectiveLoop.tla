--------------------------- MODULE ObjectiveLoop ----------------------------
(***************************************************************************)
(* One objective of a Work: its loop row, its steps, the iteration jobs    *)
(* that drive it, the durable event waits that park it, and everyone who   *)
(* writes them (packages/orchestration/src/objective-loop.ts,              *)
(* orchestration-kernel.ts, event-waits.ts, packages/db/event-fabric.ts).  *)
(*                                                                         *)
(* An iteration claims a controller step under a lease that is never       *)
(* renewed, inspects, and finishes the step or reserves the plan's next    *)
(* node and asks for a worker of the workforce to run it; without one it   *)
(* writes the objective to rest, the lease long given back.  A node drafts *)
(* one domain action and finishes on what it observed of it.  The action   *)
(* settles elsewhere, and whoever settled it then calls                    *)
(* resumeObjectiveForAction.  Every action below is one transaction; all   *)
(* that read the loop row to decide on it lock it, but the resumption and  *)
(* what follows a reservation.                                             *)
(***************************************************************************)
EXTENDS Naturals, FiniteSets

CONSTANTS
    Workers,       \* processes that run iteration jobs
    StepLimit,     \* maxSteps of the objective
    MaxSteps,      \* bound: the largest step number ever given out
    MaxRevision,   \* bound: how often an operator starts a new generation
    MaxUpsets      \* bound: crashes, lapses, errors, lost calls and commands together

ASSUME ObjectiveAssumption ==
    /\ StepLimit \in Nat \ {0}
    /\ MaxSteps \in Nat /\ StepLimit <= MaxSteps
    /\ MaxRevision \in Nat \ {0}
    /\ MaxUpsets \in Nat
    /\ "none" \notin Workers /\ "gone" \notin Workers

VARIABLES
    loop,      \* the work_objective_loops row, with the fate of its Work
    steps,     \* work_objective_steps by number
    jobs,      \* run_objective_iteration jobs queued or running
    workers,   \* where each worker is in the iteration it runs
    actions,   \* each node's domain action: 0 not drafted, 1 unsettled, 2 settled
    resuming,  \* where the resumption after that action's settlement is
    waits,     \* work_event_waits by the step that waits
    upsets     \* how many upsets there have been

vars == <<loop, steps, jobs, workers, actions, resuming, waits, upsets>>

-----------------------------------------------------------------------------
(* Rows.                                                                    *)

Numbers == 1..MaxSteps
Revisions == 1..MaxRevision
Terminal == {"blocked", "completed", "failed", "cancelled"}
LoopStates == {"continue", "waiting"} \union Terminal

(* owner and live are the lease and whether it has time left; heard is a    *)
(* history: has an iteration begun since the last wake, when the loop last  *)
(* came to rest?  unstaffed is another: was that rest written for want of a *)
(* worker, after a reservation?  awaiting_approval is a loop waiting on an  *)
(* open wait, and is written waiting here.                                  *)
LoopRow == [state : LoopStates, rev : Revisions, count : 0..MaxSteps,
            owner : Workers \union {"none", "gone"}, live : BOOLEAN,
            heard : BOOLEAN, unstaffed : BOOLEAN,
            work : {"open", "failed", "completed", "cancelled"}]
(* A node is reserved, then assigned to the workforce ("node") or left to a *)
(* person ("human").                                                        *)
StepRow == [kind : {"none", "controller", "reserved", "human", "node", "closing", "done"},
            rev : 0..MaxRevision, saw : 0..2]
JobRow == [rev : Revisions, step : 1..(MaxSteps + 1), wake : 0..MaxSteps, by : Workers \union {"none"}]
WorkerState == [at : {"idle", "claimed", "inspected", "finished",
                      "reserved", "human", "unassigned", "parking", "blocking"},
                step : 0..MaxSteps, rev : 0..MaxRevision,
                saw : 0..MaxSteps, fresh : BOOLEAN]
WaitRow == [st : {"none", "waiting", "satisfied", "timed_out", "cancelled"},
            on : 0..MaxSteps, after : 0..2, rev : 0..MaxRevision, deadline : BOOLEAN]

Idle == [at |-> "idle", step |-> 0, rev |-> 0, saw |-> 0, fresh |-> FALSE]
NoStep == [kind |-> "none", rev |-> 0, saw |-> 0]
NoWait == [st |-> "none", on |-> 0, after |-> 0, rev |-> 0, deadline |-> FALSE]
Queued(rev, step, wake) == [rev |-> rev, step |-> step, wake |-> wake, by |-> "none"]

TypeOK ==
    /\ loop \in LoopRow
    /\ steps \in [Numbers -> StepRow]
    /\ jobs \subseteq JobRow
    /\ workers \in [Workers -> WorkerState]
    /\ actions \in [Numbers -> 0..2]
    /\ resuming \in [Numbers -> {"none", "ingest", "read", "write", "schedule"}]
    /\ waits \in [Numbers -> WaitRow]
    /\ upsets \in 0..MaxUpsets

Init ==
    /\ loop = [state |-> "continue", rev |-> 1, count |-> 0, owner |-> "none",
               live |-> FALSE, heard |-> TRUE, unstaffed |-> FALSE, work |-> "open"]
    /\ steps = [s \in Numbers |-> NoStep]
    /\ jobs = {Queued(1, 1, 0)}
    /\ workers = [w \in Workers |-> Idle]
    /\ actions = [a \in Numbers |-> 0]
    /\ resuming = [a \in Numbers |-> "none"]
    /\ waits = [s \in Numbers |-> NoWait]
    /\ upsets = 0

Upset == upsets < MaxUpsets /\ upsets' = upsets + 1

OpenSteps(kind) == {s \in Numbers : steps[s].kind = kind}
OpenWaits == {s \in Numbers : waits[s].st = "waiting"}

-----------------------------------------------------------------------------
(* Scheduling: at most one job of the revision and step at a time, whatever *)
(* its key, and none for a loop that is at an end.                          *)

(* A fault: the step to come is counted twice.                              *)
NextStepSkipping == loop.count + 2

NextStep == IF OpenSteps("controller") = {}
            THEN loop.count + 1
            ELSE CHOOSE s \in OpenSteps("controller") :
                     \A t \in OpenSteps("controller") : t <= s

Scheduled ==
    IF \/ loop.state \in Terminal
       \/ \E j \in jobs : j.rev = loop.rev /\ j.step = NextStep
    THEN jobs
    ELSE jobs \union {Queued(loop.rev, NextStep, 0)}

(* recoverRunnableObjectives: every ten minutes, unless an open wait parks  *)
(* a loop that is not continuing.                                           *)
Recover ==
    /\ \/ loop.state = "continue"
       \/ loop.state = "waiting" /\ OpenWaits = {}
    /\ jobs' = Scheduled
    /\ UNCHANGED <<loop, steps, workers, actions, resuming, waits, upsets>>

-----------------------------------------------------------------------------
(* An iteration.                                                            *)

Unowned == [loop EXCEPT !.owner = "none", !.live = FALSE]

(* The end of a job whose handler returned: fenced by its job lease.        *)
EndJob(w) == jobs' = {j \in jobs : j.by # w}
Leave(w) == workers' = [workers EXCEPT ![w] = Idle] /\ EndJob(w)

(* A fault: only a lease that was given back is taken over, not one that    *)
(* has run out.                                                             *)
TakesOverUnowned(j) == steps[j.step].kind = "controller" /\ loop.owner = "none"

(* claimStep takes over the job's open controller step when its lease has   *)
(* run out, or opens the next step, whatever the lease.                     *)
TakesOver(j) == steps[j.step].kind = "controller" /\ ~loop.live
Opens(j) == j.step = loop.count + 1
Claimable(j) ==
    /\ loop.state \notin Terminal
    /\ j.rev = loop.rev
    /\ TakesOver(j) \/ Opens(j)

Begin(w, j) ==
    /\ workers' = [workers EXCEPT ![w] = [at |-> "claimed", step |-> j.step,
                       rev |-> loop.rev, saw |-> 0, fresh |-> TRUE]]
    /\ jobs' = (jobs \ {j}) \union {[j EXCEPT !.by = w]}

Claim(w, j) ==
    /\ workers[w].at = "idle"
    /\ j.by = "none"
    /\ j.step <= MaxSteps
    /\ Claimable(j)
    /\ Begin(w, j)
    /\ IF Opens(j)
       THEN /\ steps' = [steps EXCEPT ![j.step] =
                             [kind |-> "controller", rev |-> loop.rev, saw |-> 0]]
            /\ loop' = [loop EXCEPT !.state = "continue", !.count = j.step,
                                    !.owner = w, !.live = TRUE]
       ELSE /\ loop' = [loop EXCEPT !.owner = w, !.live = TRUE]
            /\ UNCHANGED steps
    /\ UNCHANGED <<actions, resuming, waits, upsets>>

(* A delivery that finds nothing to claim returns, and its job is done.     *)
Decline(w, j) ==
    /\ workers[w].at = "idle"
    /\ j.by = "none"
    /\ j.step <= MaxSteps
    /\ ~Claimable(j)
    /\ jobs' = jobs \ {j}
    /\ UNCHANGED <<loop, steps, workers, actions, resuming, waits, upsets>>

Unsettled == {a \in Numbers : actions[a] = 1}

(* inspectCanonicalState: saw is the unresolved effect it found, if any.    *)
Inspect(w) ==
    /\ workers[w].at = "claimed"
    /\ workers[w].step <= StepLimit
    /\ \E a \in IF Unsettled = {} THEN {0} ELSE Unsettled :
           workers' = [workers EXCEPT ![w].at = "inspected", ![w].saw = a]
    /\ UNCHANGED <<loop, steps, jobs, actions, resuming, waits, upsets>>

-----------------------------------------------------------------------------
(* finishIteration.                                                         *)

(* The parent Work moves with the loop; one that has ended refuses.         *)
WorkOf(state) == IF state \in {"failed", "completed", "cancelled"} THEN state ELSE "open"
WorkAllows(state) ==
    \/ loop.work = "open"
    \/ loop.work = WorkOf(state)
    \/ loop.work = "failed" /\ state = "cancelled"

Current(w) ==
    /\ loop.rev = workers[w].rev
    /\ loop.owner = w
    /\ steps[workers[w].step].kind = "controller"

(* What the iteration may ask for, by how far it has come.  The no-progress *)
(* limit turns a continue into blocked like any other block.                *)
Outcomes(w) ==
    IF workers[w].at = "claimed" THEN {"blocked", "failed"}
    ELSE IF workers[w].saw # 0 THEN {"waiting"}
    ELSE {"continue", "waiting", "blocked", "failed", "completed", "cancelled"}

Limited(outcome) == IF outcome = "continue" /\ loop.count >= StepLimit
                    THEN "blocked" ELSE outcome

(* createWorkEventWaitTx: only changes from now on will match.              *)
WaitFor(a, deadline) == [st |-> "waiting", on |-> a, after |-> actions[a],
                         rev |-> loop.rev, deadline |-> deadline]

Finish(w, asked) ==
    /\ workers[w].at \in {"claimed", "inspected"}
    /\ asked \in Outcomes(w)
    /\ Current(w)
    /\ LET outcome == Limited(asked)
           me == workers[w]
       IN  /\ WorkAllows(outcome)
           /\ loop' = [Unowned EXCEPT !.state = outcome, !.heard = me.fresh,
                                      !.unstaffed = FALSE, !.work = WorkOf(outcome)]
           /\ steps' = [steps EXCEPT ![me.step].kind = "done"]
           /\ waits' = IF me.saw = 0 THEN waits
                       ELSE [waits EXCEPT ![me.step] = WaitFor(me.saw, FALSE)]
           /\ IF outcome = "continue"
              THEN workers' = [workers EXCEPT ![w].at = "finished"] /\ UNCHANGED jobs
              ELSE Leave(w)
    /\ UNCHANGED <<actions, resuming, upsets>>

(* A Work that has ended refuses: the transaction is undone, the delivery   *)
(* fails with the lease still held, and is retried or dead-lettered.        *)
Redelivered(w) ==
    \E retried \in BOOLEAN :
        jobs' = {j \in jobs : j.by # w} \union
                {[j EXCEPT !.by = "none"] : j \in {k \in jobs : retried /\ k.by = w}}

Refused(w) ==
    /\ workers[w].at \in {"claimed", "inspected"}
    /\ Current(w)
    /\ \E asked \in Outcomes(w) : ~WorkAllows(Limited(asked))
    /\ loop' = [loop EXCEPT !.owner = "gone"]
    /\ workers' = [workers EXCEPT ![w] = Idle]
    /\ Redelivered(w)
    /\ UNCHANGED <<steps, actions, resuming, waits, upsets>>

(* A result that comes late is discarded.                                   *)
Superseded(w) ==
    /\ workers[w].at \in {"claimed", "inspected"}
    /\ ~Current(w)
    /\ Leave(w)
    /\ UNCHANGED <<loop, steps, actions, resuming, waits, upsets>>

ScheduleNext(w) ==
    /\ workers[w].at = "finished"
    /\ jobs' = {j \in Scheduled : j.by # w}
    /\ workers' = [workers EXCEPT ![w] = Idle]
    /\ UNCHANGED <<loop, steps, actions, resuming, waits, upsets>>

-----------------------------------------------------------------------------
(* Nodes.                                                                   *)

(* reserveReadyPlanFrontier: the controller step becomes the ready node's   *)
(* attempt, or a superseded controller opens one of its own; the lease is   *)
(* cleared whoever holds it.                                                *)
Reserve(w) ==
    /\ workers[w].at = "inspected"
    /\ workers[w].saw = 0
    /\ loop.rev = workers[w].rev
    /\ loop.state \notin Terminal
    /\ LET mine == workers[w].step
           node == IF steps[mine].kind = "controller" THEN mine ELSE loop.count + 1
       IN  /\ node <= MaxSteps
           /\ steps' = [steps EXCEPT ![node] = [kind |-> "reserved", rev |-> loop.rev, saw |-> 0]]
           /\ loop' = [Unowned EXCEPT !.state = "continue",
                           !.count = IF node > loop.count THEN node ELSE loop.count]
           /\ workers' = [workers EXCEPT ![w].at = "reserved", ![w].step = node]
    /\ UNCHANGED <<jobs, actions, resuming, waits, upsets>>

(* No node is ready, or the Work may not be executed: the controller is     *)
(* retired, and its lease, if it still has it, given back.                  *)
Retire(w) ==
    /\ workers[w].at = "inspected"
    /\ workers[w].saw = 0
    /\ loop.rev = workers[w].rev
    /\ LET mine == workers[w].step
       IN  steps' = IF steps[mine].kind = "controller"
                    THEN [steps EXCEPT ![mine].kind = "done"] ELSE steps
    /\ loop' = IF loop.owner = w THEN Unowned ELSE loop
    /\ Leave(w)
    /\ UNCHANGED <<actions, resuming, waits, upsets>>

Schedulable(w) ==
    /\ loop.rev = workers[w].rev
    /\ loop.state \notin Terminal
    /\ steps[workers[w].step].kind = "reserved"

(* requestWorkforceAssignment: an eligible worker is assigned the node, or  *)
(* none is, or only a person may do it.  What is no longer schedulable is   *)
(* treated as unassigned.  The loop is read once before, to give up when an *)
(* operator began a new generation: every write below comes to the same.    *)
RequestAssignment(w) ==
    /\ workers[w].at = "reserved"
    /\ \/ /\ Schedulable(w)
          /\ steps' = [steps EXCEPT ![workers[w].step].kind = "node"]
          /\ Leave(w)
       \/ \E answer \in {"human", "unassigned"} :
            /\ answer = "human" => Schedulable(w)
            /\ workers' = [workers EXCEPT ![w].at = answer]
            /\ UNCHANGED <<steps, jobs>>
    /\ UNCHANGED <<loop, actions, resuming, waits, upsets>>

(* The refusal is written to the step, unless it has been finished.         *)
RecordRefusal(w) ==
    /\ workers[w].at \in {"human", "unassigned"}
    /\ LET human == workers[w].at = "human"
           node == workers[w].step
       IN  /\ steps' = IF steps[node].kind = "reserved"
                       THEN [steps EXCEPT ![node].kind = IF human THEN "human" ELSE "done"]
                       ELSE steps
           /\ workers' = [workers EXCEPT ![w].at = IF human THEN "parking" ELSE "blocking"]
    /\ UNCHANGED <<loop, jobs, actions, resuming, waits, upsets>>

(* The objective waits for a person: fenced by its revision alone, and      *)
(* leaving whatever lease there is by now.                                  *)
Park(w) ==
    /\ workers[w].at = "parking"
    /\ loop' = IF loop.rev # workers[w].rev THEN loop
               ELSE [loop EXCEPT !.state = "waiting", !.heard = workers[w].fresh,
                                 !.unstaffed = TRUE]
    /\ Leave(w)
    /\ UNCHANGED <<steps, actions, resuming, waits, upsets>>

(* It is blocked for want of a worker: fenced by its revision and by being  *)
(* to continue, and undone when its Work has ended.                         *)
Blocks(w) == loop.rev = workers[w].rev /\ loop.state = "continue"

Block(w) ==
    /\ workers[w].at = "blocking"
    /\ IF Blocks(w) /\ WorkAllows("blocked")
       THEN loop' = [Unowned EXCEPT !.state = "blocked", !.heard = workers[w].fresh,
                                    !.unstaffed = TRUE, !.work = "open"]
       ELSE UNCHANGED loop
    /\ workers' = [workers EXCEPT ![w] = Idle]
    /\ IF Blocks(w) /\ ~WorkAllows("blocked") THEN Redelivered(w) ELSE EndJob(w)
    /\ UNCHANGED <<steps, actions, resuming, waits, upsets>>

(* draftObjectiveAction.                                                    *)
Draft(s) ==
    /\ steps[s].kind = "node"
    /\ actions[s] = 0
    /\ actions' = [actions EXCEPT ![s] = 1]
    /\ UNCHANGED <<loop, steps, jobs, workers, resuming, waits, upsets>>

(* latestActionObservation, before the transaction that finishes the node.  *)
Observe(s) ==
    /\ steps[s].kind = "node"
    /\ actions[s] # 0
    /\ steps[s].saw = 0
    /\ steps' = [steps EXCEPT ![s].saw = actions[s]]
    /\ UNCHANGED <<loop, jobs, workers, actions, resuming, waits, upsets>>

(* finishIteration of a node: what it waits for does not park the loop.     *)
FinishNode(s) ==
    /\ steps[s].kind = "node"
    /\ steps[s].saw # 0
    /\ steps[s].rev = loop.rev
    /\ loop.work = "open"
    /\ steps' = [steps EXCEPT ![s].kind = "closing"]
    /\ loop' = [loop EXCEPT !.state = "continue"]
    /\ waits' = IF steps[s].saw = 2 THEN waits ELSE [waits EXCEPT ![s] = WaitFor(s, FALSE)]
    /\ UNCHANGED <<jobs, workers, actions, resuming, upsets>>

(* A node that waits: for an action's change or for its deadline alone.     *)
FinishWaitNode(s) ==
    /\ steps[s].kind = "node"
    /\ actions[s] = 0
    /\ steps[s].rev = loop.rev
    /\ loop.work = "open"
    /\ steps' = [steps EXCEPT ![s].kind = "closing"]
    /\ loop' = [loop EXCEPT !.state = "continue"]
    /\ \E a \in Unsettled \union {s} : waits' = [waits EXCEPT ![s] = WaitFor(a, TRUE)]
    /\ UNCHANGED <<jobs, workers, actions, resuming, upsets>>

(* A node that checks the objective's success condition and finds it met.   *)
CompleteNode(s) ==
    /\ steps[s].kind = "node"
    /\ actions[s] = 0
    /\ steps[s].rev = loop.rev
    /\ loop.work = "open"
    /\ steps' = [steps EXCEPT ![s].kind = "done"]
    /\ loop' = [loop EXCEPT !.state = "completed", !.work = "completed"]
    /\ UNCHANGED <<jobs, workers, actions, resuming, waits, upsets>>

ScheduleAfterNode(s) ==
    /\ steps[s].kind = "closing"
    /\ jobs' = Scheduled
    /\ steps' = [steps EXCEPT ![s].kind = "done"]
    /\ UNCHANGED <<loop, workers, actions, resuming, waits, upsets>>

-----------------------------------------------------------------------------
(* Settlement and resumption.                                               *)

(* The action's last change, by an approval, an execution or a              *)
(* reconciliation, which then calls resumeObjectiveForAction.               *)
Settle(a) ==
    /\ actions[a] = 1
    /\ actions' = [actions EXCEPT ![a] = 2]
    /\ resuming' = [resuming EXCEPT ![a] = "ingest"]
    /\ UNCHANGED <<loop, steps, jobs, workers, waits, upsets>>

(* A fault: the wake leaves the lease with the iteration under way.         *)
WokenKeepingLease == [loop EXCEPT !.state = "continue", !.work = "open"]

(* The wake takes the lease from an iteration under way.                    *)
Woken == [Unowned EXCEPT !.state = "continue", !.work = "open"]

(* claimWaitWakeTx for each of the waits W.                                 *)
Awake(W, how) ==
    IF loop.state \in Terminal
    THEN /\ waits' = [s \in Numbers |-> IF s \in W THEN [waits[s] EXCEPT !.st = "cancelled"]
                                         ELSE waits[s]]
         /\ UNCHANGED <<loop, jobs, workers>>
    ELSE /\ waits' = [s \in Numbers |-> IF s \in W THEN [waits[s] EXCEPT !.st = how]
                                         ELSE waits[s]]
         /\ jobs' = jobs \union {Queued(loop.rev, loop.count + 1, s) : s \in W}
         /\ loop' = Woken
         /\ workers' = [w \in Workers |-> [workers[w] EXCEPT !.fresh = FALSE]]

(* integrationEventMatchesWait: of the same action, and of a change that    *)
(* came after the wait was created.                                         *)
Matching(a) == {s \in OpenWaits : waits[s].on = a /\ waits[s].after < actions[a]}

(* Of those with a deadline, some may have been past it at the change.      *)
Ingest(a) ==
    /\ resuming[a] = "ingest"
    /\ \E W \in SUBSET Matching(a) :
           /\ \A s \in Matching(a) \ W : waits[s].deadline
           /\ IF W = {}
              THEN /\ resuming' = [resuming EXCEPT ![a] = "read"]
                   /\ UNCHANGED <<loop, jobs, workers, waits>>
              ELSE /\ resuming' = [resuming EXCEPT ![a] =
                                       IF loop.state \in Terminal THEN "read" ELSE "none"]
                   /\ Awake(W, "satisfied")
    /\ UNCHANGED <<steps, actions, upsets>>

(* processWorkEventWaitDeadlineTx, from its own job or from a recovery.     *)
TimeOut(s) ==
    /\ waits[s].st = "waiting"
    /\ waits[s].deadline
    /\ Awake({s}, "timed_out")
    /\ UNCHANGED <<steps, actions, resuming, upsets>>

(* Without a match it reads the loop, and then updates it by id alone.      *)
ReadLoop(a) ==
    /\ resuming[a] = "read"
    /\ resuming' = [resuming EXCEPT ![a] =
                        IF loop.state \in Terminal THEN "none" ELSE "write"]
    /\ UNCHANGED <<loop, steps, jobs, workers, actions, waits, upsets>>

WriteLoop(a) ==
    /\ resuming[a] = "write"
    /\ loop' = [loop EXCEPT !.state = "continue"]
    /\ resuming' = [resuming EXCEPT ![a] = "schedule"]
    /\ UNCHANGED <<steps, jobs, workers, actions, waits, upsets>>

ScheduleResumed(a) ==
    /\ resuming[a] = "schedule"
    /\ jobs' = Scheduled
    /\ resuming' = [resuming EXCEPT ![a] = "none"]
    /\ UNCHANGED <<loop, steps, workers, actions, waits, upsets>>

-----------------------------------------------------------------------------
(* controlWorkObjective.                                                    *)

Controllable == loop.state \notin {"completed", "cancelled"}

(* Every wait is cancelled and every unfinished step is finished.           *)
Halt ==
    /\ waits' = [s \in Numbers |-> IF waits[s].st = "waiting"
                                   THEN [waits[s] EXCEPT !.st = "cancelled"] ELSE waits[s]]
    /\ steps' = [s \in Numbers |-> IF steps[s].kind \in {"controller", "reserved", "human", "node"}
                                   THEN [steps[s] EXCEPT !.kind = "done"] ELSE steps[s]]

(* Actions that were not yet executing are rejected; nobody resumes after.  *)
RejectSome ==
    \E R \in SUBSET Unsettled :
        actions' = [a \in Numbers |-> IF a \in R THEN 2 ELSE actions[a]]

Interrupt ==
    /\ Upset
    /\ Controllable
    /\ WorkAllows("blocked")
    /\ Halt
    /\ RejectSome
    /\ loop' = [Unowned EXCEPT !.state = "blocked", !.heard = TRUE,
                             !.unstaffed = FALSE, !.work = "open"]
    /\ UNCHANGED <<jobs, workers, resuming>>

Cancel ==
    /\ Upset
    /\ Controllable
    /\ WorkAllows("cancelled")
    /\ Halt
    /\ RejectSome
    /\ loop' = [Unowned EXCEPT !.state = "cancelled", !.work = "cancelled"]
    /\ UNCHANGED <<jobs, workers, resuming>>

(* Continue or redirect: a new generation.  Its own call of                 *)
(* scheduleIteration after the commit is a recovery's.                      *)
Regenerate ==
    /\ Upset
    /\ Controllable
    /\ WorkAllows("continue")
    /\ loop.rev < MaxRevision
    /\ Halt
    /\ RejectSome \/ UNCHANGED actions
    /\ loop' = [Unowned EXCEPT !.state = "continue", !.rev = @ + 1, !.work = "open"]
    /\ UNCHANGED <<jobs, workers, resuming>>

-----------------------------------------------------------------------------
(* Time and faults.                                                         *)

Expire ==
    /\ loop.live
    /\ loop' = [loop EXCEPT !.live = FALSE]
    /\ UNCHANGED <<steps, jobs, workers, actions, resuming, waits, upsets>>

(* A worker dies: its job comes back or is dead-lettered, and whatever it   *)
(* held has an owner that will not return.                                  *)
Crash(w) ==
    /\ Upset
    /\ workers[w].at # "idle"
    /\ loop' = [loop EXCEPT !.owner = IF @ = w THEN "gone" ELSE @]
    /\ workers' = [workers EXCEPT ![w] = Idle]
    /\ Redelivered(w)
    /\ UNCHANGED <<steps, actions, resuming, waits>>

(* Inspecting or planning fails: the lease is released, and with it a Work  *)
(* that had failed is in recovery.                                          *)
Throw(w) ==
    /\ Upset
    /\ workers[w].at \in {"claimed", "inspected"}
    /\ loop.work \in {"open", "failed"}
    /\ loop' = [loop EXCEPT !.owner = IF @ = w THEN "none" ELSE @,
                            !.live = @ /\ loop.owner # w, !.work = "open"]
    /\ workers' = [workers EXCEPT ![w] = Idle]
    /\ Redelivered(w)
    /\ UNCHANGED <<steps, actions, resuming, waits>>

(* The job's own lease lapses and it is delivered again, under a worker     *)
(* that goes on.                                                            *)
Lapse(w) ==
    /\ Upset
    /\ \E j \in jobs :
           /\ j.by = w
           /\ jobs' = (jobs \ {j}) \union {[j EXCEPT !.by = "none"]}
    /\ UNCHANGED <<loop, steps, workers, actions, resuming, waits>>

(* A resumption is lost: its errors are swallowed, and a crash ends it.     *)
LoseResumption(a) ==
    /\ Upset
    /\ resuming[a] # "none"
    /\ resuming' = [resuming EXCEPT ![a] = "none"]
    /\ UNCHANGED <<loop, steps, jobs, workers, actions, waits>>

-----------------------------------------------------------------------------
Iterate(w) ==
    \/ \E j \in jobs : Claim(w, j) \/ Decline(w, j)
    \/ Inspect(w)
    \/ \E asked \in LoopStates : Finish(w, asked)
    \/ Refused(w)
    \/ Superseded(w)
    \/ ScheduleNext(w)
    \/ Reserve(w) \/ Retire(w)
    \/ RequestAssignment(w) \/ RecordRefusal(w) \/ Park(w) \/ Block(w)

Resume(a) == Ingest(a) \/ ReadLoop(a) \/ WriteLoop(a) \/ ScheduleResumed(a)

RunNode(s) ==
    Draft(s) \/ Observe(s) \/ FinishNode(s) \/ FinishWaitNode(s)
    \/ CompleteNode(s) \/ ScheduleAfterNode(s)

Operate == Interrupt \/ Cancel \/ Regenerate

Next ==
    \/ \E w \in Workers : Iterate(w) \/ Crash(w) \/ Throw(w) \/ Lapse(w)
    \/ \E s \in Numbers : RunNode(s) \/ Settle(s) \/ Resume(s) \/ TimeOut(s)
                          \/ LoseResumption(s)
    \/ Recover
    \/ Operate
    \/ Expire

Spec == Init /\ [][Next]_vars

(* Jobs are delivered and handlers return, the recovery recurs, leases and  *)
(* deadlines pass, and a resumption under way goes on.                      *)
FairSpec ==
    /\ Spec
    /\ \A w \in Workers : WF_vars(Iterate(w))
    /\ \A s \in Numbers : WF_vars(Resume(s)) /\ WF_vars(TimeOut(s))
    /\ WF_vars(Recover)
    /\ WF_vars(Expire)

-----------------------------------------------------------------------------
(* Properties.                                                              *)

(* An objective never comes to rest on the word of an iteration that began  *)
(* before the objective's last wake: the wake takes the lease from an       *)
(* iteration under way, so what it read before the event is discarded       *)
(* however late it finishes (claimWaitWakeTx against finishIteration).  The *)
(* code makes one exception, excluded here: the rest for want of a worker,  *)
(* which Park and Block write without a lease.                              *)
RestsOnNews ==
    loop.state \in {"waiting", "blocked", "failed"} /\ ~loop.unstaffed => loop.heard

(* What the docs say of an iteration under way when a person interrupts:    *)
(* its late result is discarded.  So no iteration moves an objective that   *)
(* an operator or another iteration has brought to an end.  The code does   *)
(* not keep it: Park does.                                                  *)
LateIsDiscarded ==
    [][loop.state \in Terminal /\ loop'.state # loop.state => UNCHANGED workers]_vars

(* An objective that is to continue, and whose Work has not ended, does not *)
(* stay so: through crashed workers, lapsed leases and lost calls, the      *)
(* recovery finds it and an iteration takes it on (recoverRunnableObjectives*)
(* and claimStep), until it waits or ends.                                  *)
ContinueIsServed ==
    (loop.state = "continue" /\ loop.work = "open") ~>
        (loop.state # "continue" \/ loop.work # "open" \/ loop.count = MaxSteps)

(* What objective-loop.ts says of resumeObjectiveForAction: after an action *)
(* has changed a new iteration inspects it.  So an objective does not wait  *)
(* for good when every action of its has settled.                           *)
SettledIsObserved ==
    []<>(loop.state # "waiting" \/ Unsettled # {} \/ loop.count = MaxSteps)
=============================================================================
