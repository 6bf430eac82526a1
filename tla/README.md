# Polpo: a verification development

Polpo runs AI agents on Tasks. A Task is a durable row; an attempt to execute it
is a Run, also a row, carried out by a detached runner process. A supervisor
loop assigns, watches, collects and assesses; users, monitors and language
models write the same rows at the same time. Everything that makes this hard is
in one sentence of the store's contract: *a stale reference rejects without
chasing or modifying a newer attempt*. The modules here state what that contract
is, prove that the store keeps it, and check that the rest of the system uses it
well enough to execute Tasks correctly. Five further protocols have modules of
their own: the escalation of a Task whose retries are spent, the approvals that
stand between a Task and its execution, the Missions that group Tasks and hold
them at gates, the durable delivery of one Run to readers that come and go, and
the schedules that start work at its time.

Paths below are relative to `src/packages/`.

## 1. Inventory

| Component | State | Operations | Hard behaviour | Correct when |
|---|---|---|---|---|
| **Task and Run stores** (`core/src/task-execution.ts`, `state-machine.ts`, `drizzle/src/stores/task-store.ts`, `run-store.ts`) | Task: status, `executionRevision`, `activeRunId`, retries; Run: status, Task, `taskExecutionRevision`, `collectedAt` | claim, mutate (patch, transition, requeue, cancel), transition, unsafeSetStatus, create, delete, completeRun, markRunCollected | callers hold copies of any age; two of the operations compare only the revision; late completions | one attempt at a time, a reference names one attempt for ever, an outcome is never replaced |
| **Supervisor loop** (`orchestrator-engine.ts`, `task-runner.ts`, `task-dispatch.ts`) | the tick's listings, the attempt at hand | orphan recovery; tick: collect, health checks, readiness, deadlock detection, dispatch, spawn | every await lets others in; crash at any await; several supervisors | finished work is assessed, recovery burns no retry, slots and dependencies respected, every Task settles |
| **Deadlock resolution** (`node/src/core/deadlock-resolver.ts`) | one background resolution per engine over a captured listing | analyse, absorb, retry, give up | a model answers long after the listing | no decision on a deadlock that is gone, no work skipped |
| **Agent runner** (`node/src/core/run-lifecycle.ts`, `core/src/run-state-monitor.ts`, `node/src/adapters/node-spawner.ts`) | the phase of the process, the recorded pid | start, prepare, work, observe the Run, abort, report | outlives the supervisor; cancelled while it starts; dies silently; hangs | a superseded process stops by itself, its report changes nothing |
| **Assessment** (`assessment-orchestrator.ts`) | fixAttempts, questionRounds | admit a result, answer a question, fix, retry, complete, fail, suspend for a person; hooks veto | long model calls between reading and writing; interrupted reviews | only the attempt that earned it settles the Task |
| **Task management, SLA** (`task-manager.ts`, `sla-monitor.ts`) | a listing, a captured Task | kill, retry, clear, reassess; fail a Task past its deadline | not awaited by the tick; deadline and reassessment are not fenced by an attempt | kill, retry and clear end the attempt they settle; what the other two may do to an attempt or a settled Task is bounded and known |
| **Escalation** (`escalation-manager.ts`) | the level of each Task, a timer per Task, calls that wait | intercept a final failure; requeue for another agent or with a new text, ask a person, advance, fail; timeouts | waits for models and timers with a captured Task; people, SLA, claims and a crash in between | every exhausted result is decided, a person's decision stands, a hanging agent is stopped |
| **Approvals** (`approval-manager.ts`, `task-approval-coordinator.ts`) | requests in batches bound to a Task's input, agent and gates; the Task's authority (`approvalState`); a timer per request | suspend, claim, check, approve, reject, expire, recover at `init` | answers to sibling gates race, timeout races with answer, edit, kill, reload and crash | consent is used by the attempt it was given for, a Task that waits unedited can be answered, a timeout is not lost |
| **Missions** (`mission-executor.ts`, `mission-execution.ts`, `mission-gating.ts`, `mission-cancellation.ts`, the mission part of `orchestrator-engine.ts`) | Mission row, receipts of executions, gates in memory and in two stores, `preparedExecutions`, `cleanedGroups` | execute (with a key), gate, pause, release, settle, cancel, resume, recover | status writes that compare nothing, settlement on a listing, one state object for the gates of all executions, crash between any two writes | a key is executed once, what was cancelled stays so, a gate holds what it blocks, an ended Mission is settled |
| **Durable Run delivery** (`core/src/run-delivery*.ts`, `drizzle/src/stores/run-delivery-store.ts`, `server/src/routes/run-delivery.ts`) | lease (owner, token, expiry), event journal, cancellation request | claim, renew, release, append, follow, reconcile, cancel | expiry while the owner works, heartbeat failure, reconcilers, sequences allocated before they are inserted | one attempt executes, one end and nothing behind it, no producer under a lost lease, followers of an ended run stop |
| **Scheduling** (`core/src/scheduling`, `node/src/scheduling`, `server/src/services/schedules.ts`) | schedule (status, cursor, revision), runs keyed by occurrence, leases | materialize, claim, start, complete, skip, release; create, pause, resume, delete, trigger | several workers; crash between the page of runs and the cursor; lost leases; handlers that throw | every occurrence has its run, the newest attempt decides it, every open run settles |
| **Client tools, receipts, loop engine, channels, memory, steering, sandbox leases, interfaces** | per session or per run | | | see section 5 |

**How they interact.** The supervisor and the runners never call each other
after the spawn: both read and write rows. Users and monitors call the task
manager in the supervisor's process (or in another server on the same store),
which writes rows and may signal a runner. The assessment runs inside
`collectResults`, under the reference captured with the Run; the escalation
manager intercepts its last failure (hook `task:fail`), still inside that call, and
later acts from its timers. Deadlock
resolutions and SLA checks are started by a tick and not awaited. Approvals sit
in the dispatch (`authorizeTaskDispatch`) and in the assessment
(`transitionToDone`), and use the same transaction of the store. The tick asks
the Missions for each queued Task whether it may start, and lets them settle what
has ended; calls of the Mission API run in the same process, between the awaits
of the tick, and share its objects. A delivery is
entered from a request of the HTTP API and knows nothing of Tasks; its readers
reconcile it. A schedule worker hands a run to a handler and waits for it.

## 2. Modules

| Module | Models |
|---|---|
| `TaskStore` | the rows and every operation on them, as operators over `tasks`, `runs` |
| `TaskAttempts` | the abstract specification: exclusive attempts, one generation each |
| `TaskClients` | the store under arbitrary callers with copies of any age |
| `TaskStoreProofs`, `TaskClientsProofs` | the theorems about it |
| `AgentRunner` | the runner process of each Run |
| `Assessment` | the decision on a collected result |
| `DeadlockResolver` | dependencies and the background resolution |
| `Supervisor` | recovery and the tick, one step per await, and the SLA check beside it |
| `TaskLifecycle` | all of them composed, with users, reassessments and crashes |
| `TaskLifecycleProofs` | the theorems about it and about the modules it is composed of |
| `TaskMonitors` | the SLA check and a reassessment, writers without a reference |
| `Escalation` | levels, timers and calls of the escalation, composed with `TaskMonitors`, users and a crash of the host, over `TaskStore` |
| `EscalationProofs` | the theorems about them |
| `TaskApprovals` | gates, batches of requests, consent and timers, over `TaskStore` |
| `TaskApprovalsProofs` | the theorems about it |
| `DurableRun` | the abstract specification of a delivery: one producer, one outcome |
| `RunDelivery` | leases, heartbeats, journal, reconcilers, cancellation, followers |
| `RunDeliveryProofs` | the theorems about it |
| `ScheduleStore` | a schedule, its runs and their leases |
| `Scheduling` | workers and the schedule service over that store |
| `SchedulingProofs` | the theorems about it |
| `Missions` | executions of a Mission, their gates, settlement, cancellation, resumption, restart, over `TaskStore` |
| `MissionsProofs` | the theorems about it |
| `MCTaskClients`, `MCTaskLifecycle`, `MCEscalation`, `MCTaskApprovals`, `MCRunDelivery`, `MCScheduling`, `MCMissions` | instances for TLC |

`TaskStore <- TaskClients <- TaskClientsProofs`, and
`TaskStore <- {AgentRunner, Assessment} <- DeadlockResolver <- Supervisor <- TaskLifecycle <- TaskLifecycleProofs`, where `Supervisor` also extends `TaskMonitors`;
`TaskStore <- TaskMonitors <- Escalation <- EscalationProofs`, `TaskStore <- TaskApprovals <- TaskApprovalsProofs`, `TaskStore <- Missions <- MissionsProofs`, `RunDelivery <- RunDeliveryProofs`, where `RunDelivery` implements `DurableRun`,
`ScheduleStore <- Scheduling <- SchedulingProofs`.

**State.** `tasks[t]` and `runs[r]` are the rows reduced to the fields a guard
reads: `revision` is `executionRevision` (on a Run `taskExecutionRevision`),
`active` is `activeRunId`, `collected` is `collectedAt`. A row that was deleted
keeps its last generation under the status `deleted`, so that a captured copy of
it can be compared. `rounds` holds `fixAttempts` and `questionRounds`, `deps`
holds `dependsOn`, `absorbed` holds `resolutionAttempts`. `proc[r]` is the phase
of the process of Run `r`, `pid` the Runs whose row records a process id,
`overdue` the Runs that a health check would kill. `sup[s]` is the stack frame of
supervisor `s`: the phase, the listing of the tick (`snap`, `deps`), what is
left of the list being walked (`todo`), the attempt at hand. `resolver[s]` is the
same for its background resolution, `sla[s]` for its SLA check: what is left of the
listing, and the Tasks it has reported (`violated`). `reassess[q]` is a
reassessment request. `overruled` is a history variable: where a deadline or a
reassessment settled a Task within a generation or changed the end it had met. The
SLA check lists in every tick: that it is throttled means that its writes come late.

In `Escalation`, `level` is `taskLevels`, `timer[t]` the armed timeout with the
reference its level published, `call[c]` one pending call of `escalate`,
`advanceLevel`, `finalFail` or of a fired timer, with the reference it captured and
whether the hook waits for it (`hook`) or an outer level does (`nested`). `loop` is
the supervisor, reduced to the result at hand. `sla` is the monitor of the host. `held` is a history variable: a person has
spoken last.

In `TaskApprovals`, `authority[t]` is `approvalState`, `requests[b]` one batch
with its binding (hook, input, and `world`: the agent and the gates of that
time), `dispatch[r]` the authorization under way, `consent[r]` a history variable (the batch that the
agent of `r` was started on, and what it runs with), `mind[d]` what a user or a
timer has read before it writes, `timers` the armed ones. In `RunDelivery`,
`lease` is the row with its expiry reduced to live or not, `events` the journal
by sequence, `last` the allocator, `proc` the position of attempts, heartbeats
and reconcilers, `flag` the local variables of `executeOwnedRun`. In `Scheduling`,
`schedule` and `runs` are the rows, `current` those who know the present
`revision`, `worker[w]` one tick with its clock, page and queue; the attempt
number of a run stands for its lease token. In `Missions`, `mission` is the row
and `receipts` the table of accepted executions, each named after the call that
was admitted; `prepared`, `gating` and `cleaned` are the engine's
`preparedExecutions`, `cpState`/`delayState` and `cleanedGroups`, lost in a crash,
while `saved` is what the checkpoint and delay stores hold; `tick`, `call`,
`abort`, `resumption` and `unpause` say how far each concurrent activity has come
and what it has captured.

**Steps.** An operation of the store is one action, because it is one transaction
or one conditional UPDATE (`withTaskExecutionTransaction`, `completeRun`). An
operation whose guard is false is a rejection and changes nothing; the caller's
reaction (swallow, skip, abort the tick) is part of the caller's action. Between
two awaits of a supervisor there is one action. Consecutive reads that only feed
a write under the same fence are merged with that write: if anything they read
had changed, the fence of the write would reject it, and the model takes the
rejection branch.

**Verdicts.** What an agent, a reviewer, a hook or a model answers is a
disjunction. The order in which a listing is walked is arbitrary, and so is which
of several failed dependencies the resolver meets first; the code fixes an order,
the model allows all.

**Abstractions to keep in mind.**
- A captured row is compared on the modelled fields, the code compares the whole
  row: the model accepts more, never less.
- `NewRun` picks a fixed unused identity; identities are interchangeable.
- Supervisors share a host, so a process id means the same to both. The comment
  on recovery (`task-runner.ts:642-643`) counts on other supervisors.
- A process id is never reused.
- All Tasks have the same `maxRetries`; per-agent limits are left out,
  `maxConcurrency` is modelled.
- Without missions there are no checkpoints, delays or quality gates; without
  the approval coordinator a Task in `awaiting_approval` waits (`TaskLifecycle`);
  what gets it out is `TaskApprovals`, where in turn supervisor and agent are
  reduced to the statuses they lead to.
- `RunDelivery`: `release` compares owner and token and not the expiry, as the
  code does. The heartbeat ends once it has seen a cancellation, so the lease of
  a slow producer may then run out. A store is either one whose `append` is one
  step (`InMemoryRunEventStore`) or SQL, where the sequence and the event are two
  statements (`DrizzleRunEventStore`). Followers are those of a host that wires
  all the stores of a delivery.
- `Escalation`: supervisor, agent and assessment are reduced to claim, end,
  acceptance and exhaustion; a Task has no retries of its own left. An agent level
  without a target, a missing agent and a missing model are one choice, the skip. A
  store error other than a refusal is left out.
- `Scheduling`: time counts in occurrences; two occurrences are one unit apart
  and a manual trigger falls between them. One schedule.
- `Missions`: one Mission whose plan has at most one gate. Supervision, agents and
  assessment of a claimed Task are one step (`Work`); the background resolution of
  deadlocks is its last resort, the conditional cancellation. Executions compare
  the captured Mission on status and counter, the code on the whole row, so it
  refuses more. A tick whose slots are used up is one for which no Run is left.
  The save of a gate is one step with the change in memory, except in `removeGroup`,
  where `SharedState` tells the stores that edit the state in place (file, memory)
  from the database, which saves a copy.
- Drafts exist in `TaskClients` only; `TaskLifecycle` starts from a seeded project.

## 3. Properties and runs

Every property has a mutant: a variant of a definition of the code model, named
`Definition_Variant` and marked in the modules, under which TLC finds the
property violated.

| Run | Instance | Checks | Distinct states |
|---|---|---|---|
| `store_clients` | 1 Task, 2 Runs, 2 callers, 4 generations | `TypeOK`, `OwnerAgrees`, `NoReferenceReuse`, `ImplementsAttempts` | 1.2 M |
| `lifecycle_core` | 1 Task, 2 Runs, one retry, one fix, every veto, deadline, kill, delete, manual retry, one crash | `LifecycleInv`, `RetryBudget`, `CompletionIsAssessed` | 3.9 M |
| `lifecycle_rivals` | 2 supervisors, 1 Task, 2 Runs, one question, one crash | `DoneByNewestRun`, `AcknowledgedIsDecided` | 3.5 M |
| `lifecycle_graph` | 2 Tasks, one waiting for the other, which has a deadline and is reassessed once; one resolution | `RetryBudget`, `DependenciesDone`, `DeadlockIsReal`, `AbsorbedWorkFailed` | 3.5 M |
| `lifecycle_live` | 2 Tasks in a chain, one crash, fairness | `Settles`, `SupersededStops` | 0.3 M |
| `escalation` | 1 Task, 2 Runs, 2 policies, SLA monitor, one decision of a person or one reassessment, one crash, fairness | `EscalationInv`, `PeopleDecide`, `ResultsAreDecided`, `HangIsCutShort` | 0.6 M |
| `run_delivery` | 2 attempts, a reconciler, a follower, a cancellation, two faults, both stores, fairness | `DeliveryInv`, `OutcomeIsLast`, `ImplementsRun`, `StartedRunsEnd`, `FollowersStop`, `CancellationArrives` | 1.0 M |
| `task_approvals` | 1 Task, 3 Runs, 2 batches of two gates, a user, an edit, a reload, a crash, fairness | `ConsentIsForThisRun`, `ApprovalsInv`, `DoneIsApproved`, `TimeoutsDecide` | 0.6 M |
| `scheduling` | 2 workers, 2 occurrences, one trigger, three policies, one call or fault, fairness | `TypeOK`, `NothingDropped`, `ConcurrencyCap`, `OverlapNeedsStall`, `DecidedByNewest`, `RunsSettle`, `DueRuns` | 0.6 M |
| `missions` | 2 calls of executeMission, 2 Tasks and a gate between them, 3 Runs; one retry, cancellation or resumption, one crash, fairness | `MissionInv`, `CancelIsFinal`, `HeldUntilReleased`, `Settles` | 1.3 M |
| `finding_side_effects` | 1 Task with side effects | `SideEffectsAwaitHuman`, violated | |
| `finding_checkpoint` | 2 executions of a recurring Mission, the database's stores | `HeldUntilReleased`, violated | |

`LifecycleInv`, `DeliveryInv`, `ApprovalsInv`, `EscalationInv` and `MissionInv` are
each the type invariant of the module together with the named invariants below
(`SettledMeansStopped`; `LiveOwnerIsSpared`; `WaitingIsAnswerable`;
`HandledIsDecided`; `AdmittedOnce`, `CompletedMeansDone` and `CancelledIsIdle`).

What the properties say:

- **`OwnerAgrees`**: a Task and the Run it names agree. The store throws
  `task_execution_invalid` on a pair that disagrees; the property says that no
  sequence of calls produces one.
- **`NoReferenceReuse`**: whoever holds a copy with the current generation holds
  the current owner. `transition` and `unsafeSetStatus` compare the generation and
  not the owner; this is why that is enough.
- **`ImplementsAttempts`**: the store implements exclusive attempts. (That the
  first outcome wins, that generations only grow and that a running Run is owned
  are parts of the proof, section 4.)
- **`DoneByNewestRun`**: a Task that is done was completed by its newest attempt,
  unless a reassessment declared it done.
- **`SettledMeansStopped`**: nothing runs behind a Task reported done or failed, with
  two exceptions. The SLA check with `violationAction: "fail"`, which each tick may
  start (`orchestrator-engine.ts:388`), and a passed reassessment write the status
  only (`sla-monitor.ts:110`, `task-manager.ts:227-231`): an attempt under way goes on
  behind a Task they have settled, until it ends by itself. The property says that
  nobody else leaves one behind: user, health check, assessment, recovery, resolution.
- **`RetryBudget`**: recovery, fixes, questions, vetoes and the resolution of
  deadlocks never exceed the allowance plus what people asked for.
- **`CompletionIsAssessed`**: a completed result that is still to be collected is
  thrown away only by its own assessment.
- **`AcknowledgedIsDecided`**: once a result is acknowledged, its Task does not
  wait for it, unless it was deleted meanwhile. (It holds without vetoes; a completion hook that vetoes leaves the
  Task in review on purpose, for a person.)
- **`DependenciesDone`**: readiness is decided on a listing, and true when it
  matters: what a running Task depends on is done, unless the SLA check or a failed
  reassessment took its completion back (`sla-monitor.ts:110`, `task-manager.ts:246`),
  to which neither dispatch nor the running Task reacts. The exception is the record
  of that write, and nothing else may undo a completion.
- **`DeadlockIsReal`, `AbsorbedWorkFailed`**: decisions about blocked Tasks only
  act on a deadlock that still exists, and only failed work is ever absorbed.
- **`Settles`, `SupersededStops`**: everything ends, although agents may hang.
- **`HandledIsDecided`, `ResultsAreDecided`**: the hook has blocked the failure, so
  the escalation must decide. No result is acknowledged while its Task waits for it,
  and none stays in review: not behind a level that is skipped or refused, not at the
  end of the policy, not after a crash.
- **`PeopleDecide`**: what an escalation learned before it waited does not move a Task
  that a person has killed or that waits for one. (The SLA monitor may: see below.)
- **`HangIsCutShort`**: an agent that hangs on what a timed level has queued is
  stopped by the timeout, unless the host dies with the timer.
- **`ImplementsRun`**: a delivery admits one attempt at most, never after its run
  has ended, and ends once. **`LiveOwnerIsSpared`**: while the owner that holds
  the lease works, nobody else ends its run.
- **`OutcomeIsLast`**: the outcome that a run's only attempt writes is the last event
  of the journal, with either kind of store. The attempt drains its heartbeat before
  it decides, and a reconciler writes under the lease, on a look at the journal; if
  either were left out, a follower could be past the outcome when it appears, or the
  journal would go on behind its end.
- **`FollowersStop`**: followers of an ended run stop, over the SQL store where the
  run's only attempt has written the outcome. **`StartedRunsEnd`**: a started run ends
  although its owner dies; this one is stated for a store whose `append` is one step.
  What the SQL store does not give: with two statements a chunk or a cancellation of
  one writer may become visible before an earlier event of another, so a follower may
  miss it, and so with the outcome where a second attempt (a continuation that is
  recorded late, an owner that lost its lease) writes beside it; and an attempt that
  dies between the statements for event 1 leaves a history that no reader accepts.
- **`CancellationArrives`**: a cancellation reaches a producer that still works.
- **`ConsentIsForThisRun`**: what starts was approved for this input, this agent
  and these gates, by a batch that starts no other Run. **`DoneIsApproved`**: a Task with completion gates is done only
  with the consent of all of them. **`WaitingIsAnswerable`**: a Task that
  waits, and was not edited since it was asked about, has an open request that a
  decider who looks now may decide, and no answer given so far stands in the way; two
  approvals that do not see each other would leave a batch without either. Of a Task
  that is edited while it waits this is not true: the binding to its input makes every
  answer a conflict and each timer drop its request (`task-approval-coordinator.ts:52`,
  `:68-80`), and only a person who kills the Task or queues it again ends the wait. **`TimeoutsDecide`**: a batch whose open
  requests have timeouts ends, over conflicts and crashes.
- **`NothingDropped`, `DueRuns`**: the cursor of a schedule passes no occurrence
  without a run, and what is due gets its run. **`ConcurrencyCap`**: never more
  live leases than `maxConcurrency`, although workers count before they claim. **`OverlapNeedsStall`, `DecidedByNewest`**: two handlers on one run need a
  lost lease, and then only the newest attempt decides. **`RunsSettle`**: the runs
  of a schedule that stays active end.
- **`MissionInv`**, beside the types. `AdmittedOnce`: a key is executed
  once, however often it is sent, and each execution has a number of its own.
  `CompletedMeansDone`: what settlement decided on a listing is true of the Tasks.
  `CancelledIsIdle`: no agent works for the execution of a cancelled Mission,
  although a tick may have found its Tasks ready before.
- **`CancelIsFinal`**: only a new execution or a resumption ends a cancellation;
  cleanup that read the Mission before does not schedule it again.
- **`HeldUntilReleased`**: what a gate blocks starts after a release, not because of
  a restart, of a deadlock or of the cleanup of another execution.
- **`Settles`** (Missions): a Mission whose Tasks have ended does not stay active,
  over conflicts, retries and a crash at any step of the cleanup.

**Bounds and why they are enough.** `Runs` bounds the attempts: two are needed
for a stale reference to meet a newer attempt, three for one that was retried and
fixed or recovered meanwhile. A dispatch waits when no identity is left
(`RunsLeft`); the liveness runs have as many as their Tasks can use up.
`MaxRevision` is 2^31 - 1 in the code; the store run reaches it (4), the
lifecycle runs stay below it. `MaxManual` bounds the retries people ask for,
`MaxFaults` crashes: one of each already meets every phase of the supervisor and
of the runner. One Task is enough where Tasks do not interact; two give a
Task that waits for another, which has been taken up again when the decision about
the first one comes. One reassessment and one deadline, each at any step, are enough
to settle a Task behind whom an attempt works and to take a completion back below one
that executes; what takes a failed Task up again in the graph run is a reassessment, in
the core run a user. `SYMMETRY` is used for identities
in the store run and for the two supervisors in the rivals run, whose properties
are invariants and action properties.
In `Escalation` two Runs are the exhausted attempt and the one a level has started;
two calls are a hook and a timer; one policy walks from model over agent to person,
the other ends after one level.
Two attempts and a reconciler are what a lease can be contested by; two faults
let the second hit what recovers from the first. An attempt begins with a token of its own
(`NewAttempt` takes the first unused one). Two gates make siblings, two
batches a consent that is out of date. A start with consent takes two Runs, the one that
is suspended and the one that is granted the batch; the third is the successor after a recovery,
which must ask again. Fresh identities are interchangeable, so the model takes the first unused one. Two workers, two occurrences and a page of
either size let one worker overtake another between page and cursor.
Two calls make two executions of a recurring Mission or a repeated key; two Tasks
with a gate between them make one Task that waits and one that is waited for;
three Runs serve both Tasks and a retry; one request of a person and one crash
meet every step of tick, cleanup and call. A cancellation *and* a retry of the
same execution are beyond that bound.
`PromptTerminal` is an assumption about time: a terminal event is written within
the lease that was renewed for it (30 s, 10 s for a reconciler). Without it an
owner that sleeps for the whole lease between the renewal and the append could
end a run a second time; the journal has no fence of its own.
`CHECK_DEADLOCK FALSE` because a settled project, an ended run and a finished
schedule stop by design.

**Fairness.** `WF(Supervises(s))`: `runLoop` ticks again after every wait and
after every error, and a crashed supervisor is restarted. `WF(Resolves(s))`: the
call of the model returns or throws. `WF(RunProcess(r))`: a process that is not
stopped executes its next step; this excludes `Finish`, so an agent may work for
ever. `WF(Time(r))`: clocks advance, so a timeout is eventually noticed. Nothing
forces a user to act or a crash to happen. In `RunDelivery` live processes take
their next step, an unattended lease expires and readers poll; producers may work
for ever (`StartedRunsEnd` says: if they return). In `TaskApprovals` armed timers
fire and conflicts are retried (`startTimer` backs off and tries again), and a
host that died is started again. In `Escalation` the host is restarted, the supervisor goes on, the store and the
model answer each call, and timers fire. In `Scheduling` workers poll again whatever a
tick threw (`scheduleNextPoll`), handlers return, and a lease that nobody renews
expires. In `Missions` only the engine is fair, `WF(Ticks)`, restart included
(`runLoop`); agents, people and delays need never move.

**Findings.** Two sentences of the repository that the code does not keep:
1. `core/src/types/task.ts:165-166` promises that a Task with side effects is not
   executed again without approval; the answer to a question does it.
2. `mission-executor.ts:343-344` says that the accepted definitions are restored
   before any Task can be dispatched. Over the database, `removeGroup`
   (`mission-gating.ts:78-82`) saves a copy of the gates without the ended
   execution, and the engine takes the copy over after the save; what
   `executeMission` has defined meanwhile for the next execution is lost, and
   `preparedExecutions` keeps it from being restored. Its checkpoint is not
   enforced. Resumptions and other Missions share the same object.

Observations that no run is spent on:
- `sla-monitor.ts:111` expects a write to a settled Task to fail; the write goes
  through, because the generation of a Task does not change when it is done, and a
  Task that was completed after the monitor's listing turns to failed, under the
  Tasks that depend on it and may be executing. A Task that the check fails while its
  agent works keeps that agent. Both are exceptions of `SettledMeansStopped` and
  `DependenciesDone`, and happen in the runs `lifecycle_core` and `lifecycle_graph`.
- `drizzle/src/stores/task-store.ts:355-357` asks callers that process a specific
  attempt to pass its reference; `reassessTask` does not, and may move an attempt
  that was started after the request.
- `escalation-manager.ts:20` says that the last level creates an approval request.
  `escalateToHuman` only emits `approval:requested` with an id that no store knows, so
  an approval of it finds nothing; the Task leaves `awaiting_approval` by a PATCH of
  its status or a kill.
- A Task that fails again is escalated to the level it has reached, and `startTimer`
  starts its timeout afresh: only a timeout or an unavailable level leads to the next
  one, so a Task that keeps failing quickly stays at a model's level for ever.
- `dispose` leaves the hook of the escalation registered
  (`escalation-manager.ts:387-393`): after a reload of the configuration the manager
  of the old policy still intercepts first.
- A Task that the SLA monitor fails while its result is judged is queued again by an
  agent or orchestrator level, because a requeue accepts a failed Task.
- The pause and the unpause of a checkpoint (`mission-gating.ts:152-154`,
  `:194-196`) compare nothing. A late one overwrites a cancellation, after which
  cleanup settles or reschedules the cancelled Mission; activates a Mission that
  was cleaned already, until the next restart; or leaves a Mission paused without
  a checkpoint, whose queued Tasks the deadlock check then fails
  (`orchestrator-engine.ts:461-464`). A crash between the save and the unpause does
  the latter too. Hence `CancelIsFinal` and `Settles` exclude checkpoints.
- A Mission whose held Task is failed or cancelled one by one while it is paused is
  cleaned without being settled, and stays paused.
- The release of a historical execution's checkpoint by its group pauses or unpauses
  the newer execution, because both address the Mission (`mission-gating.ts:193`).
- A cancellation followed by a crash before the cleanup leaves the active checkpoint
  of the cancelled execution saved: restart takes the execution for cleaned, and an
  active checkpoint switches deadlock detection off for all Tasks
  (`orchestrator-engine.ts:462-464`).
- Over plain SQL the journal allocates and inserts in two statements
  (`run-delivery-store.ts:66-76`), with the consequences above.
- A PATCH of a Task that waits for approval makes each answer a conflict and each
  timer drop its request (`task-approval-coordinator.ts:52`, `:68-80`).
- `ApprovalManager.init` sets `initialized` first; a store error while it decides
  an expired request leaves the later requests without timers
  (`approval-manager.ts:58-81`). The model's `Restart` arms them all.
- A one-time schedule is completed after its run, in another call: a crash or a
  conflict in between leaves it active, its cursor set and cleared in turns
  (`local-schedule-driver.ts:392-394`, `:216-224`).
- The run of a manual trigger completes a one-time schedule before its time.
- A handler that reports `skipped` for a run it has started is refused
  (`state-machine.ts:17`), and the run is dispatched again by every tick until its
  grace is over.
- Leases are dated from the start of the tick (`local-schedule-driver.ts:355`): after a
  handler longer than the lease the next claim throws and ends the tick
  (`ClaimTooLate`).

## 4. Proofs

`TaskStoreProofs` and `TaskClientsProofs` prove, for any sets of Tasks, Runs and
clients and any `MaxRevision`:

| Theorem | Statement |
|---|---|
| `TypeCorrect` | `Spec => []TypeOK` |
| `OwnersAgree`, `RunningOwned`, `PendingUnowned`, `ExclusiveExecution` | the invariants of the rows |
| `ReferencesAreUnique` | `Spec => []NoReferenceReuse` |
| `OutcomesAreFinal`, `GenerationsFence` | the action properties |
| `AttemptsImplemented` | `Spec => Attempts!Spec`, the refinement |

`TaskLifecycleProofs`, for any finite sets of Tasks and Runs, any supervisors,
dependencies, limits, hooks, deadlines, reassessments, requests of people and crashes:

| Theorem | Statement |
|---|---|
| `LifecycleTyped` | `Spec => []TypedInv`: types, the rows, what each program holds at each step |
| `LifecycleKept` | `Spec => []LifeInv`, the invariant of the rows and of the budget |
| `SettledIsStopped` | `Spec => []LifecycleInv` |
| `DoneIsEarned`, `RetriesBudgeted` | `Spec => []DoneByNewestRun`, `Spec => []RetryBudget` |
| `WorkIsAssessed` | `Spec => CompletionIsAssessed` |
| `AcknowledgedAfterDecision` | `~CompleteVeto /\ ~FailVeto` gives `Spec => []AcknowledgedIsDecided` |
| `OnlyFailedIsAbsorbed`, `DeadlocksAreReal` | `Spec => AbsorbedWorkFailed`, `Spec => DeadlockIsReal` |
| `FinishedWorkBelow` | what a running Task depends on is done, deleted, or was done until a deadline or a reassessment took that back |
| `DependenciesFinished` | if no dependency may be deleted, `Spec => []DependenciesDone` |
| `LifecycleAttempts` | `Spec => Attempts!Spec`, the refinement, for the whole system |

`RunDeliveryProofs`, for any attempts, reconcilers, followers, cancellations, faults
and both kinds of store:

| Theorem | Statement |
|---|---|
| `DeliveryTyped` | `Spec => [](TypeOK /\ Tidy)` |
| `DeliveryKept` | `PromptTerminal` gives `Spec => []IInv`, the strengthened invariant |
| `LiveOwnersSpared` | `PromptTerminal` gives `Spec => []DeliveryInv` |
| `OneProducerOneOutcome` | `PromptTerminal` gives `Spec => ImplementsRun`, the refinement of `DurableRun` |
| `OutcomeComesLast` | `PromptTerminal` gives `Spec => []OutcomeIsLast` |

`EscalationProofs`, for any policies, number of calls under way, monitored Tasks, reassessments,
decisions of people and crashes:

| Theorem | Statement |
|---|---|
| `EscalationKept` | `Spec => []IInv`, the strengthened invariant |
| `ExhaustedIsDecided` | `Spec => []EscalationInv` |
| `PeopleHaveTheWord` | `Spec => PeopleDecide` |
| `EscalationAttempts` | `Spec => Attempts!Spec`, the refinement |

`TaskApprovalsProofs`, for any Tasks, gates, batches, timeouts, users, edits, reloads and crashes:

| Theorem | Statement |
|---|---|
| `ApprovalsKept` | `Spec => []IInv`, the strengthened invariant |
| `ConsentIsBound` | `Spec => []ConsentIsForThisRun` |
| `WaitingCanBeAnswered` | `Spec => []ApprovalsInv` |
| `CompletionIsApproved` | `Spec => DoneIsApproved` |
| `ApprovalsAttempts` | `Spec => Attempts!Spec`, the refinement |

and `SchedulingProofs`, for any workers, triggers, horizon, policies, grace and
`MaxConcurrency`:

| Theorem | Statement |
|---|---|
| `TypeOKHolds` | `Spec => []TypeOK` |
| `ConcurrencyCapHolds` | `Spec => []ConcurrencyCap` |
| `OverlapNeedsStallHolds`, `DecidedByNewestHolds` | who may work on a run, and who decided it |
| `NothingDroppedHolds`, `CursorAdvancesHolds` | no occurrence is lost, the cursor does not go back |

and `MissionsProofs`, for any plans, Tasks, dependencies and gate, and any number of
calls, requests of people and crashes:

| Theorem | Statement |
|---|---|
| `Inductive` | `Spec => []IInv`, the strengthened invariant |
| `MissionsTyped` | `Spec => []TypeOK` |
| `MissionsSettled` | `Spec => []MissionInv`: admission, settlement, cancellation |
| `CancellationIsFinal` | `Spec => CancelIsFinal` |
| `GatesHold` | `SharedState /\ GateOrder /\ Spec => HeldUntilReleased` |

Assumptions: `NoTask` is no Task, `NoRun` is no Run, `MaxRevision` is a natural
number; for the lifecycle, that Tasks and Runs are finitely many (`SupervisorAssumption`:
the tick counts what runs, and a cycle is found by the size of a graph), that limits
are numbers and that `DependsOn` names Tasks; for a delivery, that a
heartbeat is neither an attempt nor a reconciler (`BeatAssumption`); for escalation, that a policy has a
level (a policy without levels intercepts nothing, `escalation-manager.ts:44-45`, and is no escalation to speak of)
and that the SLA monitor watches Tasks (`EscalationAssumption`, `MonitorsAssumption`); for approvals, that
users are no timers and `NoBatch` is no batch (`ApprovalAssumption`); for schedules, `StoreAssumption` and `SchedulingAssumption` (positive
horizon and concurrency, identities that differ, finitely many triggers). The
number of workers is not bounded; neither is it assumed that they are fair. For
Missions, `MissionsAssumption` (the shape of the plan). `GatesHold` assumes two
things more. `SharedState`: the stores of the gates edit the engine's state object,
as the file and memory stores do; over a store that saves a copy, what is defined or
released during the cleanup of another execution is lost (the second finding).
`GateOrder`: what a gate waits for is among the dependencies of what it blocks. The
code relies on it ("checkpoint not reached, don't block (deps will block
naturally)", `mission-gating.ts:137`), though the schemas of the document do not ask
for it (`server/src/schemas.ts`): a Task listed in `blocksTasks` without those
dependencies may start before its gate is reached.

Three theorems of the lifecycle have hypotheses that the code justifies and that are
needed. A completion or failure hook that vetoes leaves a Task in review behind an
acknowledged Run, by design; hence `~CompleteVeto` and `~FailVeto`. A dependency that
`clearTasks` deletes counts as finished for those who wait for it, so the stronger form
of `FinishedWorkBelow` asks that none be clearable. `PromptTerminal` is explained above
with the bounds: without it TLC shows a second end.

The inductive invariant `IInv` of `TaskClientsProofs` is `StoreInv` (types, `OwnerAgrees`,
`RunningIsOwned`, a queued Task is free, `RowsAreRooted`), the type of the copies,
and `NoReferenceReuse`. `RowsAreRooted` says that
every stored Run names a Task and that a Task that was never stored owns nothing; the
creation of a Task could otherwise adopt an attempt. `NoReferenceReuse` is needed because
`transition` and `unsafeSetStatus` compare the generation only: the step is an
orderly one just because the copy with that generation names the right owner.

The argument has two layers. Every operation with a true copy is one of five
*effects* on the rows (write a status, claim, end an attempt, decide an outcome,
mark a Run), `StoreEffect`. Each effect preserves `StoreInv`, never replaces an
outcome, changes the owner only with the generation, and maps to a step or a
stutter of `TaskAttempts`: `GoodStep`. The client module then only has to show
that its actions are effects (`StepIsEffect`) and that its copies age correctly
(`CopiesAge`). The lemmas about effects do not mention clients; the lifecycle uses
them again.

The lifecycle has a vocabulary of effects of its own on top (`LifeEffect`): a row is
taken into review, concluded from the result of the attempt it names, rerun within an
allowance, suspended, cancelled, deleted, claimed from a listing, given a status by a
deadline or a reassessment (`Imposes`), or a Run is completed or acknowledged. `StepIsLifeEffect` shows once, action by action, that nothing else
happens; the invariants are then kept effect by effect. `TypedInv` says what each
supervisor, resolver and runner holds at each of its steps. `RowsInv` says that a settled Task
has stopped its attempts or is recorded in `overruled` (`SettledInv`), that the attempts of a Task differ in their
generation and none is ahead of it (`GenerationInv`), and that a done Task was earned
by the completed Run of the highest generation or declared by a reassessment (`EarnedInv`); with it an assessment of
an older attempt meets a generation that has moved on. `RetryBudget` is inductive with
`TypedInv`. `AckInv` follows a result from the decision to its acknowledgement: a
supervisor about to acknowledge, or recovering an acknowledged Run, has a decided Run at
hand. `GraphInv` is about listings of any age: a listing is faithful (`Faithful`: same
generation means same dependencies, what was done in it is done, deleted or on record
as taken back), what a tick plans to
spawn was queued and ready in it (`Planned`), and a deadlock is looked for only when
nothing in it was ready or under way (`Quiet`). Why a decision on a deadlock
is then right: a Task that changed since is fenced by its generation, and Tasks that
each wait for another of them contain a cycle, found at the one with the fewest
transitive dependencies (`WaitingTasksCycle`, by the well-order of the naturals); that
is where the finiteness of `Tasks` is needed.

Leases do not exclude by themselves: one lapses under its holder, who goes on. `LeaseInv`
says what does: a holder that works, past the look at the journal that follows its claim,
sees a run that nobody has ended; a holder on its way to the first producer sees one to
which nobody was admitted; who writes an outcome holds its lease. The lease is looked at
again before each of these, and a lost lease is never live again for the same claim.
`Tidy` carries what the programs remember: nothing beyond a write, and a reserved
sequence is reserved once and not in the journal. That nothing comes behind the outcome
(`OutcomeComesLast`) is a matter of three writers: `PairInv` says that the heartbeat of an attempt
rests before the producer starts and after it was drained, and that reconcilers only interrupt;
`LastInv`, that the sequence reserved for the only attempt's outcome is above all others and
that this attempt writes nothing after it. A reconciler that could write beside it has, by
`LeaseInv`, seen a run without an outcome under a lease that it still holds, and the attempt then
does not hold its own.

What keeps a slow escalation from overruling a person is an order on generations. `RefsPast`: a
reference that a call or an armed timer keeps is never ahead of its Task. So whoever opens a
generation, as a kill, a retry or an answer does, leaves all those references behind, and they are
refused from then on; `HeldIsLeft` says so of every Task on which a person has spoken last, and is why
`PeopleDecide` holds although most writes of the escalation compare the generation only. The
second half is the hook: the supervisor acknowledges a Run after `task:fail` has returned,
and `HookInv` follows the call it waits for through its levels until it has moved the Task or
found that somebody else did. `GoodMove` states once what a step may do to rows and references; each
action is shown to be one, and the invariants are kept move by move.

A decision about an approval reads, and commits later under a comparison with everything read.
`MindInv` is therefore about what was read: the request was open, and the Task was waiting for its
batch, which was about the content read. `Fresh` makes that the present at the commit. `AuthorityInv`
says that a batch is the authority of no Task but its own, `WaitingInv` that while a Task waits each
answer is open or an acceptance and one is open, and `ConsentInv` that a batch on which a Run was
started is granted to that Run until its attempt is over. Five moves are all that the steps do to
authorities, batches and consents (`Rests`, `Suspends`, `Answered`, `Settles`, `Started`).

Attempting these proofs corrected the models in four places. `ConsentIsForThisRun` compared the
contents of two batches where it meant the batches; with two Runs TLC could not tell, with more it
shows two consents with the same content after a recovery. `consent` now names the batch, and the
run has a third Run for the successor. In `RunDelivery` the
outcome of an attempt and the step after an append were a `CASE` with overlapping arms,
whose value is not determined (TLC takes the first); they now say which one wins.
`AcknowledgedIsDecided` did not allow for the deletion of a Task that had been decided.
And the finiteness of `Tasks` and `Runs` was used and not assumed.

The invariant of the schedules is built in layers, each of which uses those
below. *Types*: besides `TypeOK` what each worker's tick may hold at each of its
steps (`TypedInv`). *Leases* (`LeaseInv`): a worker's token never exceeds the
attempts of its run; two workers with the same run have different tokens; while
nobody has stalled, a worker that holds a run is its newest attempt and its lease
is live; `DecidedByNewest`. This layer carries `OverlapNeedsStall`. *The cap*
needs only the step of the claim, which counts under the same transaction.
*Pages* (`PageInv`): the page a worker creates lies behind its clock, starts at
the cursor while the worker knows the present revision, and every occurrence
before the one it creates has its run; that is why the compare-and-set of the
cursor may move over the whole page. `NothingDropped` and `CursorAdvances`
follow. TLC checked each layer before it was proved.

The invariant of Missions (`IInv`) is built in layers too. `TypedInv`: types; what
the tick is busy with at each of its steps (`TickShape`); that whatever is prepared,
gated, cleaned or about to be cancelled was admitted (`Rooted`); that a plan without
a gate has none (`Ungated`). `Admission`: sequence numbers are given in order and the
rows of a call that was not admitted are absent. `SnapAge`: the tick's listing is a
past of the rows, a done row stays done, and a row that is still in the listed
generation is still queued if it was; this is what makes it sound that settlement
and dispatch decide on an old listing. `Outdated`: when a Mission is cancelled,
everything the tick has selected from its listing has left the listed generation,
so each claim is refused. The step for `SnapAge` rests on one fact about the store
(`RowsAge`), for which every write is one row (`OneTask`), an admission or a
cancellation (`StoreStep`). `GatesHold` adds `GateInv`: what the engine has prepared
has its definitions, except between the two halves of `removeGroup`, and what it has
found ready is behind no gate or a lifted one.

Only model-checked: all liveness
(`Settles`, `SupersededStops`, `ResultsAreDecided`, `HangIsCutShort`, `StartedRunsEnd`,
`FollowersStop`, `CancellationArrives`, `TimeoutsDecide`, `RunsSettle`, `DueRuns`).
Liveness and ENABLED are beyond the prover.

## 5. Not modelled, and the plan

Not modelled, component by component: client tools and tool receipts, steering,
sandbox leases, memory ingestion. Left out of what is modelled: graceful shutdown
of the supervisor and `fenceTaskDispatch`; a lifecycle tick that finds every Task
terminal returns before it collects, so the last result may stay unacknowledged
(`orchestrator-engine.ts:370`; its Task is settled already); host hooks of a
delivery (`resolveTerminalEvent`, `onTerminal`), retention and paging limits;
gates of other hooks; of escalation, store errors, a policy replaced at run time and
stores without executions; edits of a schedule's timing, several schedules sharing
`maxRunsPerTick`, cron arithmetic and the dispatcher's surfaces; of Missions the
quality gates and thresholds (the threshold is a choice at settlement), volatile
agents, edits and deletion of the document, executions over stores that keep no
receipts, several gates in a plan and several Missions.

What would come next:
1. `TaskApprovals` composed with the lifecycle in place of its silent
   `awaiting_approval`.
2. Several Missions that share the state of the gates, and several gates in a
   plan.

Left out for good: model calls, tools, connectors, the loop engine inside one Run
(sequential), semantic retrieval, the interfaces, examples and benchmarks. What
is external to the repository (agents, providers, operating system) appears as
nondeterminism.
