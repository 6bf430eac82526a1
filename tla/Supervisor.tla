------------------------------ MODULE Supervisor ------------------------------
(***************************************************************************)
(* The supervisors' loop: orphan recovery at start-up, then ticks that       *)
(* collect results, enforce timeouts, detect deadlocks and dispatch ready  *)
(* Tasks (packages/core/src/orchestrator-engine.ts and task-runner.ts).    *)
(* A tick is sequential but every await lets the runners, the users and    *)
(* the other supervisors of the store in, so each await is a step of its   *)
(* own and what was read before it is kept in sup[s]: the Task listing,    *)
(* the listed Runs, the attempt at hand.  The check of deadlines is called *)
(* by the tick and not awaited: it goes on beside it (SlaFail).            *)
(***************************************************************************)
EXTENDS DeadlockResolver, TaskMonitors, FiniteSets

CONSTANTS
  MaxConcurrency,   \* settings.maxConcurrency
  SpawnVeto         \* a task:spawn hook may block a dispatch

\* The store never holds more than finitely many rows.
ASSUME SupervisorAssumption ==
  /\ MaxConcurrency \in Nat
  /\ SpawnVeto \in BOOLEAN
  /\ IsFiniteSet(Tasks) /\ IsFiniteSet(Runs)

VARIABLES
  sup,    \* the loop of each supervisor
  sla     \* the SLA monitor of each supervisor

hostVars == <<sup, sla, resolverVars>>
supVars == <<assessVars, runnerVars, hostVars>>

Phase == {"down", "recoverRuns", "recoverTasks", "idle", "collect", "collecting",
          "judge", "retry", "acknowledge", "health", "checking", "plan", "deadlock",
          "spawning", "prepare", "register"}

Resting(phase) == [pc |-> phase, snap |-> NoSnap, deps |-> NoDeps, todo |-> {}, seen |-> {},
                   task |-> NoTask, run |-> NoRun, slots |-> 0]

SupTypeOK ==
  sup \in [Supervisors ->
             [pc : Phase, snap : [Tasks -> TaskRow], deps : [Tasks -> SUBSET Tasks],
              todo : SUBSET (Tasks \cup Runs),
              seen : SUBSET Runs, task : Tasks \cup {NoTask}, run : Runs \cup {NoRun},
              slots : 0..MaxConcurrency]]

SlaTypeOK == sla \in [Supervisors -> Monitor]

SupInit == sup = [s \in Supervisors |-> Resting("down")]
SlaInit == sla = [s \in Supervisors |-> NoMonitor]

At(s, phase) == sup[s].pc = phase
Becomes(s, rec) == sup' = [sup EXCEPT ![s] = rec]
Goes(s, phase) == Becomes(s, [sup[s] EXCEPT !.pc = phase])
Drops(s, x) == Becomes(s, [sup[s] EXCEPT !.todo = @ \ {x}])
Aborts(s) == Becomes(s, Resting("idle"))     \* runLoop logs the error; the next tick starts anew

RunningRuns == {r \in Runs : IsRunning(r)}
Snapped(s, status) == Listed(sup[s].snap, status)

-----------------------------------------------------------------------------
(* recoverOrphanedTasks                                                    *)

OrphanStatus == {"assigned", "in_progress", "review"}

SeenAlive(s, r) == r \in sup[s].seen /\ Alive(r)

\* The listing of active Runs, with the process ids it returned.
Restart(s) ==
  /\ At(s, "down")
  /\ Becomes(s, [Resting("recoverRuns") EXCEPT !.todo = RunningRuns, !.seen = pid])
  /\ UNCHANGED <<assessVars, runnerVars>>

OrphanRun(s, r) ==
  LET t == runs[r].task
  IN  /\ Exists(t)
      /\ tasks[t].active = r
      /\ tasks[t].revision = runs[r].revision
      /\ tasks[t].status \in OrphanStatus
      /\ ~SeenAlive(s, r)

\* Mutant: recovery counts as a retry.
RecoverRun_CountsRetry(s, r) ==
  /\ At(s, "recoverRuns")
  /\ r \in sup[s].todo
  /\ sup[s].run = NoRun
  /\ IF OrphanRun(s, r) /\ LiveRun(runs[r].task)
       THEN /\ Requeue(runs[r].task, RefOf(tasks[runs[r].task]), TRUE, TRUE)
            /\ Becomes(s, [sup[s] EXCEPT !.todo = @ \ {r}, !.run = r])
       ELSE UNCHANGED storeVars /\ Drops(s, r)
  /\ UNCHANGED <<rounds, runnerVars>>

\* The requeue ends the Run; the acknowledgement that follows is RecoverAck(s).
RecoverRun(s, r) ==
  /\ At(s, "recoverRuns")
  /\ r \in sup[s].todo
  /\ sup[s].run = NoRun
  /\ IF OrphanRun(s, r) /\ LiveRun(runs[r].task)
       THEN /\ Requeue(runs[r].task, RefOf(tasks[runs[r].task]), FALSE, TRUE)
            /\ Becomes(s, [sup[s] EXCEPT !.todo = @ \ {r}, !.run = r])
       ELSE UNCHANGED storeVars /\ Drops(s, r)
  /\ UNCHANGED <<rounds, runnerVars>>

RecoverAck(s) ==
  /\ At(s, "recoverRuns")
  /\ sup[s].run # NoRun
  /\ MarkRunCollected(sup[s].run)
  /\ Becomes(s, [sup[s] EXCEPT !.run = NoRun])
  /\ UNCHANGED <<rounds, runnerVars>>

\* Second pass: the Task listing, where the rows are captured.
ListOrphans(s) ==
  /\ At(s, "recoverRuns")
  /\ sup[s].todo = {} /\ sup[s].run = NoRun
  /\ Becomes(s, [Resting("recoverTasks") EXCEPT
                   !.snap = tasks,
                   !.todo = {t \in Tasks : tasks[t].status \in OrphanStatus}])
  /\ UNCHANGED <<assessVars, runnerVars>>

OwnRun(row) == row.active # NoRun /\ runs[row.active].revision = row.revision

\* Mutant: only a live runner protects the attempt.
KeepsAttempt_LiveOnly(row) ==
  OwnRun(row) /\ IsRunning(row.active) /\ row.active \in pid /\ Alive(row.active)

\* A result that still has to be assessed, or a runner that still works.
KeepsAttempt(row) ==
  /\ OwnRun(row)
  /\ \/ runs[row.active].status \in RunOutcome /\ ~runs[row.active].collected
     \/ IsRunning(row.active) /\ row.active \in pid /\ Alive(row.active)

\* The requeue requires the whole captured row to be unchanged.
RecoverTask(s, t) ==
  LET row == sup[s].snap[t]
  IN  /\ At(s, "recoverTasks")
      /\ t \in sup[s].todo
      /\ IF ~KeepsAttempt(row) /\ tasks[t] = row
           THEN Requeue(t, RefOf(row), FALSE, row.active # NoRun /\ IsRunning(row.active))
           ELSE UNCHANGED storeVars
      /\ Drops(s, t)
      /\ UNCHANGED <<rounds, runnerVars>>

Recovered(s) ==
  /\ At(s, "recoverTasks")
  /\ sup[s].todo = {}
  /\ Becomes(s, Resting("idle"))
  /\ UNCHANGED <<assessVars, runnerVars>>

-----------------------------------------------------------------------------
(* tickOnce: listing, then collectResults                                  *)

ActiveTasks == {t \in Tasks : Exists(t) /\ tasks[t].status # "draft"}

AllTerminal == ActiveTasks # {} /\ \A t \in ActiveTasks : tasks[t].status \in TerminalStatus

\* Nothing is collected, checked or dispatched while every Task is terminal.
TickStart(s) ==
  /\ At(s, "idle")
  /\ \E t \in Tasks : Exists(t)
  /\ ~AllTerminal
  /\ Becomes(s, [Resting("collect") EXCEPT !.snap = tasks, !.deps = deps])
  /\ UNCHANGED <<assessVars, runnerVars>>

\* getTerminalRuns: terminal and not yet acknowledged.
ListResults(s) ==
  /\ At(s, "collect")
  /\ Becomes(s, [sup[s] EXCEPT
                   !.pc = "collecting",
                   !.todo = {r \in Runs : runs[r].status \in RunOutcome /\ ~runs[r].collected}])
  /\ UNCHANGED <<assessVars, runnerVars>>

RunRef(r) == [revision |-> runs[r].revision, runId |-> r]

\* The fenced patch succeeds and the assessment begins.
CollectResult(s, r) ==
  /\ At(s, "collecting")
  /\ r \in sup[s].todo
  /\ Admit(runs[r].task, RunRef(r))
  /\ Becomes(s, [sup[s] EXCEPT !.pc = "judge", !.run = r, !.task = runs[r].task])
  /\ UNCHANGED runnerVars

\* A stale attempt, or a Task settled meanwhile: only acknowledged.
SkipResult(s, r) ==
  /\ At(s, "collecting")
  /\ r \in sup[s].todo
  /\ ~Admits(runs[r].task, RunRef(r))
  /\ Becomes(s, [sup[s] EXCEPT !.pc = "acknowledge", !.run = r])
  /\ UNCHANGED <<assessVars, runnerVars>>

Succeeded(r) == runs[r].status = "completed"

\* The task:complete hook tells the monitor of this process.
Forgets(s, t) ==
  sla' = IF tasks'[t].status = "done" /\ tasks[t].status # "done"
           THEN [sla EXCEPT ![s] = SlaForgets(@, t)] ELSE sla

Judge(s) ==
  /\ At(s, "judge")
  /\ \/ Decide(sup[s].task, RunRef(sup[s].run), Succeeded(sup[s].run)) /\ Goes(s, "acknowledge")
     \/ FixesExhausted(sup[s].task, RunRef(sup[s].run), Succeeded(sup[s].run)) /\ Goes(s, "retry")
     \/ Refused(sup[s].task, RunRef(sup[s].run), Succeeded(sup[s].run)) /\ Aborts(s)
  /\ Forgets(s, sup[s].task)
  /\ UNCHANGED runnerVars

RetryAfterFixes(s) ==
  /\ At(s, "retry")
  /\ \/ Superseded(sup[s].task, RunRef(sup[s].run)) /\ Goes(s, "acknowledge")
     \/ RetryOrFail(sup[s].task, RunRef(sup[s].run)) /\ Goes(s, "acknowledge")
     \/ RetryOvertaken(sup[s].task, RunRef(sup[s].run)) /\ Goes(s, "acknowledge")
     \/ Refused(sup[s].task, RunRef(sup[s].run), FALSE) /\ Aborts(s)
  /\ UNCHANGED runnerVars

AcknowledgeRun(s) ==
  /\ At(s, "acknowledge")
  /\ MarkRunCollected(sup[s].run)
  /\ Becomes(s, [sup[s] EXCEPT !.pc = "collecting", !.todo = @ \ {sup[s].run},
                               !.run = NoRun, !.task = NoTask])
  /\ UNCHANGED <<rounds, runnerVars>>

Collected(s) ==
  /\ At(s, "collecting")
  /\ sup[s].todo = {}
  /\ Goes(s, "health")
  /\ UNCHANGED <<assessVars, runnerVars>>

-----------------------------------------------------------------------------
(* enforceHealthChecks                                                     *)

ListActive(s) ==
  /\ At(s, "health")
  /\ Becomes(s, [sup[s] EXCEPT !.pc = "checking", !.todo = RunningRuns])
  /\ UNCHANGED <<assessVars, runnerVars>>

\* Mutant: the health check signals the process and leaves the Run to it.
CheckRun_SignalsOnly(s, r) ==
  /\ At(s, "checking")
  /\ r \in sup[s].todo
  /\ IF r \in overdue \cap pid THEN MaySignal(r) ELSE UNCHANGED proc
  /\ Drops(s, r)
  /\ UNCHANGED <<assessVars, pid, overdue>>

\* The timeout is only noticed here; a Run that just ended keeps its outcome.
CheckRun(s, r) ==
  /\ At(s, "checking")
  /\ r \in sup[s].todo
  /\ IF r \in overdue THEN CompleteRun(r, "killed") ELSE UNCHANGED storeVars
  /\ IF r \in overdue \cap pid THEN MaySignal(r) ELSE UNCHANGED proc
  /\ Drops(s, r)
  /\ UNCHANGED <<rounds, pid, overdue>>

\* slaMonitor.check() comes next; it is throttled by its own interval, which
\* only puts the writes of SlaFail off.
Checked(s) ==
  /\ At(s, "checking")
  /\ sup[s].todo = {}
  /\ Goes(s, "plan")
  /\ sla' = [sla EXCEPT ![s] = SlaListed(@)]
  /\ UNCHANGED <<assessVars, runnerVars>>

\* The check goes through its listing while the loop and everybody else go on.
SlaFail(s, t) ==
  /\ t \in sla[s].todo
  /\ sla' = [sla EXCEPT ![s] = SlaTaken(@, t)]
  /\ SlaWrite(t)

-----------------------------------------------------------------------------
(* Ready Tasks, deadlock, dispatch: all decided on the listing of the tick *)

\* Mutant: a dependency only has to be over.
Ready_DependenciesOver(s) ==
  {t \in Snapped(s, {"pending"}) : \A d \in sup[s].deps[t] : sup[s].snap[d].status \in TerminalStatus}

Ready(s) ==
  {t \in Snapped(s, {"pending"}) : \A d \in sup[s].deps[t] : sup[s].snap[d].status = "done"}

NothingMoves(s) == Ready(s) = {} /\ Snapped(s, OrphanStatus \cup {"awaiting_approval"}) = {}

\* The blockages of the tick's listing that a model may resolve.
Blockages(s) == Resolvable(sup[s].snap, sup[s].deps)

Deadlocked(s) ==
  /\ At(s, "plan")
  /\ NothingMoves(s) /\ Snapped(s, {"pending"}) # {}

\* The tick ends here while a resolution is under way, or after starting one.
AwaitResolution(s) ==
  /\ Deadlocked(s)
  /\ IF Resolving(s) THEN UNCHANGED resolverVars
                     ELSE /\ Blockages(s) # {}
                          /\ StartResolution(s, sup[s].snap, sup[s].deps)
  /\ Becomes(s, Resting("idle"))
  /\ UNCHANGED <<assessVars, runnerVars>>

PlanDeadlock(s) ==
  /\ Deadlocked(s)
  /\ ~Resolving(s) /\ Blockages(s) = {}
  /\ Becomes(s, [sup[s] EXCEPT !.pc = "deadlock", !.todo = Snapped(s, {"pending"})])
  /\ UNCHANGED <<assessVars, runnerVars>>

\* forceFailCapturedTask: cancelled only if the whole captured graph still holds.
ForceFail(s, t) ==
  /\ At(s, "deadlock")
  /\ t \in sup[s].todo
  /\ IF UnchangedSince(sup[s].snap, sup[s].deps, t)
       THEN Cancel(t, RefOf(sup[s].snap[t]))
       ELSE UNCHANGED storeVars
  /\ Drops(s, t)
  /\ UNCHANGED <<rounds, runnerVars>>

DeadlockHandled(s) ==
  /\ At(s, "deadlock")
  /\ sup[s].todo = {}
  /\ Becomes(s, Resting("idle"))
  /\ UNCHANGED <<assessVars, runnerVars>>

\* The active Runs are counted once, before the loop over the ready Tasks.
PlanDispatch(s) ==
  /\ At(s, "plan") /\ ~Deadlocked(s)
  /\ Becomes(s, [sup[s] EXCEPT
                   !.pc = "spawning",
                   !.todo = Ready(s),
                   !.slots = IF Cardinality(RunningRuns) >= MaxConcurrency THEN 0
                             ELSE MaxConcurrency - Cardinality(RunningRuns)])
  /\ UNCHANGED <<assessVars, runnerVars>>

Latest(t) ==
  CHOOSE r \in RunsOf(t) : \A q \in RunsOf(t) : runs[q].revision <= runs[r].revision

AlreadyRunning(t) == RunsOf(t) # {} /\ IsRunning(Latest(t))

Dispatching(s, t) == At(s, "spawning") /\ t \in sup[s].todo /\ sup[s].slots > 0

SkipRunning(s, t) ==
  /\ Dispatching(s, t)
  /\ AlreadyRunning(t)
  /\ Drops(s, t)
  /\ UNCHANGED <<assessVars, runnerVars>>

\* A new identity (nanoid); which one never matters.
NewRun == CHOOSE r \in Runs : runs[r].status = "absent"
RunsLeft == \E r \in Runs : runs[r].status = "absent"    \* bound of the model

\* claimTaskDispatch on the listed row: its generation must still be current.
Dispatch(s, t) ==
  /\ Dispatching(s, t)
  /\ ~AlreadyRunning(t)
  /\ RunsLeft
  /\ Claim(t, RefOf(sup[s].snap[t]), NewRun)
  /\ Becomes(s, [sup[s] EXCEPT !.pc = "prepare", !.todo = @ \ {t},
                               !.task = t, !.run = NewRun, !.slots = @ - 1])
  /\ UNCHANGED <<rounds, runnerVars>>

\* The conflict is not caught on the way out of tickOnce.
DispatchConflict(s, t) ==
  /\ Dispatching(s, t)
  /\ ~AlreadyRunning(t)
  /\ RunsLeft /\ ~CanClaim(t, RefOf(sup[s].snap[t]), NewRun)
  /\ Aborts(s)
  /\ UNCHANGED <<assessVars, runnerVars>>

Dispatched(s) ==
  /\ At(s, "spawning")
  /\ sup[s].todo = {} \/ sup[s].slots = 0
  /\ Becomes(s, Resting("idle"))
  /\ UNCHANGED <<assessVars, runnerVars>>

-----------------------------------------------------------------------------
(* prepareAndSpawn                                                         *)

\* isTaskDispatchActive: the claim still owns its Task and its Run still runs.
ClaimIsActive(s) ==
  /\ Current(sup[s].task, RunRef(sup[s].run))
  /\ IsRunning(sup[s].run)

Returns(s) == Becomes(s, [sup[s] EXCEPT !.pc = "spawning", !.task = NoTask, !.run = NoRun])

PrepareAbandoned(s) ==
  /\ At(s, "prepare")
  /\ ~ClaimIsActive(s)
  /\ Returns(s)
  /\ UNCHANGED <<assessVars, runnerVars>>

\* A veto of the spawn hook queues the Task again, if the Run is still its own.
PrepareVetoed(s) ==
  /\ At(s, "prepare")
  /\ SpawnVeto
  /\ ClaimIsActive(s)
  /\ Requeue(sup[s].task, RunRef(sup[s].run), FALSE, TRUE)
  /\ Returns(s)
  /\ UNCHANGED <<rounds, runnerVars>>

\* No agent, no provider key, no context, no process: the Run fails.
PrepareFails(s) ==
  /\ At(s, "prepare")
  /\ CompleteRun(sup[s].run, "failed")
  /\ Returns(s)
  /\ UNCHANGED <<rounds, runnerVars>>

Spawn(s) ==
  /\ At(s, "prepare")
  /\ ClaimIsActive(s)
  /\ Enters(sup[s].run, "launched")
  /\ Goes(s, "register")
  /\ UNCHANGED <<assessVars, pid, overdue>>

\* Cancelled during the spawn: the handle is stopped.  updateSpawnInfo records
\* the process id without a condition.
Register(s) ==
  /\ At(s, "register")
  /\ IF runs[sup[s].run].status = "killed" THEN MaySignal(sup[s].run) ELSE UNCHANGED proc
  /\ pid' = pid \cup {sup[s].run}
  /\ Returns(s)
  /\ UNCHANGED <<assessVars, overdue>>

-----------------------------------------------------------------------------

Recovery(s) ==
  \/ Restart(s) \/ RecoverAck(s) \/ ListOrphans(s) \/ Recovered(s)
  \/ \E r \in Runs : RecoverRun(s, r)
  \/ \E t \in Tasks : RecoverTask(s, t)

Collection(s) ==
  \/ TickStart(s) \/ ListResults(s) \/ Collected(s)
  \/ RetryAfterFixes(s) \/ AcknowledgeRun(s)
  \/ \E r \in Runs : CollectResult(s, r) \/ SkipResult(s, r)

HealthCheck(s) == ListActive(s) \/ \E r \in Runs : CheckRun(s, r)

Deadlock(s) ==
  PlanDeadlock(s) \/ DeadlockHandled(s) \/ \E t \in Tasks : ForceFail(s, t)

Dispatches(s) ==
  \/ PlanDispatch(s) \/ Dispatched(s)
  \/ PrepareAbandoned(s) \/ PrepareVetoed(s) \/ PrepareFails(s) \/ Spawn(s) \/ Register(s)
  \/ \E t \in Tasks : SkipRunning(s, t) \/ Dispatch(s, t) \/ DispatchConflict(s, t)

SupervisorStep(s) ==
  \/ AwaitResolution(s) /\ UNCHANGED sla
  \/ (Judge(s) \/ Checked(s)) /\ UNCHANGED resolverVars
  \/ /\ Recovery(s) \/ Collection(s) \/ HealthCheck(s) \/ Deadlock(s) \/ Dispatches(s)
     /\ UNCHANGED <<sla, resolverVars>>
=============================================================================
