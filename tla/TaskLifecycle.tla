---------------------------- MODULE TaskLifecycle ----------------------------
(***************************************************************************)
(* The execution of Tasks end to end: supervisors, the detached runners    *)
(* and the users who kill, retry, reassess and delete the same rows, with  *)
(* crashes of the supervisor and of the runners at any step.               *)
(***************************************************************************)
EXTENDS Supervisor

LOCAL INSTANCE Functions

CONSTANTS
  Killable,      \* Tasks a user may kill
  Clearable,     \* Tasks a user may delete
  MaxManual,     \* bound: retries people ask for
  MaxFaults      \* bound: crashes of the supervisor and of runners

ASSUME LifecycleAssumption ==
  /\ Killable \subseteq Tasks
  /\ Clearable \subseteq Tasks
  /\ MaxManual \in Nat /\ MaxFaults \in Nat

VARIABLES
  manual,     \* retries people asked for, per Task
  faults,     \* crashes so far
  overruled   \* history: what deadlines and reassessments wrote, see Overrules

outside == <<manual, faults, reassess, overruled>>
vars == <<supVars, outside>>

\* A project just seeded: every Task is queued, no supervisor started yet.
Init ==
  /\ tasks = [t \in Tasks |-> [AbsentTask EXCEPT !.status = "pending"]]
  /\ runs = [r \in Runs |-> AbsentRun]
  /\ RunnerInit
  /\ RoundsInit
  /\ SupInit
  /\ ResolverInit
  /\ SlaInit
  /\ ReassessInit
  /\ manual = [t \in Tasks |-> 0]
  /\ faults = 0
  /\ overruled = {}

-----------------------------------------------------------------------------
(* Users: killTask, retryTask, clearTasks, reassessTask                    *)

\* Users reach the store through a server process.
Up(s) == ~At(s, "down")
SomeUp == \E s \in Supervisors : Up(s)

Kill(t) ==
  /\ SomeUp
  /\ t \in Killable
  /\ Exists(t)
  /\ Cancel(t, RefOf(tasks[t]))
  /\ IF LiveRun(t) THEN MaySignal(tasks[t].active) ELSE UNCHANGED proc
  /\ UNCHANGED <<rounds, pid, overdue, hostVars, outside>>

ManualLeft == FoldFunction(+, 0, manual) < MaxManual

RetryTask(t) ==
  /\ SomeUp
  /\ ManualLeft
  /\ tasks[t].status = "failed"
  /\ Transition(t, tasks[t], "pending")
  /\ manual' = [manual EXCEPT ![t] = @ + 1]
  /\ UNCHANGED <<rounds, runnerVars, hostVars, faults, reassess, overruled>>

\* The latest Run is signalled and the row deleted; the Run row stays.
ClearTask(t) ==
  /\ SomeUp
  /\ t \in Clearable
  /\ DeleteTask(t)
  /\ IF AlreadyRunning(t) /\ Latest(t) \in pid THEN MaySignal(Latest(t)) ELSE UNCHANGED proc
  /\ UNCHANGED <<rounds, pid, overdue, hostVars, outside>>

-----------------------------------------------------------------------------
(* Deadlines and reassessments write a status into whatever generation     *)
(* they find: no attempt is ended by it and none has earned it.            *)

\* What such a write makes of a Task: open again, or the end it has met.
Standing(status) == IF status \in TerminalStatus THEN status ELSE "open"

Overrule(t) == [task |-> t, revision |-> tasks[t].revision,
                was |-> Standing(tasks[t].status), is |-> Standing(tasks'[t].status)]

Overrules ==
  overruled' = overruled \cup
    {Overrule(t) : t \in {u \in Tasks : /\ tasks'[u].revision = tasks[u].revision
                                        /\ Standing(tasks'[u].status) # Standing(tasks[u].status)}}

DeadlinePasses(s, t) ==
  /\ Up(s)
  /\ SlaFail(s, t)
  /\ Overrules
  /\ UNCHANGED <<rounds, runnerVars, sup, resolverVars, manual, faults, reassess>>

\* Where a passed reassessment queues a failed Task, a person asked for it.
Reassess(q) ==
  /\ SomeUp
  /\ Reassessment(q, Assessed)
  /\ manual' = [t \in Tasks |-> manual[t] + (tasks'[t].retries - tasks[t].retries)]
  /\ Overrules
  /\ UNCHANGED <<rounds, runnerVars, hostVars, faults>>

-----------------------------------------------------------------------------
(* Crashes.                                                                *)

SupervisorCrash(s) ==
  /\ Up(s)
  /\ faults < MaxFaults
  /\ faults' = faults + 1
  /\ Becomes(s, Resting("down"))
  /\ resolver' = [resolver EXCEPT ![s] = NoResolution]
  /\ sla' = [sla EXCEPT ![s] = NoMonitor]
  /\ \E Q \in SUBSET Reassessors :
       /\ (\A o \in Supervisors \ {s} : At(o, "down")) => Q = Reassessors
       /\ RequestsLost(Q)
  /\ UNCHANGED <<assessVars, runnerVars, deps, absorbed, manual, overruled>>

RunnerCrash(r) ==
  /\ faults < MaxFaults
  /\ faults' = faults + 1
  /\ Die(r)
  /\ UNCHANGED <<rounds, hostVars, manual, reassess, overruled>>

-----------------------------------------------------------------------------

Supervises(s) == SupervisorStep(s) /\ UNCHANGED outside

Resolves(s) == Resolution(s) /\ UNCHANGED <<rounds, pid, overdue, sup, sla, outside>>

RunProcess(r) == RunnerStep(r) /\ UNCHANGED <<rounds, hostVars, outside>>

Works(r) == (Finish(r) \/ LosesStore(r)) /\ UNCHANGED <<rounds, hostVars, outside>>

Time(r) == Elapse(r) /\ UNCHANGED <<rounds, hostVars, outside>>

Next ==
  \/ \E s \in Supervisors : Supervises(s) \/ Resolves(s) \/ SupervisorCrash(s)
  \/ \E r \in Runs : RunProcess(r) \/ Works(r) \/ Time(r) \/ RunnerCrash(r)
  \/ \E t \in Tasks : Kill(t) \/ RetryTask(t) \/ ClearTask(t)
  \/ \E s \in Supervisors, t \in Tasks : DeadlinePasses(s, t)
  \/ \E q \in Reassessors : Reassess(q)

Spec == Init /\ [][Next]_vars

\* The loop of runLoop ticks again after every wait, a process that is not
\* stopped proceeds, and time passes.  Nothing forces an agent to finish
\* or the store to fail (Works), a user to act or a crash to happen.
Fairness ==
  /\ \A s \in Supervisors : WF_vars(Supervises(s)) /\ WF_vars(Resolves(s))
  /\ \A r \in Runs : WF_vars(RunProcess(r)) /\ WF_vars(Time(r))

FairSpec == Spec /\ Fairness

-----------------------------------------------------------------------------

TypeOK ==
  /\ StoreTypeOK
  /\ RunnerTypeOK
  /\ RoundsTypeOK
  /\ SupTypeOK
  /\ SlaTypeOK
  /\ ResolverTypeOK
  /\ reassess \in [Reassessors -> Request]
  /\ overruled \subseteq [task : Tasks, revision : 0..MaxRevision,
                           was : TerminalStatus \cup {"open"}, is : TerminalStatus \cup {"open"}]
  /\ manual \in [Tasks -> Nat]
  /\ faults \in 0..MaxFaults

\* Some deadline or reassessment made t terminal in its present generation.
SettledFromOutside(t) ==
  \E o \in overruled :
    o.task = t /\ o.revision = tasks[t].revision /\ o.was = "open"

\* A reassessment declared t done.
DeclaredDone(t) == \E o \in overruled : o.task = t /\ o.is = "done"

\* A deadline or a reassessment took the completion of t back.
Revoked(t) == \E o \in overruled : o.task = t /\ o.was = "done"

\* "done" is earned by the newest attempt of the Task, and that attempt
\* completed: no late assessment of an older attempt settles a newer one.
\* A Task that a reassessment declared done is the exception: no attempt has
\* to have completed for it.
DoneByNewestRun ==
  \A t \in Tasks : tasks[t].status = "done" /\ ~DeclaredDone(t) =>
    /\ RunsOf(t) # {}
    /\ runs[Latest(t)].status = "completed"

\* Nothing is left running behind a Task reported as done or failed, unless a
\* deadline failed it or a reassessment declared it done in that generation:
\* those two write the status and leave the attempt running.
SettledMeansStopped ==
  \A t \in Tasks :
    tasks[t].status \in TerminalStatus /\ ~SettledFromOutside(t) => RunningRunsOf(t) = {}

\* What the core run checks in every state: well-typed rows and programs, and
\* no execution behind a Task that users see as settled.
LifecycleInv == TypeOK /\ SettledMeansStopped

\* Recovery, fixes, questions and vetoes burn no retry: the counter never
\* passes the allowance plus what people asked for.
RetryBudget ==
  \A t \in Tasks : tasks[t].retries <= MaxRetries + manual[t]

\* Once a result is acknowledged its Task has been decided, or deleted: no Task
\* waits in progress or in review for a result that will not be collected again.
AcknowledgedIsDecided ==
  \A t \in Tasks :
    tasks[t].active # NoRun /\ runs[tasks[t].active].collected
      => tasks[t].status \in TerminalStatus \cup Missing

\* A completed Run whose result is still to be collected is thrown away, its
\* Task queued again, only by the assessment of that very result: recovery,
\* health checks and hooks never waste finished work.
CompletionIsAssessed ==
  [][\A t \in Tasks :
       LET r == tasks[t].active
       IN  /\ r # NoRun
           /\ runs[r].status = "completed" /\ ~runs[r].collected
           /\ tasks[t].status \notin TerminalStatus
           /\ tasks'[t].status = "pending"
           => \E s \in Supervisors :
                sup[s].pc \in {"judge", "retry"} /\ sup[s].run = r /\ sup'[s] # sup[s]]_vars

\* A Task executes only on top of dependencies that are done, and of those
\* whose completion a deadline or a reassessment took back: nobody else may.
DependenciesDone ==
  \A r \in Runs : IsRunning(r) =>
    \A d \in deps[runs[r].task] : tasks[d].status = "done" \/ Revoked(d)

\* t will never start by itself: something it depends on is failed or gone,
\* or waits for itself.
Stuck(t) ==
  \E d \in DependencyGraph(deps, t) :
    \/ tasks[d].status \in {"failed"} \cup Missing
    \/ \E e \in deps[d] : d \in DependencyGraph(deps, e)

\* A deadlock is handled only while it lasts: whatever the tick or the model
\* decides about a blocked Task is written only if the Task is stuck at that
\* moment, so a retry that arrives after the listing wins.
DeadlockIsReal ==
  [][\A s \in Supervisors, t \in Tasks :
       /\ \/ At(s, "deadlock") /\ t \in sup[s].todo \ sup'[s].todo
          \/ t \in resolver[s].todo \ resolver'[s].todo
       /\ tasks' # tasks
       => Stuck(t)]_vars

\* A dependency is dropped only when it has failed, and only by the Task that
\* takes its work over before it starts: no other work is silently skipped.
AbsorbedWorkFailed ==
  [][\A t \in Tasks : \A d \in deps[t] \ deps'[t] :
       tasks[d].status = "failed" /\ RunningRunsOf(t) = {}]_vars

\* The process of a Run that was decided elsewhere stops by itself.
SupersededStops ==
  \A r \in Runs : (Alive(r) /\ ~IsRunning(r)) ~> ~Alive(r)

\* Every Task is eventually settled for good, although agents may hang forever
\* and both the supervisor and the runners may crash.
Settles ==
  \A t \in Tasks : <>[](tasks[t].status \in TerminalStatus \cup Missing \cup {"awaiting_approval"})

\* types/task.ts:163-168: a Task with side effects that has executed is not
\* queued for another execution without a human decision.
SideEffectsAwaitHuman ==
  [][\A t \in SideEffects :
       /\ tasks[t].active # NoRun
       /\ runs[tasks[t].active].status = "completed"
       => tasks'[t].status # "pending"]_vars
=============================================================================
