------------------------- MODULE TaskLifecycleProofs -------------------------
(***************************************************************************)
(* The lifecycle of Tasks is sound for any number of supervisors, Tasks,   *)
(* Runs, retries, people's requests and crashes.                           *)
(*                                                                         *)
(* Every step is one of nine effects on the rows that say more than those  *)
(* of TaskStoreProofs: which result a conclusion is drawn from, which      *)
(* allowance a rerun uses, what a cancellation leaves, what a deadline or  *)
(* a reassessment wrote over (LifeEffect).  The invariants are then shown  *)
(* effect by effect, and what a supervisor holds action by action.         *)
(***************************************************************************)
EXTENDS TaskLifecycle, TaskStoreProofs, FiniteSetTheorems

USE NoTaskAssumption, NoRunAssumption, MaxRevisionAssumption

-----------------------------------------------------------------------------
(* The effects of a step of the lifecycle on the rows.                     *)

Reviews(t) ==
  tasks[t].status = "in_progress" /\ SetTaskStatus(t, "review") /\ UNCHANGED runs

\* The Task is settled by the result of the attempt it names.
Concludes(t, r, status) ==
  /\ tasks[t].active = r
  /\ runs[r].status \in RunOutcome
  /\ status = "done" => runs[r].status = "completed"
  /\ tasks[t].status \notin TerminalStatus \cup Missing
  /\ SetTaskStatus(t, status) /\ UNCHANGED runs

\* Finished work of t that nobody has collected yet, and its assessment.
Unassessed(t) ==
  LET r == tasks[t].active
  IN  /\ r # NoRun
      /\ runs[r].status = "completed" /\ ~runs[r].collected
      /\ tasks[t].status \notin TerminalStatus

UnderAssessment(r) ==
  \E s \in Supervisors : sup[s].pc \in {"judge", "retry"} /\ sup[s].run = r /\ sup'[s] # sup[s]

\* The Task is queued again within an allowance.
Reruns(t, retries) ==
  /\ tasks[t].status \notin {"done"} \cup Missing
  /\ \/ retries = tasks[t].retries
     \/ retries = tasks[t].retries + 1 /\ tasks[t].retries < MaxRetries
     \/ retries = tasks[t].retries + 1 /\ manual'[t] = manual[t] + 1
  /\ Unassessed(t) => UnderAssessment(tasks[t].active)
  /\ EndAttempt(t, "pending", retries)

Suspends(t) ==
  /\ tasks[t].status \notin TerminalStatus \cup Missing
  /\ EndAttempt(t, "awaiting_approval", tasks[t].retries)

Cancels(t) ==
  /\ Exists(t)
  /\ EndAttempt(t, IF tasks[t].status = "done" THEN "done" ELSE "failed", tasks[t].retries)

\* A deadline or a reassessment writes a status into the generation it finds,
\* takes nothing but "failed" where the Task has met its end, and is recorded.
Imposes(t, status) ==
  /\ Exists(t)
  /\ status \in {"assigned", "in_progress", "review", "done", "failed"}
  /\ tasks[t].status \in TerminalStatus => status = "failed"
  /\ SetTaskStatus(t, status) /\ UNCHANGED runs
  /\ Standing(status) # Standing(tasks[t].status) =>
       [task |-> t, revision |-> tasks[t].revision,
        was |-> Standing(tasks[t].status), is |-> Standing(status)] \in overruled'

\* A supervisor that is about to acknowledge a result has it at hand.
MayAcknowledge(rec) == rec.pc = "acknowledge" \/ (rec.pc = "recoverRuns" /\ rec.run # NoRun)

LifeEffect ==
  \/ UNCHANGED storeVars
  \/ \E t \in Tasks : Reviews(t) \/ Suspends(t) \/ Cancels(t)
  \/ \E t \in Clearable : DeleteTask(t)
  \/ \E t \in Tasks : \E r \in Runs : \E status \in TerminalStatus : Concludes(t, r, status)
  \/ \E t \in Tasks : \E retries \in Nat : Reruns(t, retries)
  \/ \E s \in Supervisors : \E t \in Tasks : \E r \in Runs :
       sup[s].pc = "spawning" /\ t \in sup[s].todo /\ Claim(t, RefOf(sup[s].snap[t]), r)
  \/ \E t \in Tasks : \E status \in TaskStatus : Imposes(t, status)
  \/ \E r \in Runs : \E outcome \in RunOutcome : OutcomeWrite(r, outcome)
  \/ \E s \in Supervisors : /\ MayAcknowledge(sup[s]) /\ sup[s].run \in Runs
                            /\ MarkRunCollected(sup[s].run)

LEMMA LifeEffectIsStoreEffect == ASSUME StoreInv, LifeEffect PROVE StoreEffect
<1> USE LifecycleAssumption DEF StoreInv, StoreTypeOK
<1>1. ASSUME NEW t \in Tasks, Reviews(t) PROVE StoreEffect
  BY <1>1 DEF Reviews, StoreEffect, StatusWrite, TaskStatus
<1>2. ASSUME NEW t \in Tasks, Suspends(t) PROVE StoreEffect
  BY <1>2 DEF Suspends, StoreEffect, AttemptEnds, TaskStatus, TaskRow
<1>3. ASSUME NEW t \in Tasks, Cancels(t) PROVE StoreEffect
  <2> DEFINE status == IF tasks[t].status = "done" THEN "done" ELSE "failed"
  <2>1. status \in TaskStatus /\ tasks[t].retries \in Nat
    BY DEF TaskStatus, TaskRow
  <2>2. AttemptEnds(t, status, tasks[t].retries)
    BY <1>3, <2>1 DEF Cancels, AttemptEnds
  <2> QED  BY <2>1, <2>2 DEF StoreEffect
<1>4. ASSUME NEW t \in Tasks, DeleteTask(t) PROVE StoreEffect
  BY <1>4, RowsIsEffect
<1>5. ASSUME NEW t \in Tasks, NEW r \in Runs, NEW status \in TerminalStatus, Concludes(t, r, status)
      PROVE  StoreEffect
  BY <1>5 DEF Concludes, StoreEffect, StatusWrite, TerminalStatus, TaskStatus
<1>6. ASSUME NEW t \in Tasks, NEW retries \in Nat, Reruns(t, retries) PROVE StoreEffect
  BY <1>6 DEF Reruns, StoreEffect, AttemptEnds, TaskStatus
<1>7. ASSUME NEW t \in Tasks, NEW status \in TaskStatus, Imposes(t, status) PROVE StoreEffect
  BY <1>7 DEF Imposes, StoreEffect, StatusWrite
<1> QED  BY <1>1, <1>2, <1>3, <1>4, <1>5, <1>6, <1>7 DEF LifeEffect, StoreEffect

-----------------------------------------------------------------------------
(* What the programs hold at each of their steps.                          *)

Listing == {"recoverRuns", "collecting", "checking"}
Assessing == {"judge", "retry"}
Spawning == {"prepare", "register"}

Fits(rec, rows) ==
  /\ rec.pc \in Listing => \A x \in rec.todo : x \in Runs /\ rows[x].status # "absent"
  /\ rec.pc \in Assessing \cup {"collecting", "acknowledge"} =>
       \A x \in rec.todo : x \in Runs /\ rows[x].status \in RunOutcome
  /\ rec.pc \in Assessing \cup {"acknowledge"} =>
       rec.run \in Runs /\ rows[rec.run].status \in RunOutcome
  /\ rec.pc \in Assessing \cup Spawning =>
       rec.run \in Runs /\ rows[rec.run].status # "absent" /\ rec.task = rows[rec.run].task
  /\ rec.pc = "recoverRuns" /\ rec.run # NoRun => rec.run \in Runs /\ rows[rec.run].status \in RunOutcome

ShapeOf(s) == Fits(sup[s], runs)

SupShape == \A s \in Supervisors : ShapeOf(s)

\* A resolution is about Tasks that its listing shows queued.
ResolverShape ==
  \A s \in Supervisors : resolver[s].todo \subseteq Listed(resolver[s].snap, {"pending"})

OverruledTypeOK ==
  overruled \subseteq [task : Tasks, revision : 0..MaxRevision,
                       was : TerminalStatus \cup {"open"}, is : TerminalStatus \cup {"open"}]

\* A request under way is about a Task.
Addressed ==
  \A q \in Reassessors : reassess[q].pc \in {"judging", "moving"} => reassess[q].task \in Tasks

ProgramTypes ==
  /\ RunnerTypeOK /\ RoundsTypeOK /\ SupTypeOK /\ SlaTypeOK /\ ResolverTypeOK
  /\ reassess \in [Reassessors -> Request] /\ Addressed
  /\ OverruledTypeOK
  /\ manual \in [Tasks -> Nat] /\ faults \in 0..MaxFaults

\* A Task that nobody may dispatch yet has left every attempt behind.
IdleIsUnowned ==
  \A t \in Tasks : tasks[t].status \in {"draft", "awaiting_approval"} => tasks[t].active = NoRun

TypedInv == StoreInv /\ ProgramTypes /\ SupShape /\ ResolverShape /\ IdleIsUnowned

-----------------------------------------------------------------------------
(* The steps of a supervisor: the two that concern its SLA monitor are     *)
(* taken with the phase they belong to.                                    *)

Collects(s) == Collection(s) \/ Judge(s)
Checks(s) == HealthCheck(s) \/ Checked(s)

LEMMA SupervisorSteps ==
  ASSUME NEW s \in Supervisors, SupervisorStep(s)
  PROVE  \/ AwaitResolution(s)
         \/ /\ Recovery(s) \/ Collects(s) \/ Checks(s) \/ Deadlock(s) \/ Dispatches(s)
            /\ UNCHANGED resolverVars
BY DEF SupervisorStep, Collects, Checks

-----------------------------------------------------------------------------
(* Every step is an effect.                                                *)

LEMMA RunTaskKnown ==
  ASSUME StoreInv, NEW r \in Runs, runs[r].status # "absent"
  PROVE  runs[r].task \in Tasks
BY DEF StoreInv, RowsAreRooted

\* The reference of a Run is current exactly while its Task names it.
LEMMA CurrentNames ==
  ASSUME StoreInv, NEW t \in Tasks, NEW r \in Runs, Current(t, RunRef(r))
  PROVE  tasks[t].active = r /\ Exists(t) /\ tasks[t].revision = runs[r].revision
BY DEF Current, RunRef, RefOf

LEMMA NamedIsCurrent ==
  ASSUME StoreInv, NEW t \in Tasks, NEW r \in Runs, tasks[t].active = r, Exists(t)
  PROVE  Current(t, RunRef(r))
BY DEF StoreInv, OwnerAgrees, Consistent, Current, RunRef, RefOf

\* A requeue that counts no retry, or one within the allowance.
LEMMA RequeueReruns ==
  ASSUME StoreInv, NEW t \in Tasks, NEW ref, NEW counted \in BOOLEAN, NEW live \in BOOLEAN,
         Requeue(t, ref, counted, live),
         counted => tasks[t].retries < MaxRetries,
         Unassessed(t) => UnderAssessment(tasks[t].active)
  PROVE  LifeEffect
<1>1. /\ tasks[t].status \notin {"done"} \cup Missing
      /\ EndAttempt(t, "pending", RetriesAfter(tasks[t], counted))
  BY DEF Requeue, CanRequeue, Current, Exists
<1>2. RetriesAfter(tasks[t], counted) \in Nat
  BY RetriesAreNat DEF StoreInv, StoreTypeOK
<1>3. Reruns(t, RetriesAfter(tasks[t], counted))
  BY <1>1 DEF Reruns, RetriesAfter
<1> QED  BY <1>2, <1>3 DEF LifeEffect

LEMMA CancelCancels == ASSUME StoreInv, NEW t \in Tasks, NEW ref, Cancel(t, ref) PROVE LifeEffect
<1>1. Exists(t)
  BY DEF Cancel, Current
<1>2. CASE UNCHANGED storeVars
  BY <1>2 DEF LifeEffect
<1>3. CASE tasks[t].status \in TerminalStatus /\ EndAttempt(t, tasks[t].status, tasks[t].retries)
  <2>1. Cancels(t)
    BY <1>1, <1>3 DEF Cancels, TerminalStatus
  <2> QED  BY <2>1 DEF LifeEffect
<1>4. CASE tasks[t].status \notin TerminalStatus /\ EndAttempt(t, "failed", tasks[t].retries)
  <2>1. Cancels(t)
    BY <1>1, <1>4 DEF Cancels, TerminalStatus
  <2> QED  BY <2>1 DEF LifeEffect
<1> QED  BY <1>2, <1>3, <1>4 DEF Cancel

\* What the assessment of the result of r does to its Task.
LEMMA AssessmentIsEffect ==
  ASSUME TypedInv, NEW s \in Supervisors, sup[s].pc \in Assessing, sup'[s] # sup[s],
         \/ Decide(sup[s].task, RunRef(sup[s].run), Succeeded(sup[s].run))
         \/ FixesExhausted(sup[s].task, RunRef(sup[s].run), Succeeded(sup[s].run))
         \/ Refused(sup[s].task, RunRef(sup[s].run), Succeeded(sup[s].run))
         \/ Superseded(sup[s].task, RunRef(sup[s].run))
         \/ RetryOrFail(sup[s].task, RunRef(sup[s].run))
         \/ RetryOvertaken(sup[s].task, RunRef(sup[s].run))
         \/ Refused(sup[s].task, RunRef(sup[s].run), FALSE)
  PROVE  LifeEffect
<1> DEFINE r == sup[s].run
           t == sup[s].task
<1> USE DEF TypedInv
<1>1. r \in Runs /\ t \in Tasks /\ runs[r].status \in RunOutcome
  BY RunTaskKnown DEF SupShape, ShapeOf, Fits, Assessing
<1>2. UnderAssessment(r)
  BY DEF UnderAssessment, Assessing
<1>3. ASSUME NEW counted \in BOOLEAN, Requeue(t, RunRef(r), counted, FALSE),
             counted => tasks[t].retries < MaxRetries
      PROVE  LifeEffect
  <2>1. tasks[t].active = r
    BY <1>1, <1>3, CurrentNames DEF Requeue, CanRequeue
  <2> QED  BY <1>1, <1>2, <1>3, <2>1, RequeueReruns
<1>4. ASSUME NEW new \in {"done", "failed"}, MutateTransition(t, RunRef(r), new),
             new = "done" => Succeeded(r)
      PROVE  LifeEffect
  <2>1. tasks[t].active = r /\ Exists(t) /\ new \in VALID_TRANSITIONS(tasks[t].status)
    BY <1>1, <1>4, CurrentNames DEF MutateTransition, CanMoveTo
  <2>2. tasks[t].status \notin TerminalStatus \cup Missing
    BY <2>1 DEF VALID_TRANSITIONS, TerminalStatus, Exists
  <2>3. Concludes(t, r, new)
    BY <1>1, <1>4, <2>1, <2>2 DEF MutateTransition, Concludes, ReleasingStatus, Succeeded
  <2> QED  BY <1>1, <2>3 DEF LifeEffect, TerminalStatus
<1>5. ASSUME MutateTransition(t, RunRef(r), "awaiting_approval") PROVE LifeEffect
  <2>1. Exists(t) /\ "awaiting_approval" \in VALID_TRANSITIONS(tasks[t].status)
    BY <1>1, <1>5, CurrentNames DEF MutateTransition, CanMoveTo
  <2>2. tasks[t].status \notin TerminalStatus \cup Missing
    BY <2>1 DEF VALID_TRANSITIONS, TerminalStatus, Exists
  <2>3. Suspends(t)
    BY <1>5, <2>2 DEF MutateTransition, Suspends, ReleasingStatus, RetriesAfter
  <2> QED  BY <1>1, <2>3 DEF LifeEffect
<1>6. ASSUME NEW succeeded, AnswerAndRerun(t, RunRef(r), succeeded) \/ Fix(t, RunRef(r), succeeded)
      PROVE  LifeEffect
  BY <1>3, <1>6 DEF AnswerAndRerun, Fix
<1>7. CASE Accept(t, RunRef(r), Succeeded(r))
  BY <1>4, <1>7 DEF Accept, LifeEffect
<1>8. CASE RetryOrFail(t, RunRef(r))
  BY <1>3, <1>4, <1>5, <1>8 DEF RetryOrFail, SuspendForHuman, Retry, FinalFailure, LifeEffect
<1>9. ASSUME NEW succeeded,
             \/ Superseded(t, RunRef(r)) \/ FixesExhausted(t, RunRef(r), succeeded)
             \/ Refused(t, RunRef(r), succeeded)
             \/ RetryOvertaken(t, RunRef(r)) \/ RequeueOvertaken(t, RunRef(r), succeeded)
      PROVE  LifeEffect
  BY <1>9 DEF Superseded, FixesExhausted, Refused, RetryOvertaken, RequeueOvertaken, assessVars, storeVars, LifeEffect
<1> QED  BY <1>6, <1>7, <1>8, <1>9 DEF Decide

\* What a supervisor's move does to its own record and to the others'.
LEMMA Moves ==
  ASSUME TypedInv, NEW s \in Supervisors
  PROVE  /\ \A rec : Becomes(s, rec) => sup'[s] = rec
         /\ \A rec : Becomes(s, rec) => \A q \in Supervisors : q # s => sup'[q] = sup[q]
         /\ \A phase : Goes(s, phase) => /\ sup'[s] = [sup[s] EXCEPT !.pc = phase]
                                         /\ sup'[s].pc = phase
BY DEF TypedInv, ProgramTypes, SupTypeOK, Becomes, Goes

LEMMA OutcomeIsEffect ==
  ASSUME NEW r \in Runs, NEW outcome \in RunOutcome, CompleteRun(r, outcome) PROVE LifeEffect
BY DEF LifeEffect, OutcomeWrite

LEMMA CollectionIsEffect ==
  ASSUME TypedInv, NEW s \in Supervisors, Collects(s) PROVE LifeEffect
<1> USE DEF TypedInv
<1>1. ASSUME NEW r \in Runs, CollectResult(s, r) PROVE LifeEffect
  <2> DEFINE t == runs[r].task
  <2>1. t \in Tasks
    BY <1>1, RunTaskKnown DEF CollectResult, At, SupShape, ShapeOf, Fits, Listing
  <2>2. Reviews(t) \/ UNCHANGED storeVars
    BY <1>1 DEF CollectResult, Admit, Reviews, storeVars
  <2> QED  BY <2>1, <2>2 DEF LifeEffect
<1>2. ASSUME Judge(s) \/ RetryAfterFixes(s) PROVE LifeEffect
  <2>1. sup[s].pc \in Assessing
    BY <1>2 DEF Judge, RetryAfterFixes, At, Assessing
  <2>2. sup'[s] # sup[s]
    <3>1. CASE Judge(s)
      <4>0. Goes(s, "acknowledge") \/ Goes(s, "retry") \/ Becomes(s, Resting("idle"))
        BY <3>1 DEF Judge, Aborts
      <4>1. sup'[s].pc \in {"acknowledge", "retry", "idle"}
        BY <4>0, Moves DEF Goes, Becomes, Resting
      <4> QED  BY <3>1, <4>1 DEF Judge, At
    <3>2. CASE RetryAfterFixes(s)
      <4>0. Goes(s, "acknowledge") \/ Becomes(s, Resting("idle"))
        BY <3>2 DEF RetryAfterFixes, Aborts
      <4>1. sup'[s].pc \in {"acknowledge", "idle"}
        BY <4>0, Moves DEF Goes, Becomes, Resting
      <4> QED  BY <3>2, <4>1 DEF RetryAfterFixes, At
    <3> QED  BY <1>2, <3>1, <3>2
  <2> QED  BY <1>2, <2>1, <2>2, AssessmentIsEffect DEF Judge, RetryAfterFixes
<1>3. ASSUME AcknowledgeRun(s) PROVE LifeEffect
  BY <1>3 DEF AcknowledgeRun, At, SupShape, ShapeOf, Fits, MayAcknowledge, LifeEffect
<1>4. ASSUME TickStart(s) \/ ListResults(s) \/ Collected(s) \/ \E r \in Runs : SkipResult(s, r)
      PROVE  LifeEffect
  <2>1. ASSUME TickStart(s) PROVE UNCHANGED assessVars
    BY <2>1 DEF TickStart
  <2>2. ASSUME ListResults(s) PROVE UNCHANGED assessVars
    BY <2>2 DEF ListResults
  <2>3. ASSUME Collected(s) PROVE UNCHANGED assessVars
    BY <2>3 DEF Collected
  <2>4. ASSUME NEW r \in Runs, SkipResult(s, r) PROVE UNCHANGED assessVars
    BY <2>4 DEF SkipResult
  <2> QED  BY <1>4, <2>1, <2>2, <2>3, <2>4 DEF assessVars, storeVars, LifeEffect
<1> QED  BY <1>1, <1>2, <1>3, <1>4 DEF Collects, Collection

\* Recovery queues a Task again only when no result of it is left to assess.
LEMMA RecoveryIsEffect ==
  ASSUME TypedInv, NEW s \in Supervisors, Recovery(s) PROVE LifeEffect
<1> USE DEF TypedInv
<1>1. ASSUME NEW r \in Runs, RecoverRun(s, r) PROVE LifeEffect
  <2> DEFINE t == runs[r].task
  <2>1. CASE OrphanRun(s, r) /\ LiveRun(t)
    <3>1. t \in Tasks
      BY <1>1, RunTaskKnown DEF RecoverRun, At, SupShape, ShapeOf, Fits, Listing
    <3>2. ~Unassessed(t)
      BY <2>1 DEF LiveRun, Unassessed
    <3> QED  BY <1>1, <2>1, <3>1, <3>2, RequeueReruns DEF RecoverRun
  <2>2. CASE ~(OrphanRun(s, r) /\ LiveRun(t))
    BY <1>1, <2>2 DEF RecoverRun, LifeEffect
  <2> QED  BY <2>1, <2>2
<1>2. ASSUME NEW t \in Tasks, RecoverTask(s, t) PROVE LifeEffect
  <2> DEFINE row == sup[s].snap[t]
  <2>1. CASE ~KeepsAttempt(row) /\ tasks[t] = row
    <3>1. ~Unassessed(t)
      <4> SUFFICES ASSUME Unassessed(t) PROVE KeepsAttempt(row)
        BY <2>1
      <4>1. tasks[t].active \in Runs /\ runs[tasks[t].active].revision = tasks[t].revision
        BY DEF Unassessed, StoreInv, StoreTypeOK, TaskRow, OwnerAgrees, Consistent
      <4> QED  BY <2>1, <4>1 DEF Unassessed, KeepsAttempt, OwnRun, RunOutcome
    <3>2. (row.active # NoRun /\ IsRunning(row.active)) \in BOOLEAN
      BY DEF IsRunning
    <3>3. Requeue(t, RefOf(row), FALSE, row.active # NoRun /\ IsRunning(row.active))
      BY <1>2, <2>1 DEF RecoverTask
    <3> QED  BY <3>1, <3>2, <3>3, RequeueReruns
  <2>2. CASE ~(~KeepsAttempt(row) /\ tasks[t] = row)
    BY <1>2, <2>2 DEF RecoverTask, LifeEffect
  <2> QED  BY <2>1, <2>2
<1>3. ASSUME RecoverAck(s) PROVE LifeEffect
  BY <1>3 DEF RecoverAck, At, SupShape, ShapeOf, Fits, MayAcknowledge, LifeEffect
<1>4. ASSUME Restart(s) \/ ListOrphans(s) \/ Recovered(s) PROVE LifeEffect
  BY <1>4 DEF Restart, ListOrphans, Recovered, assessVars, storeVars, LifeEffect
<1> QED  BY <1>1, <1>2, <1>3, <1>4 DEF Recovery

\* A fresh identity is one of Runs.
LEMMA NewRunIsFresh == ASSUME RunsLeft PROVE NewRun \in Runs /\ runs[NewRun].status = "absent"
BY DEF RunsLeft, NewRun

LEMMA DispatchIsEffect ==
  ASSUME TypedInv, NEW s \in Supervisors, Dispatches(s) PROVE LifeEffect
<1> USE DEF TypedInv
<1>1. ASSUME NEW t \in Tasks, Dispatch(s, t) PROVE LifeEffect
  BY <1>1, NewRunIsFresh DEF Dispatch, Dispatching, At, LifeEffect
<1>2. ASSUME PrepareVetoed(s) PROVE LifeEffect
  <2>1. sup[s].task \in Tasks /\ LiveRun(sup[s].task)
    BY <1>2, RunTaskKnown DEF PrepareVetoed, At, SupShape, ShapeOf, Fits, Spawning, Requeue, CanRequeue
  <2>2. ~Unassessed(sup[s].task)
    BY <2>1 DEF LiveRun, Unassessed
  <2> QED  BY <1>2, <2>1, <2>2, RequeueReruns DEF PrepareVetoed
<1>3. ASSUME PrepareFails(s) PROVE LifeEffect
  BY <1>3, OutcomeIsEffect DEF PrepareFails, At, SupShape, ShapeOf, Fits, Spawning, RunOutcome
<1>4. ASSUME PlanDispatch(s) \/ Dispatched(s) \/ PrepareAbandoned(s) \/ Spawn(s) \/ Register(s)
             \/ (\E t \in Tasks : SkipRunning(s, t) \/ DispatchConflict(s, t))
      PROVE  LifeEffect
  BY <1>4 DEF PlanDispatch, Dispatched, PrepareAbandoned, Spawn, Register, SkipRunning, DispatchConflict,
     assessVars, storeVars, LifeEffect
<1> QED  BY <1>1, <1>2, <1>3, <1>4 DEF Dispatches

LEMMA SupervisorIsEffect ==
  ASSUME TypedInv, NEW s \in Supervisors, SupervisorStep(s) PROVE LifeEffect
<1>1. ASSUME NEW r \in Runs, CheckRun(s, r) PROVE LifeEffect
  BY <1>1, OutcomeIsEffect DEF CheckRun, RunOutcome, LifeEffect
<1>2. ASSUME NEW t \in Tasks, ForceFail(s, t) PROVE LifeEffect
  BY <1>2, CancelCancels DEF ForceFail, LifeEffect, TypedInv
<1>3. ASSUME AwaitResolution(s) \/ ListActive(s) \/ Checked(s) \/ PlanDeadlock(s) \/ DeadlockHandled(s)
      PROVE  LifeEffect
  BY <1>3 DEF AwaitResolution, ListActive, Checked, PlanDeadlock, DeadlockHandled, assessVars, storeVars,
     LifeEffect
<1> QED  BY <1>1, <1>2, <1>3, CollectionIsEffect, RecoveryIsEffect, DispatchIsEffect, SupervisorSteps
            DEF Checks, HealthCheck, Deadlock

-----------------------------------------------------------------------------
(* Resolutions, runners, people, crashes.                                  *)

\* A graph reaches its root, the dependencies of what it reaches, and every
\* failure found in it.
LEMMA GraphHasRoot == ASSUME NEW on, NEW t \in Tasks PROVE t \in DependencyGraph(on, t)
BY DEF DependencyGraph, Reached

LEMMA GraphHasFailures ==
  ASSUME NEW snap, NEW on, NEW t \in Tasks, NEW f \in RootFailures(snap, on, t)
  PROVE  f \in DependencyGraph(on, t) /\ f \in Tasks /\ snap[f].status = "failed"
<1>1. f \in Reached(on, t, {x \in Tasks \ {t} : snap[x].status # "pending"}) /\ snap[f].status = "failed"
  BY DEF RootFailures
<1>2. f \in Tasks
  BY <1>1 DEF Reached
<1>3. ASSUME NEW S \in SUBSET Tasks, t \in S, \A x \in S : on[x] \subseteq S PROVE f \in S
  BY <1>1, <1>3 DEF Reached
<1> QED  BY <1>1, <1>2, <1>3 DEF DependencyGraph, Reached

LEMMA ResolutionIsEffect ==
  ASSUME TypedInv, NEW s \in Supervisors, Resolution(s) PROVE LifeEffect
<1> USE DEF TypedInv
<1>1. ASSUME NEW t \in Tasks, NEW f \in Tasks, RetryDependency(s, t, f) PROVE LifeEffect
  <2>1. CASE Holds(s, t)
    <3>1. tasks[f] = resolver[s].snap[f] /\ tasks[f].status = "failed"
      BY <1>1, <2>1, GraphHasFailures DEF RetryDependency, MayDecide, Considers, Holds, UnchangedSince
    <3>2. ~Unassessed(f) /\ tasks[f].retries < MaxRetries
      BY <1>1, <3>1 DEF Unassessed, TerminalStatus, RetryDependency
    <3> QED  BY <1>1, <2>1, <3>2, RequeueReruns DEF RetryDependency
  <2>2. CASE ~Holds(s, t)
    BY <1>1, <2>2 DEF RetryDependency, LifeEffect
  <2> QED  BY <2>1, <2>2
<1>2. ASSUME NEW t \in Tasks, NEW f \in Tasks, Absorb(s, t, f) PROVE LifeEffect
  <2>1. CASE f \in resolver[s].deps[t] /\ Holds(s, t)
    <3>1. tasks[t].status = "pending"
      BY <1>2, <2>1, GraphHasRoot DEF Absorb, MayDecide, Considers, Holds, UnchangedSince, ResolverShape, Listed
    <3>2. ~Unassessed(t)
      BY <3>1 DEF Unassessed, StoreInv, PendingIsUnowned
    <3> QED  BY <1>2, <2>1, <3>2, RequeueReruns DEF Absorb
  <2>2. CASE ~(f \in resolver[s].deps[t] /\ Holds(s, t))
    BY <1>2, <2>2 DEF Absorb, LifeEffect
  <2> QED  BY <2>1, <2>2
<1>3. ASSUME NEW t \in Tasks, GiveUp(s, t) \/ FailCaptured(s, t) PROVE LifeEffect
  BY <1>3, CancelCancels DEF GiveUp, FailCaptured, LifeEffect
<1>4. ASSUME ResolutionBreaks(s) \/ ResolutionEnds(s) \/ (\E t, f \in Tasks : AlreadyRetried(s, t, f))
      PROVE  LifeEffect
  BY <1>4 DEF ResolutionBreaks, ResolutionEnds, AlreadyRetried, LifeEffect
<1> QED  BY <1>1, <1>2, <1>3, <1>4 DEF Resolution

LEMMA RunnerIsEffect ==
  ASSUME NEW r \in Runs, RunProcess(r) \/ Works(r) \/ Time(r) \/ RunnerCrash(r) PROVE LifeEffect
<1>1. ASSUME PreparationFails(r) \/ Finish(r) \/ Abort(r) PROVE LifeEffect
  BY <1>1, OutcomeIsEffect DEF PreparationFails, Finish, Abort, RunOutcome
<1>2. ASSUME Start(r) \/ Work(r) \/ Observe(r) \/ LosesStore(r) \/ Die(r) \/ Elapse(r) PROVE LifeEffect
  BY <1>2 DEF Start, Work, Observe, LosesStore, Die, Elapse, LifeEffect
<1> QED  BY <1>1, <1>2 DEF RunProcess, RunnerStep, Works, Time, RunnerCrash

LEMMA RetryTaskIsEffect == ASSUME TypedInv, NEW t \in Tasks, RetryTask(t) PROVE LifeEffect
<1> USE DEF TypedInv, StoreInv, StoreTypeOK
<1> DEFINE retries == tasks[t].retries + 1
<1>1. tasks[t].status = "failed" /\ manual'[t] = manual[t] + 1 /\ Transition(t, tasks[t], "pending")
  BY DEF RetryTask, ProgramTypes
<1>2. EndAttempt(t, "pending", retries)
  <2>1. CASE tasks[t].active # NoRun
    BY <1>1, <2>1 DEF Transition, MutateTransition, ReleasingStatus, RetriesAfter
  <2>2. CASE tasks[t].active = NoRun
    BY <1>1, <2>2 DEF Transition, ReleasingStatus, EndAttempt, KillActiveRun, LiveRun, RetriesAfter
  <2> QED  BY <2>1, <2>2
<1>3. retries \in Nat /\ ~Unassessed(t)
  BY <1>1 DEF TaskRow, Unassessed, TerminalStatus
<1>4. Reruns(t, retries)
  BY <1>1, <1>2, <1>3 DEF Reruns, Missing
<1> QED  BY <1>3, <1>4 DEF LifeEffect

\* A row is rewritten only where there is one, and no retry is taken back.
Rewrites ==
  \A u \in Tasks :
    /\ tasks'[u].retries \in Nat /\ tasks'[u].retries >= tasks[u].retries
    /\ tasks'[u].status # tasks[u].status => Exists(u) /\ tasks'[u].status \in TaskStatus

LEMMA NothingRewritten == ASSUME TypedInv, UNCHANGED storeVars PROVE LifeEffect /\ Rewrites
BY DEF TypedInv, StoreInv, StoreTypeOK, TaskRow, storeVars, LifeEffect, Rewrites

\* What goes on record explains the write.
LEMMA WriteImposes ==
  ASSUME TypedInv, NEW t \in Tasks, NEW status \in {"assigned", "in_progress", "review", "done", "failed"},
         Exists(t), tasks[t].status \in TerminalStatus => status = "failed",
         SetTaskStatus(t, status), UNCHANGED runs, Overrules
  PROVE  LifeEffect /\ Rewrites
<1>1. /\ tasks'[t].status = status /\ tasks'[t].revision = tasks[t].revision
      /\ \A u \in Tasks : /\ tasks[u].retries \in Nat /\ tasks'[u].retries = tasks[u].retries
                          /\ u # t => tasks'[u] = tasks[u]
  BY DEF TypedInv, StoreInv, StoreTypeOK, TaskRow, SetTaskStatus
<1>2. ASSUME Standing(status) # Standing(tasks[t].status) PROVE Overrule(t) \in overruled'
  BY <1>1, <1>2 DEF Overrules
<1>3. Imposes(t, status)
  BY <1>1, <1>2 DEF Imposes, Overrule
<1>4. LifeEffect
  BY <1>3 DEF LifeEffect, TaskStatus
<1>5. Rewrites
  BY <1>1 DEF Rewrites, TaskStatus
<1> QED  BY <1>4, <1>5

LEMMA DeadlineIsEffect ==
  ASSUME TypedInv, NEW s \in Supervisors, NEW t \in Tasks, DeadlinePasses(s, t)
  PROVE  LifeEffect /\ Rewrites
<1>1. CASE Exists(t)
  <2>1. SetTaskStatus(t, "failed") /\ UNCHANGED runs /\ Overrules
    BY <1>1 DEF DeadlinePasses, SlaFail, SlaWrite, UnsafeSetStatus
  <2> QED  BY <1>1, <2>1, WriteImposes
<1>2. CASE ~Exists(t)
  BY <1>2, NothingRewritten DEF DeadlinePasses, SlaFail, SlaWrite
<1> QED  BY <1>1, <1>2

\* A transition of a reassessment: "pending" is a rerun somebody asked for.
LEMMA MoveIsEffect ==
  ASSUME TypedInv, NEW q \in Reassessors, Reassess(q), ReassessMoves(q)
  PROVE  LifeEffect /\ Rewrites
<1> DEFINE t == reassess[q].task
           new == Chain[reassess[q].step]
<1>0. \A u \in Tasks : tasks[u].retries \in Nat
  BY DEF TypedInv, StoreInv, StoreTypeOK, TaskRow
<1>1. t \in Tasks /\ new \in {"pending", "assigned", "in_progress", "review", "done"}
  BY DEF ReassessMoves, TypedInv, ProgramTypes, Addressed, Request, Chain
<1>2. Overrules /\ manual' = [u \in Tasks |-> manual[u] + (tasks'[u].retries - tasks[u].retries)]
  BY DEF Reassess
<1>3. CASE UNCHANGED storeVars
  BY <1>3, NothingRewritten
<1>4. CASE Exists(t) /\ new \in VALID_TRANSITIONS(tasks[t].status) /\ Transition(t, tasks[t], new) /\ new # "pending"
  <2>1. SetTaskStatus(t, new) /\ UNCHANGED runs
    BY <1>1, <1>4 DEF Transition, ReleasingStatus
  <2>2. tasks[t].status \notin TerminalStatus
    BY <1>4 DEF VALID_TRANSITIONS, TerminalStatus
  <2> HIDE DEF new
  <2>3. new \in {"assigned", "in_progress", "review", "done", "failed"}
    BY <1>1, <1>4
  <2> QED  BY <1>1, <1>2, <1>4, <2>1, <2>2, <2>3, WriteImposes
<1>5. CASE Exists(t) /\ "pending" \in VALID_TRANSITIONS(tasks[t].status) /\ Transition(t, tasks[t], "pending")
  <2> DEFINE retries == RetriesAfter(tasks[t], tasks[t].status = "failed")
  <2> HIDE DEF new
  <2>1. EndAttempt(t, "pending", retries)
    <3>1. CASE tasks[t].active # NoRun
      BY <1>5, <3>1 DEF Transition, MutateTransition, ReleasingStatus
    <3>2. CASE tasks[t].active = NoRun
      BY <1>5, <3>2 DEF Transition, ReleasingStatus, EndAttempt, KillActiveRun, LiveRun
    <3> QED  BY <3>1, <3>2
  <2>2. tasks[t].status \in {"draft", "awaiting_approval", "failed"}
    BY <1>5 DEF VALID_TRANSITIONS
  <2>3. ~Unassessed(t)
    BY <1>1, <2>2 DEF Unassessed, TypedInv, IdleIsUnowned, TerminalStatus
  <2>4. retries \in Nat /\ (retries = tasks[t].retries \/ retries = tasks[t].retries + 1)
    BY <1>0, <1>1 DEF RetriesAfter
  <2> HIDE DEF retries
  <2>5. /\ tasks'[t].status = "pending" /\ tasks'[t].retries = retries
        /\ \A u \in Tasks : u # t => tasks'[u] = tasks[u]
    <3>1. /\ tasks'[t] = [status |-> "pending", revision |-> tasks[t].revision + 1, active |-> NoRun,
                          retries |-> retries]
          /\ \A u \in Tasks : u # t => tasks'[u] = tasks[u]
      BY <1>1, <2>1, EndedAttempt DEF TypedInv
    <3> QED  BY <3>1
  <2>6. retries = tasks[t].retries + 1 => manual'[t] = manual[t] + 1
    BY <1>0, <1>1, <1>2, <2>5 DEF TypedInv, ProgramTypes
  <2>7. Reruns(t, retries)
    BY <2>1, <2>2, <2>3, <2>4, <2>6 DEF Reruns, Missing
  <2>8. LifeEffect
    BY <1>1, <2>4, <2>7 DEF LifeEffect
  <2>9. Rewrites
    BY <1>0, <1>1, <1>5, <2>4, <2>5 DEF Rewrites, TaskStatus
  <2> QED  BY <2>8, <2>9
<1> QED  BY <1>1, <1>3, <1>4, <1>5 DEF ReassessMoves

LEMMA ReassessIsEffect ==
  ASSUME TypedInv, NEW q \in Reassessors, Reassess(q)
  PROVE  LifeEffect /\ Rewrites
<1>1. CASE ReassessPasses(q) \/ \E t \in Assessed : ReassessBegin(q, t)
  BY <1>1, NothingRewritten DEF ReassessPasses, ReassessBegin
<1>2. CASE ReassessFails(q)
  <2> DEFINE t == reassess[q].task
  <2>1. t \in Tasks /\ Overrules
    BY <1>2 DEF ReassessFails, TypedInv, ProgramTypes, Addressed, Reassess
  <2>2. CASE reassess[q].was = "done" /\ Exists(t)
    <3>1. SetTaskStatus(t, "failed") /\ UNCHANGED runs
      BY <1>2, <2>2 DEF ReassessFails, UnsafeSetStatus
    <3> QED  BY <2>1, <2>2, <3>1, WriteImposes
  <2>3. CASE ~(reassess[q].was = "done" /\ Exists(t))
    BY <1>2, <2>3, NothingRewritten DEF ReassessFails
  <2> QED  BY <2>2, <2>3
<1>3. CASE ReassessMoves(q)
  BY <1>3, MoveIsEffect
<1> QED  BY <1>1, <1>2, <1>3 DEF Reassess, Reassessment

LEMMA StepIsLifeEffect == ASSUME TypedInv, [Next]_vars PROVE LifeEffect
<1>1. CASE UNCHANGED vars
  BY <1>1 DEF vars, supVars, assessVars, storeVars, LifeEffect
<1>2. ASSUME NEW s \in Supervisors, Supervises(s) \/ Resolves(s) PROVE LifeEffect
  BY <1>2, SupervisorIsEffect, ResolutionIsEffect DEF Supervises, Resolves
<1>3. ASSUME NEW s \in Supervisors, SupervisorCrash(s) PROVE LifeEffect
  BY <1>3 DEF SupervisorCrash, assessVars, storeVars, LifeEffect
<1>4. ASSUME NEW t \in Tasks, Kill(t) \/ ClearTask(t) PROVE LifeEffect
  BY <1>4, CancelCancels DEF Kill, ClearTask, LifeEffect, TypedInv
<1> QED  BY <1>1, <1>2, <1>3, <1>4, RunnerIsEffect, RetryTaskIsEffect, DeadlineIsEffect, ReassessIsEffect DEF Next

\* What deadlines and reassessments wrote stays on record.
LEMMA RecordGrows == ASSUME [Next]_vars PROVE overruled \subseteq overruled'
BY DEF Next, Supervises, Resolves, SupervisorCrash, RunProcess, Works, Time, RunnerCrash, Kill, RetryTask, ClearTask,
   DeadlinePasses, Reassess, Overrules, outside, vars

-----------------------------------------------------------------------------
(* Every step keeps TypedInv.                                              *)

LEMMA StepIsGood == ASSUME TypedInv, [Next]_vars PROVE GoodStep /\ RunsAge
<1>1. StoreEffect
  BY StepIsLifeEffect, LifeEffectIsStoreEffect DEF TypedInv
<1> QED  BY <1>1, EffectKeepsStore, EffectAges DEF TypedInv

SupRecord ==
  [pc : Phase, snap : [Tasks -> TaskRow], deps : [Tasks -> SUBSET Tasks],
   todo : SUBSET (Tasks \cup Runs), seen : SUBSET Runs,
   task : Tasks \cup {NoTask}, run : Runs \cup {NoRun}, slots : 0..MaxConcurrency]

LEMMA RestingTyped == \A phase \in Phase : Resting(phase) \in SupRecord
<1>1. NoSnap \in [Tasks -> TaskRow]
  BY DEF NoSnap, AbsentTask, TaskRow, Missing
<1> QED  BY <1>1, SupervisorAssumption DEF Resting, SupRecord, NoDeps

\* The move of s leads it to a well-shaped record and leaves the others alone.
GoodMove(s) ==
  /\ sup'[s] \in SupRecord
  /\ ShapeOf(s)'
  /\ sup' = [q \in Supervisors |-> sup'[q]]
  /\ \A q \in Supervisors : q # s => sup'[q] = sup[q]

LEMMA MovesTo ==
  ASSUME TypedInv, NEW s \in Supervisors, NEW rec \in SupRecord, Fits(rec, runs'), sup' = [sup EXCEPT ![s] = rec]
  PROVE  GoodMove(s)
BY DEF TypedInv, ProgramTypes, SupTypeOK, GoodMove, ShapeOf

\* A supervisor that rests holds nothing.
LEMMA RestMoves ==
  ASSUME TypedInv, NEW s \in Supervisors, NEW phase \in {"idle", "down"}, Becomes(s, Resting(phase))
  PROVE  GoodMove(s)
<1>1. Resting(phase) \in SupRecord
  BY RestingTyped DEF Phase
<1>2. Fits(Resting(phase), runs')
  BY DEF Resting, Fits, Listing, Assessing, Spawning
<1> QED  BY <1>1, <1>2, MovesTo DEF Becomes

\* What a supervisor holds stays true while the rows age.
LEMMA FitsAges ==
  ASSUME RunsAge, NEW rec, Fits(rec, runs) PROVE Fits(rec, runs')
<1>1. \A x \in Runs : /\ runs[x].status \in RunOutcome => runs'[x].status \in RunOutcome
                      /\ runs[x].status # "absent" => runs'[x].status # "absent" /\ runs'[x].task = runs[x].task
  BY DEF RunsAge, RunOutcome
<1> QED  BY <1>1 DEF Fits

LEMMA HeldNow ==
  ASSUME TypedInv, RunsAge, NEW s \in Supervisors
  PROVE  sup[s] \in SupRecord /\ Fits(sup[s], runs')
BY FitsAges DEF TypedInv, ProgramTypes, SupTypeOK, SupRecord, SupShape, ShapeOf

LEMMA ShapeAges ==
  ASSUME TypedInv, RunsAge, NEW s \in Supervisors, sup'[s] = sup[s]
  PROVE  sup'[s] \in SupRecord /\ ShapeOf(s)'
BY HeldNow DEF ShapeOf

LEMMA RecoveryMoves ==
  ASSUME TypedInv, RunsAge, NEW s \in Supervisors, Recovery(s)
  PROVE  GoodMove(s)
<1>0. sup[s] \in SupRecord /\ Fits(sup[s], runs')
  BY HeldNow
<1>1. CASE Restart(s)
  <2> DEFINE rec == [Resting("recoverRuns") EXCEPT !.todo = RunningRuns, !.seen = pid]
  <2>1. rec \in SupRecord
    BY RestingTyped DEF SupRecord, Phase, RunningRuns, TypedInv, ProgramTypes, RunnerTypeOK
  <2>2. Fits(rec, runs')
    BY <1>1 DEF Restart, assessVars, Resting, Fits, RunningRuns, IsRunning, Assessing, Spawning
  <2> QED  BY <1>1, <2>1, <2>2, MovesTo DEF Restart, Becomes
<1>2. ASSUME NEW r \in Runs, RecoverRun(s, r) PROVE GoodMove(s)
  <2> DEFINE drop == [sup[s] EXCEPT !.todo = @ \ {r}]
             done == [sup[s] EXCEPT !.todo = @ \ {r}, !.run = r]
  <2>1. drop \in SupRecord /\ Fits(drop, runs')
    BY <1>0 DEF SupRecord, Fits
  <2>2. CASE OrphanRun(s, r) /\ LiveRun(runs[r].task)
    <3>1. runs'[r].status \in RunOutcome
      <4>1. runs[r].task \in Tasks
        BY <1>2, RunTaskKnown DEF RecoverRun, At, TypedInv, SupShape, ShapeOf, Fits, Listing
      <4>2. EndAttempt(runs[r].task, "pending", RetriesAfter(tasks[runs[r].task], FALSE))
        BY <1>2, <2>2 DEF RecoverRun, Requeue
      <4>3. runs'[r].status = "killed"
        BY <2>2, <4>1, <4>2, EndedAttempt DEF TypedInv, OrphanRun
      <4> QED  BY <4>3 DEF RunOutcome
    <3>2. done \in SupRecord /\ Fits(done, runs')
      BY <1>0, <1>2, <3>1 DEF SupRecord, Fits, RecoverRun, At, Listing, Assessing, Spawning
    <3> QED  BY <1>2, <2>2, <3>2, MovesTo DEF RecoverRun, Becomes
  <2> QED  BY <1>2, <2>1, <2>2, MovesTo DEF RecoverRun, Drops, Becomes
<1>3. CASE RecoverAck(s)
  <2> DEFINE rec == [sup[s] EXCEPT !.run = NoRun]
  <2>1. rec \in SupRecord /\ Fits(rec, runs')
    BY <1>0, <1>3 DEF SupRecord, Fits, RecoverAck, At, Assessing, Spawning
  <2> QED  BY <1>3, <2>1, MovesTo DEF RecoverAck, Becomes
<1>4. CASE ListOrphans(s)
  <2> DEFINE rec == [Resting("recoverTasks") EXCEPT !.snap = tasks,
                       !.todo = {t \in Tasks : tasks[t].status \in OrphanStatus}]
  <2>1. rec \in SupRecord
    BY RestingTyped DEF SupRecord, Phase, TypedInv, StoreInv, StoreTypeOK
  <2>2. Fits(rec, runs')
    BY DEF Resting, Fits, Listing, Assessing, Spawning
  <2> QED  BY <1>4, <2>1, <2>2, MovesTo DEF ListOrphans, Becomes
<1>5. ASSUME NEW t \in Tasks, RecoverTask(s, t) PROVE GoodMove(s)
  <2> DEFINE drop == [sup[s] EXCEPT !.todo = @ \ {t}]
  <2>1. drop \in SupRecord /\ Fits(drop, runs')
    BY <1>0 DEF SupRecord, Fits
  <2> QED  BY <1>5, <2>1, MovesTo DEF RecoverTask, Drops, Becomes
<1>6. CASE Recovered(s)
  BY <1>6, RestMoves DEF Recovered
<1> QED  BY <1>1, <1>2, <1>3, <1>4, <1>5, <1>6 DEF Recovery

LEMMA CollectionMoves ==
  ASSUME TypedInv, RunsAge, NEW s \in Supervisors, Collects(s)
  PROVE  GoodMove(s)
<1>0. sup[s] \in SupRecord /\ Fits(sup[s], runs) /\ Fits(sup[s], runs')
  BY HeldNow DEF TypedInv, SupShape, ShapeOf
<1>1. CASE TickStart(s)
  <2> DEFINE rec == [Resting("collect") EXCEPT !.snap = tasks, !.deps = deps]
  <2>1. rec \in SupRecord
    BY RestingTyped DEF SupRecord, Phase, TypedInv, StoreInv, StoreTypeOK, ProgramTypes, ResolverTypeOK
  <2>2. Fits(rec, runs')
    BY DEF Resting, Fits, Listing, Assessing, Spawning
  <2> QED  BY <1>1, <2>1, <2>2, MovesTo DEF TickStart, Becomes
<1>2. CASE ListResults(s)
  <2> DEFINE rec == [sup[s] EXCEPT !.pc = "collecting",
                       !.todo = {r \in Runs : runs[r].status \in RunOutcome /\ ~runs[r].collected}]
  <2>1. rec \in SupRecord
    BY <1>0 DEF SupRecord, Phase
  <2>2. Fits(rec, runs')
    BY <1>0, <1>2 DEF SupRecord, Fits, ListResults, assessVars, Listing, Assessing, Spawning, RunOutcome
  <2> QED  BY <1>2, <2>1, <2>2, MovesTo DEF ListResults, Becomes
<1>3. ASSUME NEW r \in Runs, CollectResult(s, r) PROVE GoodMove(s)
  <2> DEFINE rec == [sup[s] EXCEPT !.pc = "judge", !.run = r, !.task = runs[r].task]
  <2>1. runs[r].status \in RunOutcome /\ runs' = runs /\ runs[r].status # "absent"
    BY <1>0, <1>3 DEF Fits, CollectResult, At, Admit, RunOutcome
  <2>2. rec \in SupRecord
    BY <1>0, <2>1, RunTaskKnown DEF TypedInv, SupRecord, Phase
  <2>3. Fits(rec, runs')
    BY <1>0, <1>3, <2>1 DEF SupRecord, Fits, CollectResult, At, Listing, Assessing, Spawning
  <2> QED  BY <1>3, <2>2, <2>3, MovesTo DEF CollectResult, Becomes
<1>4. ASSUME NEW r \in Runs, SkipResult(s, r) PROVE GoodMove(s)
  <2> DEFINE rec == [sup[s] EXCEPT !.pc = "acknowledge", !.run = r]
  <2>1. rec \in SupRecord
    BY <1>0 DEF SupRecord, Phase
  <2>2. Fits(rec, runs')
    BY <1>0, <1>4 DEF SupRecord, Fits, SkipResult, At, Listing, Assessing, Spawning
  <2> QED  BY <1>4, <2>1, <2>2, MovesTo DEF SkipResult, Becomes
<1>5. ASSUME NEW phase \in {"retry", "acknowledge"}, sup[s].pc \in Assessing, Goes(s, phase) PROVE GoodMove(s)
  <2> DEFINE rec == [sup[s] EXCEPT !.pc = phase]
  <2>1. rec \in SupRecord
    BY <1>0 DEF SupRecord, Phase
  <2>2. Fits(rec, runs')
    BY <1>0, <1>5 DEF SupRecord, Fits, Listing, Assessing, Spawning
  <2> QED  BY <1>5, <2>1, <2>2, MovesTo DEF Goes, Becomes
<1>6. CASE Judge(s)
  <2>1. sup[s].pc \in Assessing /\ (Goes(s, "acknowledge") \/ Goes(s, "retry") \/ Aborts(s))
    BY <1>6 DEF Judge, At, Assessing
  <2> QED  BY <1>5, <2>1, RestMoves DEF Aborts
<1>7. CASE RetryAfterFixes(s)
  <2>1. sup[s].pc \in Assessing /\ (Goes(s, "acknowledge") \/ Aborts(s))
    BY <1>7 DEF RetryAfterFixes, At, Assessing
  <2> QED  BY <1>5, <2>1, RestMoves DEF Aborts
<1>8. CASE AcknowledgeRun(s)
  <2> DEFINE rec == [sup[s] EXCEPT !.pc = "collecting", !.todo = @ \ {sup[s].run}, !.run = NoRun, !.task = NoTask]
  <2>1. rec \in SupRecord
    BY <1>0 DEF SupRecord, Phase
  <2>2. Fits(rec, runs')
    BY <1>0, <1>8 DEF SupRecord, Fits, AcknowledgeRun, At, Listing, Assessing, Spawning, RunOutcome
  <2> QED  BY <1>8, <2>1, <2>2, MovesTo DEF AcknowledgeRun, Becomes
<1>9. CASE Collected(s)
  <2> DEFINE rec == [sup[s] EXCEPT !.pc = "health"]
  <2>1. rec \in SupRecord
    BY <1>0 DEF SupRecord, Phase
  <2>2. Fits(rec, runs')
    BY <1>0 DEF SupRecord, Fits, Listing, Assessing, Spawning
  <2> QED  BY <1>9, <2>1, <2>2, MovesTo DEF Collected, Goes, Becomes
<1> QED  BY <1>1, <1>2, <1>3, <1>4, <1>6, <1>7, <1>8, <1>9 DEF Collects, Collection

\* Health checks, deadlocks and the phases without a result at hand.
LEMMA QuietMoves ==
  ASSUME TypedInv, RunsAge, NEW s \in Supervisors, Checks(s) \/ Deadlock(s) \/ AwaitResolution(s)
  PROVE  GoodMove(s)
<1>0. sup[s] \in SupRecord /\ Fits(sup[s], runs')
  BY HeldNow
<1>1. ASSUME NEW x, Drops(s, x) PROVE GoodMove(s)
  <2> DEFINE drop == [sup[s] EXCEPT !.todo = @ \ {x}]
  <2>1. drop \in SupRecord /\ Fits(drop, runs')
    BY <1>0 DEF SupRecord, Fits
  <2> QED  BY <1>1, <2>1, MovesTo DEF Drops, Becomes
<1>2. CASE ListActive(s)
  <2> DEFINE rec == [sup[s] EXCEPT !.pc = "checking", !.todo = RunningRuns]
  <2>1. rec \in SupRecord
    BY <1>0 DEF SupRecord, Phase, RunningRuns
  <2>2. Fits(rec, runs')
    BY <1>0, <1>2 DEF SupRecord, Fits, ListActive, assessVars, Listing, Assessing, Spawning, RunningRuns, IsRunning
  <2> QED  BY <1>2, <2>1, <2>2, MovesTo DEF ListActive, Becomes
<1>3. CASE Checked(s)
  <2> DEFINE rec == [sup[s] EXCEPT !.pc = "plan"]
  <2>1. rec \in SupRecord
    BY <1>0 DEF SupRecord, Phase
  <2>2. Fits(rec, runs')
    BY <1>0 DEF SupRecord, Fits, Listing, Assessing, Spawning
  <2> QED  BY <1>3, <2>1, <2>2, MovesTo DEF Checked, Goes, Becomes
<1>4. CASE PlanDeadlock(s)
  <2> DEFINE rec == [sup[s] EXCEPT !.pc = "deadlock", !.todo = Snapped(s, {"pending"})]
  <2>1. rec \in SupRecord
    BY <1>0 DEF SupRecord, Phase, Snapped, Listed
  <2>2. Fits(rec, runs')
    BY <1>0 DEF SupRecord, Fits, Listing, Assessing, Spawning
  <2> QED  BY <1>4, <2>1, <2>2, MovesTo DEF PlanDeadlock, Becomes
<1>5. CASE AwaitResolution(s) \/ DeadlockHandled(s)
  BY <1>5, RestMoves DEF AwaitResolution, DeadlockHandled
<1>6. CASE (\E r \in Runs : CheckRun(s, r)) \/ \E t \in Tasks : ForceFail(s, t)
  BY <1>1, <1>6 DEF CheckRun, ForceFail
<1> QED  BY <1>2, <1>3, <1>4, <1>5, <1>6 DEF Checks, HealthCheck, Deadlock

LEMMA DispatchMoves ==
  ASSUME TypedInv, RunsAge, NEW s \in Supervisors, Dispatches(s)
  PROVE  GoodMove(s)
<1>0. sup[s] \in SupRecord /\ Fits(sup[s], runs')
  BY HeldNow
<1>1. CASE PlanDispatch(s)
  <2> DEFINE slots == IF Cardinality(RunningRuns) >= MaxConcurrency THEN 0
                      ELSE MaxConcurrency - Cardinality(RunningRuns)
             rec == [sup[s] EXCEPT !.pc = "spawning", !.todo = Ready(s), !.slots = slots]
  <2>1. slots \in 0..MaxConcurrency
    <3>1. IsFiniteSet(RunningRuns)
      BY SupervisorAssumption, FS_Subset DEF RunningRuns
    <3>2. Cardinality(RunningRuns) \in Nat
      BY <3>1, FS_CardinalityType
    <3> QED  BY <3>2, SupervisorAssumption
  <2>2. Ready(s) \subseteq Tasks
    BY DEF Ready, Snapped, Listed
  <2>3. rec \in SupRecord
    BY <1>0, <2>1, <2>2 DEF SupRecord, Phase
  <2>4. Fits(rec, runs')
    BY <1>0 DEF SupRecord, Fits, Listing, Assessing, Spawning
  <2>5. sup' = [sup EXCEPT ![s] = rec]
    BY <1>1 DEF PlanDispatch, Becomes
  <2> QED  BY <2>3, <2>4, <2>5, MovesTo
<1>2. CASE Dispatched(s) \/ \E t \in Tasks : DispatchConflict(s, t)
  BY <1>2, RestMoves DEF Dispatched, DispatchConflict, Aborts
<1>3. ASSUME NEW t \in Tasks, SkipRunning(s, t) PROVE GoodMove(s)
  <2> DEFINE drop == [sup[s] EXCEPT !.todo = @ \ {t}]
  <2>1. drop \in SupRecord /\ Fits(drop, runs')
    BY <1>0 DEF SupRecord, Fits
  <2> QED  BY <1>3, <2>1, MovesTo DEF SkipRunning, Drops, Becomes
<1>4. ASSUME NEW t \in Tasks, Dispatch(s, t) PROVE GoodMove(s)
  <2> DEFINE rec == [sup[s] EXCEPT !.pc = "prepare", !.todo = @ \ {t}, !.task = t, !.run = NewRun, !.slots = @ - 1]
  <2>1. NewRun \in Runs /\ sup[s].slots > 0
    BY <1>4, NewRunIsFresh DEF Dispatch, Dispatching
  <2>2. runs'[NewRun].status = "running" /\ runs'[NewRun].task = t
    BY <1>4, <2>1 DEF Dispatch, Claim, TypedInv, StoreInv, StoreTypeOK
  <2>3. rec \in SupRecord
    <3>1. sup[s].slots - 1 \in 0..MaxConcurrency
      BY <1>0, <2>1, SupervisorAssumption DEF SupRecord
    <3> QED  BY <1>0, <2>1, <3>1 DEF SupRecord, Phase
  <2>4. Fits(rec, runs')
    BY <1>0, <2>1, <2>2 DEF SupRecord, Fits, Listing, Assessing, Spawning
  <2> QED  BY <1>4, <2>3, <2>4, MovesTo DEF Dispatch, Becomes
<1>5. ASSUME Returns(s) PROVE GoodMove(s)
  <2> DEFINE rec == [sup[s] EXCEPT !.pc = "spawning", !.task = NoTask, !.run = NoRun]
  <2>1. rec \in SupRecord
    BY <1>0 DEF SupRecord, Phase
  <2>2. Fits(rec, runs')
    BY <1>0 DEF SupRecord, Fits, Listing, Assessing, Spawning
  <2> QED  BY <1>5, <2>1, <2>2, MovesTo DEF Returns, Becomes
<1>6. CASE PrepareAbandoned(s) \/ PrepareVetoed(s) \/ PrepareFails(s) \/ Register(s)
  BY <1>5, <1>6 DEF PrepareAbandoned, PrepareVetoed, PrepareFails, Register
<1>7. CASE Spawn(s)
  <2> DEFINE rec == [sup[s] EXCEPT !.pc = "register"]
  <2>1. rec \in SupRecord
    BY <1>0 DEF SupRecord, Phase
  <2>2. Fits(rec, runs')
    BY <1>0, <1>7 DEF SupRecord, Fits, Spawn, At, Listing, Assessing, Spawning
  <2> QED  BY <1>7, <2>1, <2>2, MovesTo DEF Spawn, Goes, Becomes
<1> QED  BY <1>1, <1>2, <1>3, <1>4, <1>6, <1>7 DEF Dispatches

\* Whatever happens, each supervisor's record keeps its type and its shape.
LEMMA SupervisorsKept ==
  ASSUME TypedInv, [Next]_vars PROVE (SupTypeOK /\ SupShape)'
<1>0. RunsAge
  BY StepIsGood
<1>1. ASSUME NEW s \in Supervisors, SupervisorStep(s) \/ SupervisorCrash(s) PROVE GoodMove(s)
  BY <1>0, <1>1, SupervisorSteps, RecoveryMoves, CollectionMoves, QuietMoves, DispatchMoves, RestMoves
     DEF SupervisorCrash
<1>2. \A s \in Supervisors : sup'[s] = sup[s] => sup'[s] \in SupRecord /\ ShapeOf(s)'
  BY <1>0, ShapeAges
<1>3. sup \in [Supervisors -> SupRecord]
  BY DEF TypedInv, ProgramTypes, SupTypeOK, SupRecord
<1>4. (\E s \in Supervisors : GoodMove(s)) \/ sup' = sup
  <2>1. ASSUME NEW r \in Runs, RunProcess(r) \/ Works(r) \/ Time(r) \/ RunnerCrash(r) PROVE sup' = sup
    BY <2>1 DEF RunProcess, Works, Time, RunnerCrash, hostVars
  <2>2. ASSUME NEW t \in Tasks, Kill(t) \/ RetryTask(t) \/ ClearTask(t) PROVE sup' = sup
    BY <2>2 DEF Kill, RetryTask, ClearTask, hostVars
  <2>3. ASSUME NEW s \in Supervisors, Resolves(s) PROVE sup' = sup
    BY <2>3 DEF Resolves
  <2>4. CASE UNCHANGED vars
    BY <2>4 DEF vars, supVars, hostVars
  <2>5. ASSUME NEW s \in Supervisors, NEW t \in Tasks, DeadlinePasses(s, t) PROVE sup' = sup
    BY <2>5 DEF DeadlinePasses
  <2>6. ASSUME NEW q \in Reassessors, Reassess(q) PROVE sup' = sup
    BY <2>6 DEF Reassess, hostVars
  <2> QED  BY <1>1, <2>1, <2>2, <2>3, <2>4, <2>5, <2>6 DEF Next, Supervises
<1>5. CASE sup' = sup
  BY <1>2, <1>3, <1>5 DEF SupTypeOK, SupShape, SupRecord
<1>6. ASSUME NEW s \in Supervisors, GoodMove(s) PROVE (SupTypeOK /\ SupShape)'
  <2>1. \A q \in Supervisors : sup'[q] \in SupRecord /\ ShapeOf(q)'
    BY <1>2, <1>6 DEF GoodMove
  <2>2. sup' \in [Supervisors -> SupRecord]
    BY <1>6, <2>1 DEF GoodMove
  <2> QED  BY <2>1, <2>2 DEF SupTypeOK, SupShape, SupRecord
<1> QED  BY <1>4, <1>5, <1>6

LEMMA SignalTyped ==
  ASSUME RunnerTypeOK, NEW r \in Runs, MaySignal(r) PROVE proc' \in [Runs -> ProcPhase]
BY DEF RunnerTypeOK, MaySignal, Enters, ProcPhase

LEMMA RunnersTyped == ASSUME TypedInv, [Next]_vars PROVE RunnerTypeOK'
<1> USE DEF TypedInv, ProgramTypes
<1>1. ASSUME NEW r \in Runs, RunProcess(r) \/ Works(r) \/ Time(r) \/ RunnerCrash(r) PROVE RunnerTypeOK'
  BY <1>1 DEF RunProcess, RunnerStep, Works, Time, RunnerCrash, Start, Work, PreparationFails, Observe, Abort,
     Finish, LosesStore, Die, Elapse, Enters, RunnerTypeOK, ProcPhase
<1>2. ASSUME NEW t \in Tasks, Kill(t) PROVE RunnerTypeOK'
  <2>1. LiveRun(t) => tasks[t].active \in Runs
    BY DEF LiveRun, StoreInv, StoreTypeOK, TaskRow
  <2> QED  BY <1>2, <2>1, SignalTyped DEF Kill, RunnerTypeOK
<1>3. ASSUME NEW t \in Tasks, ClearTask(t) PROVE RunnerTypeOK'
  BY <1>3, SignalTyped DEF ClearTask, RunnerTypeOK
<1>4. ASSUME NEW t \in Tasks, RetryTask(t) PROVE RunnerTypeOK'
  BY <1>4 DEF RetryTask, RunnerTypeOK, runnerVars
<1>5. ASSUME NEW s \in Supervisors, SupervisorStep(s) PROVE RunnerTypeOK'
  <2>1. CASE Recovery(s)
    BY <2>1 DEF Recovery, Restart, RecoverAck, ListOrphans, Recovered, RecoverRun, RecoverTask, runnerVars, RunnerTypeOK
  <2>2. CASE Collects(s)
    BY <2>2 DEF Collects, Collection, TickStart, ListResults, Collected, Judge, RetryAfterFixes, AcknowledgeRun,
       CollectResult, SkipResult, runnerVars, RunnerTypeOK
  <2>3. ASSUME NEW r \in Runs, CheckRun(s, r) PROVE RunnerTypeOK'
    BY <2>3, SignalTyped DEF CheckRun, RunnerTypeOK
  <2>4. CASE ListActive(s) \/ Checked(s) \/ AwaitResolution(s) \/ Deadlock(s)
    BY <2>4 DEF ListActive, Checked, AwaitResolution, Deadlock, PlanDeadlock, DeadlockHandled, ForceFail, runnerVars,
       RunnerTypeOK
  <2>5. CASE Spawn(s)
    <3>1. sup[s].run \in Runs
      BY <2>5 DEF Spawn, At, SupShape, ShapeOf, Fits, Spawning
    <3> QED  BY <2>5, <3>1 DEF Spawn, Enters, RunnerTypeOK, ProcPhase
  <2>6. CASE Register(s)
    <3>1. sup[s].run \in Runs
      BY <2>6 DEF Register, At, SupShape, ShapeOf, Fits, Spawning
    <3> QED  BY <2>6, <3>1, SignalTyped DEF Register, RunnerTypeOK
  <2>7. CASE \/ PlanDispatch(s) \/ Dispatched(s) \/ PrepareAbandoned(s) \/ PrepareVetoed(s) \/ PrepareFails(s)
             \/ \E t \in Tasks : SkipRunning(s, t) \/ Dispatch(s, t) \/ DispatchConflict(s, t)
    BY <2>7 DEF PlanDispatch, Dispatched, PrepareAbandoned, PrepareVetoed, PrepareFails, SkipRunning, Dispatch,
       DispatchConflict, runnerVars, RunnerTypeOK
  <2> QED  BY <1>5, <2>1, <2>2, <2>3, <2>4, <2>5, <2>6, <2>7, SupervisorSteps DEF Checks, HealthCheck, Dispatches
<1>6. ASSUME NEW s \in Supervisors, Resolves(s) PROVE RunnerTypeOK'
  <2>1. ASSUME NEW t \in Tasks, NEW f \in Tasks, RetryDependency(s, t, f) PROVE RunnerTypeOK'
    <3>1. LiveRun(f) => tasks[f].active \in Runs
      BY DEF LiveRun, StoreInv, StoreTypeOK, TaskRow
    <3> QED  BY <1>6, <2>1, <3>1, SignalTyped DEF RetryDependency, Resolves, RunnerTypeOK
  <2> QED  BY <1>6, <2>1 DEF Resolves, Resolution, RunnerTypeOK
<1>7. CASE UNCHANGED vars
  BY <1>7 DEF vars, supVars, runnerVars, RunnerTypeOK
<1>8. ASSUME NEW s \in Supervisors, SupervisorCrash(s) PROVE RunnerTypeOK'
  BY <1>8 DEF SupervisorCrash, runnerVars, RunnerTypeOK
<1>9. ASSUME (\E s \in Supervisors, t \in Tasks : DeadlinePasses(s, t)) \/ \E q \in Reassessors : Reassess(q)
      PROVE  RunnerTypeOK'
  BY <1>9 DEF DeadlinePasses, Reassess, runnerVars, RunnerTypeOK
<1> QED  BY <1>1, <1>2, <1>3, <1>4, <1>5, <1>6, <1>7, <1>8, <1>9 DEF Next, Supervises

\* Only the assessment writes the counters of rounds, within their limits.
LEMMA RoundsTyped == ASSUME TypedInv, [Next]_vars PROVE RoundsTypeOK'
<1> USE DEF TypedInv, ProgramTypes
<1>1. ASSUME NEW s \in Supervisors, Judge(s) \/ RetryAfterFixes(s) PROVE RoundsTypeOK'
  <2>1. sup[s].task \in Tasks
    BY <1>1, RunTaskKnown DEF Judge, RetryAfterFixes, At, SupShape, ShapeOf, Fits, Assessing
  <2>2. /\ rounds[sup[s].task].fixes < MaxFix => rounds[sup[s].task].fixes + 1 \in 0..MaxFix
        /\ rounds[sup[s].task].questions < MaxQuestions => rounds[sup[s].task].questions + 1 \in 0..MaxQuestions
    BY <2>1, AssessmentAssumption DEF RoundsTypeOK
  <2>3. ASSUME NEW t \in Tasks, NEW n \in 0..MaxFix, rounds' = [rounds EXCEPT ![t].fixes = n] PROVE RoundsTypeOK'
    BY <2>3 DEF RoundsTypeOK
  <2>4. ASSUME NEW t \in Tasks, NEW n \in 0..MaxQuestions, rounds' = [rounds EXCEPT ![t].questions = n] PROVE RoundsTypeOK'
    BY <2>4 DEF RoundsTypeOK
  <2>5. 0 \in 0..MaxFix
    BY AssessmentAssumption
  <2>6. CASE rounds' = rounds
    BY <2>6 DEF RoundsTypeOK
  <2> QED  BY <1>1, <2>1, <2>2, <2>3, <2>4, <2>5, <2>6 DEF Judge, RetryAfterFixes, Decide, FixesExhausted, Refused,
              Superseded, RetryOrFail, SuspendForHuman, Retry, FinalFailure, AnswerAndRerun, Accept, Fix,
              RetryOvertaken, RequeueOvertaken, assessVars
<1>2. (\E s \in Supervisors : Judge(s) \/ RetryAfterFixes(s)) \/ rounds' = rounds
  BY DEF Next, Supervises, SupervisorStep, Recovery, Restart, RecoverAck, ListOrphans, Recovered, RecoverRun, RecoverTask,
     Collection, TickStart, ListResults, Collected, AcknowledgeRun, CollectResult, SkipResult, Admit, HealthCheck,
     CheckRun, ListActive, Checked, AwaitResolution, Deadlock, PlanDeadlock, DeadlockHandled, ForceFail, Dispatches,
     PlanDispatch, Dispatched, PrepareAbandoned, PrepareVetoed, PrepareFails, Spawn, Register, SkipRunning, Dispatch,
     DispatchConflict, Resolves, SupervisorCrash, RunProcess, Works, Time, RunnerCrash, Kill, RetryTask, ClearTask,
     DeadlinePasses, Reassess, vars, supVars, assessVars
<1>3. CASE rounds' = rounds
  BY <1>3 DEF RoundsTypeOK
<1> QED  BY <1>1, <1>2, <1>3

ResolverRecord ==
  [pc : {"idle", "deciding", "failing"}, snap : [Tasks -> TaskRow],
   deps : [Tasks -> SUBSET Tasks], todo : SUBSET Tasks, retried : SUBSET Tasks]

\* The resolution of s becomes rec, a well-typed one over queued Tasks.
ResolverBecomes(s, rec) ==
  /\ resolver' = [resolver EXCEPT ![s] = rec]
  /\ rec \in ResolverRecord
  /\ rec.todo \subseteq Listed(rec.snap, {"pending"})

\* Less to decide about the same listing.
LEMMA ResolverShrinks ==
  ASSUME TypedInv, NEW s \in Supervisors, NEW rec \in ResolverRecord,
         rec.snap = resolver[s].snap, rec.todo \subseteq resolver[s].todo
  PROVE  rec.todo \subseteq Listed(rec.snap, {"pending"})
BY DEF TypedInv, ResolverShape

LEMMA ResolverMoves ==
  ASSUME TypedInv, NEW s \in Supervisors, NEW rec, ResolverBecomes(s, rec),
         deps' \in [Tasks -> SUBSET Tasks], absorbed' \in [Tasks -> 0..MaxResolutions]
  PROVE  (ResolverTypeOK /\ ResolverShape)'
BY DEF TypedInv, ProgramTypes, ResolverTypeOK, ResolverShape, ResolverBecomes, ResolverRecord

LEMMA DecidedMoves ==
  ASSUME TypedInv, NEW s \in Supervisors, NEW t \in Tasks, Decided(s, t),
         deps' \in [Tasks -> SUBSET Tasks], absorbed' \in [Tasks -> 0..MaxResolutions]
  PROVE  (ResolverTypeOK /\ ResolverShape)'
<1> DEFINE rec == [resolver[s] EXCEPT !.todo = @ \ {t}]
<1>0. resolver[s] \in ResolverRecord
  BY DEF TypedInv, ProgramTypes, ResolverTypeOK, ResolverRecord
<1>1. /\ rec \in ResolverRecord
      /\ rec.snap = resolver[s].snap /\ rec.todo \subseteq resolver[s].todo
  BY <1>0 DEF ResolverRecord
<1>2. ResolverBecomes(s, rec)
  BY <1>1, ResolverShrinks DEF ResolverBecomes, Decided
<1> QED  BY <1>2, ResolverMoves

LEMMA NoResolutionTyped == NoResolution \in ResolverRecord /\ NoResolution.todo = {}
BY DEF NoResolution, ResolverRecord, NoSnap, NoDeps, AbsentTask, TaskRow, Missing

LEMMA ResolversKept == ASSUME TypedInv, [Next]_vars PROVE (ResolverTypeOK /\ ResolverShape)'
<1>0. deps \in [Tasks -> SUBSET Tasks] /\ absorbed \in [Tasks -> 0..MaxResolutions]
  BY DEF TypedInv, ProgramTypes, ResolverTypeOK
<1>a. resolver \in [Supervisors -> ResolverRecord]
  BY DEF TypedInv, ProgramTypes, ResolverTypeOK, ResolverRecord
<1>1. CASE UNCHANGED resolverVars
  BY <1>1 DEF TypedInv, ProgramTypes, ResolverTypeOK, ResolverShape, resolverVars
<1>2. ASSUME NEW s \in Supervisors, AwaitResolution(s) PROVE (ResolverTypeOK /\ ResolverShape)'
  <2> DEFINE rec == [pc |-> "deciding", snap |-> sup[s].snap, deps |-> sup[s].deps, retried |-> {},
                     todo |-> Resolvable(sup[s].snap, sup[s].deps) \cup Unresolvable(sup[s].snap, sup[s].deps)]
  <2>1. CASE StartResolution(s, sup[s].snap, sup[s].deps)
    <3>1. rec.todo \subseteq Listed(rec.snap, {"pending"})
      BY DEF Resolvable, Unresolvable
    <3>2. rec.todo \subseteq Tasks
      BY <3>1 DEF Listed
    <3>3. sup[s].snap \in [Tasks -> TaskRow] /\ sup[s].deps \in [Tasks -> SUBSET Tasks]
      BY DEF TypedInv, ProgramTypes, SupTypeOK
    <3>4. rec \in ResolverRecord
      BY <3>2, <3>3 DEF ResolverRecord
    <3>5. ResolverBecomes(s, rec)
      BY <2>1, <3>1, <3>4 DEF StartResolution, ResolverBecomes
    <3> QED  BY <1>0, <2>1, <3>5, ResolverMoves DEF StartResolution
  <2> QED  BY <1>1, <1>2, <2>1 DEF AwaitResolution
<1>3. ASSUME NEW s \in Supervisors, NEW t \in Tasks, NEW f \in Tasks, AlreadyRetried(s, t, f)
      PROVE  (ResolverTypeOK /\ ResolverShape)'
  BY <1>0, <1>3, DecidedMoves DEF AlreadyRetried
<1>4. ASSUME NEW s \in Supervisors, NEW t \in Tasks, NEW f \in Tasks, Absorb(s, t, f)
      PROVE  (ResolverTypeOK /\ ResolverShape)'
  <2>1. absorbed[t] + 1 \in 0..MaxResolutions /\ resolver[s].deps[t] \ {f} \subseteq Tasks
    BY <1>0, <1>4, ResolverAssumption DEF Absorb, MayDecide, TypedInv, ProgramTypes, ResolverTypeOK
  <2>2. deps' \in [Tasks -> SUBSET Tasks] /\ absorbed' \in [Tasks -> 0..MaxResolutions]
    BY <1>0, <1>4, <2>1 DEF Absorb
  <2> QED  BY <1>4, <2>2, DecidedMoves DEF Absorb
<1>5. ASSUME NEW s \in Supervisors, NEW t \in Tasks, NEW f \in Tasks, RetryDependency(s, t, f)
      PROVE  (ResolverTypeOK /\ ResolverShape)'
  <2> DEFINE rec == [resolver[s] EXCEPT !.todo = @ \ {t}, !.retried = @ \cup {f}]
  <2>1. /\ rec \in ResolverRecord
        /\ rec.snap = resolver[s].snap /\ rec.todo \subseteq resolver[s].todo
    <3>1. resolver[s] \in ResolverRecord
      BY <1>a
    <3> QED  BY <3>1 DEF ResolverRecord
  <2>2. CASE Decided(s, t)
    BY <1>0, <1>5, <2>2, DecidedMoves DEF RetryDependency
  <2>3. CASE resolver' = [resolver EXCEPT ![s].todo = @ \ {t}, ![s].retried = @ \cup {f}]
    <3>0. resolver' = [resolver EXCEPT ![s] = rec]
      BY <2>3
    <3>1. ResolverBecomes(s, rec)
      BY <2>1, <3>0, ResolverShrinks DEF ResolverBecomes
    <3> QED  BY <1>0, <1>5, <3>1, ResolverMoves DEF RetryDependency
  <2> QED  BY <1>5, <2>2, <2>3 DEF RetryDependency
<1>6. ASSUME NEW s \in Supervisors, NEW t \in Tasks, GiveUp(s, t) \/ FailCaptured(s, t)
      PROVE  (ResolverTypeOK /\ ResolverShape)'
  BY <1>0, <1>6, DecidedMoves DEF GiveUp, FailCaptured
<1>7. ASSUME NEW s \in Supervisors, ResolutionBreaks(s) PROVE (ResolverTypeOK /\ ResolverShape)'
  <2> DEFINE rec == [resolver[s] EXCEPT !.pc = "failing", !.todo = Listed(resolver[s].snap, {"pending"})]
  <2>1. rec \in ResolverRecord /\ rec.todo \subseteq Listed(rec.snap, {"pending"})
    <3>1. resolver[s] \in ResolverRecord
      BY <1>a
    <3> QED  BY <3>1 DEF ResolverRecord, Listed
  <2>2. ResolverBecomes(s, rec)
    BY <1>7, <2>1 DEF ResolverBecomes, ResolutionBreaks, TypedInv, ProgramTypes, ResolverTypeOK
  <2> QED  BY <1>0, <1>7, <2>2, ResolverMoves DEF ResolutionBreaks
<1>8. ASSUME NEW s \in Supervisors, ResolutionEnds(s) \/ SupervisorCrash(s)
      PROVE  (ResolverTypeOK /\ ResolverShape)'
  <2>1. ResolverBecomes(s, NoResolution)
    BY <1>8, NoResolutionTyped DEF ResolverBecomes, ResolutionEnds, SupervisorCrash
  <2> QED  BY <1>0, <1>8, <2>1, ResolverMoves DEF ResolutionEnds, SupervisorCrash
<1> QED
  BY <1>1, <1>2, <1>3, <1>4, <1>5, <1>6, <1>7, <1>8
     DEF Next, Supervises, SupervisorStep, Resolves, Resolution, RunProcess, Works, Time, RunnerCrash, Kill, RetryTask,
         ClearTask, DeadlinePasses, Reassess, vars, supVars, hostVars

LEMMA IdleKept == ASSUME TypedInv, [Next]_vars PROVE IdleIsUnowned'
<1> USE LifecycleAssumption DEF TypedInv
<1>1. ASSUME NEW t \in Tasks, NEW status, SetTaskStatus(t, status), status \notin {"draft", "awaiting_approval"}
      PROVE  IdleIsUnowned'
  <2>1. tasks'[t].status = status /\ \A u \in Tasks : u # t => tasks'[u] = tasks[u]
    BY <1>1 DEF SetTaskStatus, StoreInv, StoreTypeOK, TaskRow
  <2> QED  BY <1>1, <2>1 DEF IdleIsUnowned
<1>2. ASSUME NEW t \in Tasks, NEW status, NEW retries, EndAttempt(t, status, retries) PROVE IdleIsUnowned'
  BY <1>2, EndedRow DEF IdleIsUnowned
<1>3. ASSUME NEW t \in Tasks, NEW ref, NEW r \in Runs, Claim(t, ref, r) PROVE IdleIsUnowned'
  BY <1>3, Claimed DEF IdleIsUnowned
<1>4. ASSUME NEW t \in Tasks, DeleteTask(t) PROVE IdleIsUnowned'
  <2>1. SetTaskStatus(t, "deleted")
    BY <1>4 DEF DeleteTask, SetTaskStatus
  <2> QED  BY <1>1, <2>1
<1>5. CASE tasks' = tasks
  BY <1>5 DEF IdleIsUnowned
<1> QED
  BY <1>1, <1>2, <1>3, <1>4, <1>5, StepIsLifeEffect
     DEF LifeEffect, storeVars, Reviews, Suspends, Cancels, Concludes, TerminalStatus, Reruns, Imposes, OutcomeWrite,
         CompleteRun, MarkRunCollected

\* The monitors of the supervisors, and what the record holds.
LEMMA MonitorsTyped == ASSUME TypedInv, [Next]_vars PROVE SlaTypeOK'
<1> USE MonitorsAssumption DEF TypedInv, ProgramTypes, SlaTypeOK, Monitor
<1>1. ASSUME NEW s \in Supervisors, NEW m \in Monitor, sla' = [sla EXCEPT ![s] = m] PROVE SlaTypeOK'
  BY <1>1
<1>2. ASSUME NEW m \in Monitor, NEW t \in Tasks
      PROVE  SlaListed(m) \in Monitor /\ SlaTaken(m, t) \in Monitor /\ SlaForgets(m, t) \in Monitor
  BY DEF SlaListed, SlaDue, SlaTaken, SlaForgets
<1>3. NoMonitor \in Monitor
  BY DEF NoMonitor
<1>4. CASE sla' = sla
  BY <1>4
<1>5. ASSUME NEW s \in Supervisors, Judge(s) \/ Checked(s) PROVE SlaTypeOK'
  <2>1. CASE Judge(s)
    <3>1. sup[s].task \in Tasks
      BY <2>1, RunTaskKnown DEF Judge, At, SupShape, ShapeOf, Fits, Assessing
    <3> QED  BY <1>1, <1>2, <1>4, <2>1, <3>1 DEF Judge, Forgets
  <2>2. CASE Checked(s)
    <3>1. sla' = [sla EXCEPT ![s] = SlaListed(sla[s])]
      BY <2>2 DEF Checked
    <3>2. sla[s] \in Monitor
      OBVIOUS
    <3>3. SlaListed(sla[s]) \in Monitor
      BY <3>2 DEF SlaListed, SlaDue
    <3> QED  BY <1>1, <1>4, <3>1, <3>3
  <2> QED  BY <1>5, <2>1, <2>2
<1>6. ASSUME NEW s \in Supervisors, SupervisorStep(s) PROVE SlaTypeOK'
  BY <1>4, <1>5, <1>6 DEF SupervisorStep
<1>7. ASSUME NEW s \in Supervisors, SupervisorCrash(s) PROVE SlaTypeOK'
  BY <1>1, <1>3, <1>7 DEF SupervisorCrash
<1>8. ASSUME NEW s \in Supervisors, NEW t \in Tasks, DeadlinePasses(s, t) PROVE SlaTypeOK'
  BY <1>1, <1>2, <1>8 DEF DeadlinePasses, SlaFail
<1> QED
  BY <1>4, <1>6, <1>7, <1>8
     DEF Next, Supervises, Resolves, RunProcess, Works, Time, RunnerCrash, Kill, RetryTask, ClearTask, Reassess,
         vars, supVars, hostVars

LEMMA RecordTyped == ASSUME TypedInv, [Next]_vars PROVE OverruledTypeOK'
<1>1. CASE overruled' = overruled
  BY <1>1 DEF TypedInv, ProgramTypes, OverruledTypeOK
<1>2. ASSUME Overrules, Rewrites PROVE OverruledTypeOK'
  <2>1. \A u \in Tasks : tasks[u].status \in TaskStatus \cup Missing /\ tasks[u].revision \in 0..MaxRevision
    BY DEF TypedInv, StoreInv, StoreTypeOK, TaskRow
  <2>2. ASSUME NEW u \in Tasks
        PROVE  Overrule(u) \in [task : Tasks, revision : 0..MaxRevision,
                                was : TerminalStatus \cup {"open"}, is : TerminalStatus \cup {"open"}]
    BY <2>1 DEF Overrule, Standing
  <2> QED  BY <1>2, <2>2 DEF Overrules, TypedInv, ProgramTypes, OverruledTypeOK
<1>3. ASSUME NEW s \in Supervisors, NEW t \in Tasks, DeadlinePasses(s, t) PROVE OverruledTypeOK'
  BY <1>2, <1>3, DeadlineIsEffect DEF DeadlinePasses
<1>4. ASSUME NEW q \in Reassessors, Reassess(q) PROVE OverruledTypeOK'
  BY <1>2, <1>4, ReassessIsEffect DEF Reassess
<1> QED
  BY <1>1, <1>3, <1>4 DEF Next, Supervises, Resolves, SupervisorCrash, RunProcess, Works, Time, RunnerCrash, Kill,
     RetryTask, ClearTask, outside, vars

RequestsTyped == reassess \in [Reassessors -> Request] /\ Addressed

\* The request of q goes on as rec.
LEMMA RequestGoes ==
  ASSUME RequestsTyped, NEW q \in Reassessors, NEW rec \in Request,
         rec.pc \in {"judging", "moving"} => rec.task \in Tasks,
         reassess' = [reassess EXCEPT ![q] = rec]
  PROVE  RequestsTyped'
BY DEF RequestsTyped, Addressed

LEMMA FinishedTyped == NoRequest("finished") \in Request /\ NoRequest("finished").pc = "finished"
BY DEF NoRequest, Request, TerminalStatus

LEMMA RequestsKept == ASSUME TypedInv, [Next]_vars PROVE RequestsTyped'
<1>0. RequestsTyped
  BY DEF TypedInv, ProgramTypes, RequestsTyped
<1>1. ASSUME NEW q \in Reassessors, Reassessment(q, Assessed) PROVE RequestsTyped'
  <2>0. reassess[q] \in Request /\ (reassess[q].pc \in {"judging", "moving"} => reassess[q].task \in Tasks)
    BY <1>0 DEF RequestsTyped, Addressed
  <2>1. ASSUME NEW t \in Assessed, ReassessBegin(q, t) PROVE RequestsTyped'
    <3> DEFINE rec == [pc |-> "judging", step |-> 1, task |-> t, was |-> tasks[t].status]
    <3>1. rec \in Request /\ rec.task \in Tasks /\ reassess' = [reassess EXCEPT ![q] = rec]
      BY <2>1, AssessmentAssumption DEF ReassessBegin, Request
    <3> HIDE DEF rec
    <3> QED  BY <1>0, <3>1, RequestGoes
  <2>2. ASSUME ReassessGoes(q, "finished") PROVE RequestsTyped'
    <3>1. reassess' = [reassess EXCEPT ![q] = NoRequest("finished")]
      BY <2>2 DEF ReassessGoes
    <3> QED  BY <1>0, <3>1, FinishedTyped, RequestGoes
  <2>3. ASSUME ReassessGoes(q, "moving"), reassess[q].pc = "judging" PROVE RequestsTyped'
    <3> DEFINE rec == [reassess[q] EXCEPT !.pc = "moving"]
    <3>1. reassess' = [reassess EXCEPT ![q] = rec]
      BY <2>3 DEF ReassessGoes
    <3>2. rec \in Request /\ rec.task \in Tasks
      BY <2>0, <2>3 DEF Request
    <3> HIDE DEF rec
    <3> QED  BY <1>0, <3>1, <3>2, RequestGoes
  <2>4. ASSUME reassess[q].pc = "moving", Chain[reassess[q].step] # "done",
               reassess' = [reassess EXCEPT ![q].step = @ + 1]
        PROVE  RequestsTyped'
    <3> DEFINE rec == [reassess[q] EXCEPT !.step = @ + 1]
    <3>1. reassess' = [reassess EXCEPT ![q] = rec]
      BY <2>4
    <3>2. reassess[q].step + 1 \in 1..5
      BY <2>0, <2>4 DEF Request, Chain
    <3>3. rec \in Request /\ rec.task \in Tasks
      BY <2>0, <2>4, <3>2 DEF Request
    <3> HIDE DEF rec
    <3> QED  BY <1>0, <3>1, <3>3, RequestGoes
  <2>5. CASE ReassessPasses(q)
    BY <2>2, <2>3, <2>5 DEF ReassessPasses
  <2>6. CASE ReassessFails(q)
    BY <2>2, <2>6 DEF ReassessFails
  <2>7. CASE ReassessMoves(q)
    BY <2>2, <2>4, <2>7 DEF ReassessMoves
  <2> QED  BY <1>1, <2>1, <2>5, <2>6, <2>7 DEF Reassessment
<1>2. ASSUME NEW Q, RequestsLost(Q) PROVE RequestsTyped'
  BY <1>0, <1>2, FinishedTyped DEF RequestsTyped, RequestsLost, Addressed
<1>3. CASE reassess' = reassess
  BY <1>0, <1>3 DEF RequestsTyped, Addressed
<1> QED
  BY <1>1, <1>2, <1>3 DEF Next, Supervises, Resolves, SupervisorCrash, RunProcess, Works, Time, RunnerCrash, Kill,
     RetryTask, ClearTask, DeadlinePasses, Reassess, outside, vars

\* What people ask for is only added to.
LEMMA ManualGrows == ASSUME TypedInv, [Next]_vars PROVE \A t \in Tasks : manual'[t] \in Nat /\ manual'[t] >= manual[t]
<1>0. manual \in [Tasks -> Nat] /\ \A t \in Tasks : tasks[t].retries \in Nat
  BY DEF TypedInv, ProgramTypes, StoreInv, StoreTypeOK, TaskRow
<1>1. CASE manual' = manual \/ \E t \in Tasks : manual' = [manual EXCEPT ![t] = @ + 1]
  BY <1>0, <1>1
<1>2. ASSUME NEW q \in Reassessors, Reassess(q)
      PROVE  \A t \in Tasks : manual'[t] \in Nat /\ manual'[t] >= manual[t]
  <2>1. Rewrites /\ manual' = [t \in Tasks |-> manual[t] + (tasks'[t].retries - tasks[t].retries)]
    BY <1>2, ReassessIsEffect DEF Reassess
  <2> QED  BY <1>0, <2>1 DEF Rewrites
<1> QED
  BY <1>1, <1>2 DEF Next, Supervises, Resolves, SupervisorCrash, RunProcess, Works, Time, RunnerCrash, Kill, RetryTask,
     ClearTask, DeadlinePasses, outside, vars

LEMMA TypedStep == ASSUME TypedInv, [Next]_vars PROVE TypedInv' /\ GoodStep /\ RunsAge
<1>1. (manual \in [Tasks -> Nat])'
  <2>1. manual' = [t \in Tasks |-> manual'[t]]
    BY DEF TypedInv, ProgramTypes, Next, Supervises, Resolves, SupervisorCrash, RunProcess, Works, Time, RunnerCrash,
       Kill, RetryTask, ClearTask, DeadlinePasses, Reassess, outside, vars
  <2> QED  BY <2>1, ManualGrows
<1>2. (faults \in 0..MaxFaults)'
  BY LifecycleAssumption DEF TypedInv, ProgramTypes, Next, Supervises, Resolves, SupervisorCrash, RunProcess, Works, Time,
     RunnerCrash, Kill, RetryTask, ClearTask, DeadlinePasses, Reassess, outside, vars
<1> QED  BY <1>1, <1>2, StepIsGood, SupervisorsKept, RunnersTyped, RoundsTyped, ResolversKept, IdleKept, MonitorsTyped,
            RecordTyped, RequestsKept
            DEF GoodStep, TypedInv, ProgramTypes, RequestsTyped

LEMMA TypedInit == ASSUME Init PROVE TypedInv
<1>1. StoreInv /\ IdleIsUnowned
  BY DEF Init, StoreInv, StoreTypeOK, TaskRow, RunRow, AbsentTask, AbsentRun, TaskStatus, Missing, OwnerAgrees, Consistent,
     RunningIsOwned, PendingIsUnowned, RowsAreRooted, IdleIsUnowned
<1>2. SupTypeOK /\ SupShape
  <2>1. Resting("down") \in SupRecord
    BY RestingTyped DEF Phase
  <2>2. Fits(Resting("down"), runs)
    BY DEF Resting, Fits, Listing, Assessing, Spawning
  <2> QED  BY <2>1, <2>2 DEF Init, SupInit, SupTypeOK, SupRecord, SupShape, ShapeOf
<1>3. ResolverTypeOK /\ ResolverShape
  BY NoResolutionTyped, ResolverAssumption DEF Init, ResolverInit, ResolverTypeOK, ResolverShape, ResolverRecord
<1>4. RunnerTypeOK /\ RoundsTypeOK /\ manual \in [Tasks -> Nat] /\ faults \in 0..MaxFaults
  BY LifecycleAssumption, AssessmentAssumption DEF Init, RunnerInit, RoundsInit, RunnerTypeOK, RoundsTypeOK, ProcPhase
<1>5. SlaTypeOK /\ OverruledTypeOK
  BY DEF Init, SlaInit, SlaTypeOK, NoMonitor, Monitor, OverruledTypeOK
<1>6. reassess \in [Reassessors -> Request] /\ Addressed
  BY DEF Init, ReassessInit, NoRequest, Request, TerminalStatus, Addressed
<1> QED  BY <1>1, <1>2, <1>3, <1>4, <1>5, <1>6 DEF TypedInv, ProgramTypes

\* The rows and the programs of the lifecycle are well typed, rows agree with
\* each other, and every program holds what its next step relies on.
THEOREM LifecycleTyped == Spec => []TypedInv
<1>1. Init => TypedInv
  BY TypedInit
<1>2. TypedInv /\ [Next]_vars => TypedInv'
  BY TypedStep
<1> QED  BY <1>1, <1>2, PTL DEF Spec

-----------------------------------------------------------------------------
(* What the rows say about each other, effect by effect.                   *)

\* r is the attempt of t that was claimed last.
IsNewest(t, r) ==
  /\ r \in RunsOf(t)
  /\ \A q \in RunsOf(t) : q # r => runs[q].revision < runs[r].revision

AttemptStopped(t) == tasks[t].active # NoRun => runs[tasks[t].active].status # "running"

SettledInv ==
  \A t \in Tasks : tasks[t].status \in TerminalStatus => AttemptStopped(t) \/ SettledFromOutside(t)

\* Attempts of one Task are told apart by their generations, none of them
\* later than that of the Task.
GenerationInv ==
  /\ \A r \in Runs : runs[r].status = "absent" => runs[r].task = NoTask
  /\ \A r \in Runs : runs[r].status # "absent" => runs[r].revision <= tasks[runs[r].task].revision
  /\ \A r, q \in Runs : runs[r].task \in Tasks /\ runs[r].task = runs[q].task /\ runs[r].revision = runs[q].revision => r = q

EarnedInv ==
  \A t \in Tasks :
    tasks[t].status = "done" =>
      DeclaredDone(t) \/ \E r \in Runs : runs[r].status = "completed" /\ IsNewest(t, r)

RowsInv == SettledInv /\ GenerationInv /\ EarnedInv

\* A record is about a generation: it speaks for the Task while that lasts.
LEMMA RecordSpeaks ==
  ASSUME overruled \subseteq overruled', NEW t \in Tasks
  PROVE  /\ DeclaredDone(t) => DeclaredDone(t)'
         /\ tasks'[t].revision = tasks[t].revision /\ SettledFromOutside(t) => SettledFromOutside(t)'
BY DEF DeclaredDone, SettledFromOutside

\* An effect that ends an attempt, or only writes Runs, keeps them.
LEMMA EndKeepsRows ==
  ASSUME StoreInv, RowsInv, overruled \subseteq overruled', NEW t \in Tasks, NEW status, NEW retries,
         status = "done" => tasks[t].status = "done", EndAttempt(t, status, retries)
  PROVE  RowsInv'
<1> USE DEF StoreInv, StoreTypeOK
<1>1. /\ tasks'[t] = [status |-> status, revision |-> tasks[t].revision + 1, active |-> NoRun, retries |-> retries]
      /\ \A u \in Tasks : u # t => tasks'[u] = tasks[u]
      /\ \A q \in Runs : /\ runs'[q].task = runs[q].task /\ runs'[q].revision = runs[q].revision
                         /\ runs'[q].status = IF LiveRun(t) /\ q = tasks[t].active THEN "killed" ELSE runs[q].status
  BY EndedAttempt
<1>2. \A q \in Runs : /\ runs'[q].status = "absent" <=> runs[q].status = "absent"
                      /\ runs'[q].status = "running" => runs[q].status = "running"
                      /\ runs[q].status = "completed" => runs'[q].status = "completed"
  BY <1>1 DEF LiveRun
<1>3. \A u \in Tasks : tasks[u].active \in Runs \cup {NoRun} /\ tasks[u].revision \in Nat
  BY DEF TaskRow
<1>4. SettledInv'
  <2> SUFFICES ASSUME NEW u \in Tasks, tasks'[u].status \in TerminalStatus
               PROVE  (AttemptStopped(u) \/ SettledFromOutside(u))'
    BY DEF SettledInv
  <2>1. CASE u = t
    BY <1>1, <2>1 DEF AttemptStopped
  <2>2. CASE u # t
    <3>1. tasks'[u] = tasks[u] /\ (AttemptStopped(u) \/ SettledFromOutside(u))
      BY <1>1, <2>2 DEF RowsInv, SettledInv
    <3> QED  BY <1>2, <1>3, <3>1, RecordSpeaks DEF AttemptStopped
  <2> QED  BY <2>1, <2>2
<1>5. GenerationInv'
  <2>1. \A q \in Runs : runs[q].status # "absent" => runs[q].task \in Tasks /\ runs[q].revision \in Nat
    BY DEF RowsAreRooted, RunRow
  <2>2. \A u \in Tasks : tasks'[u].revision >= tasks[u].revision /\ tasks'[u].revision \in Nat
    BY <1>1, <1>3
  <2>3. ASSUME NEW q \in Runs, runs'[q].status # "absent" PROVE runs'[q].revision <= tasks'[runs'[q].task].revision
    <3>1. /\ runs[q].task \in Tasks /\ runs[q].revision \in Nat /\ runs[q].revision <= tasks[runs[q].task].revision
          /\ runs'[q].task = runs[q].task /\ runs'[q].revision = runs[q].revision
      BY <1>1, <1>2, <2>1, <2>3 DEF RowsInv, GenerationInv
    <3> QED  BY <1>3, <2>2, <3>1
  <2> QED  BY <1>1, <1>2, <2>3 DEF RowsInv, GenerationInv
<1>6. EarnedInv'
  <2> SUFFICES ASSUME NEW u \in Tasks, tasks'[u].status = "done", ~DeclaredDone(u)'
               PROVE  \E r \in Runs : runs'[r].status = "completed" /\ IsNewest(u, r)'
    BY DEF EarnedInv
  <2>1. tasks[u].status = "done" /\ ~DeclaredDone(u)
    BY <1>1, RecordSpeaks
  <2>2. PICK r \in Runs : runs[r].status = "completed" /\ IsNewest(u, r)
    BY <2>1 DEF RowsInv, EarnedInv
  <2> QED  BY <1>1, <1>2, <2>2 DEF IsNewest, RunsOf
<1> QED  BY <1>4, <1>5, <1>6 DEF RowsInv

\* A status written inside a generation, "done" only over the newest attempt.
LEMMA StatusKeepsRows ==
  ASSUME StoreInv, RowsInv, overruled \subseteq overruled', NEW t \in Tasks, NEW status,
         status \in TerminalStatus => AttemptStopped(t) \/ SettledFromOutside(t)',
         status = "done" => \/ DeclaredDone(t)'
                            \/ tasks[t].active # NoRun /\ runs[tasks[t].active].status = "completed",
         SetTaskStatus(t, status), UNCHANGED runs
  PROVE  RowsInv'
<1> USE DEF StoreInv, StoreTypeOK
<1>1. /\ tasks'[t].status = status /\ tasks'[t].revision = tasks[t].revision /\ tasks'[t].active = tasks[t].active
      /\ \A u \in Tasks : u # t => tasks'[u] = tasks[u]
      /\ runs' = runs
  BY StatusWritten
<1>2. \A u \in Tasks : tasks'[u].active = tasks[u].active /\ tasks'[u].revision = tasks[u].revision
  BY <1>1
<1>3. SettledInv'
  <2> SUFFICES ASSUME NEW u \in Tasks, tasks'[u].status \in TerminalStatus
               PROVE  (AttemptStopped(u) \/ SettledFromOutside(u))'
    BY DEF SettledInv
  <2>1. CASE u = t
    BY <1>1, <2>1 DEF AttemptStopped
  <2>2. CASE u # t
    <3>1. tasks'[u] = tasks[u] /\ (AttemptStopped(u) \/ SettledFromOutside(u))
      BY <1>1, <2>2 DEF RowsInv, SettledInv
    <3> QED  BY <1>1, <3>1, RecordSpeaks DEF AttemptStopped
  <2> QED  BY <2>1, <2>2
<1>4. GenerationInv'
  BY <1>1, <1>2 DEF RowsInv, GenerationInv, RowsAreRooted
<1>5. EarnedInv'
  <2>1. ASSUME status = "done", ~DeclaredDone(t)'
        PROVE  runs[tasks[t].active].status = "completed" /\ IsNewest(t, tasks[t].active)
    <3> DEFINE r == tasks[t].active
    <3>1. r \in Runs /\ runs[r].task = t /\ runs[r].revision = tasks[t].revision /\ runs[r].status = "completed"
      BY <2>1 DEF OwnerAgrees, Consistent, TaskRow
    <3>2. ASSUME NEW q \in RunsOf(t), q # r PROVE runs[q].revision < runs[r].revision
      <4>1. q \in Runs /\ runs[q].task = t /\ runs[q].revision \in Nat /\ runs[r].revision \in Nat
        BY <3>1, <3>2 DEF RunsOf, RunRow
      <4>2. runs[q].status # "absent"
        BY <4>1 DEF RowsInv, GenerationInv
      <4>3. runs[q].revision <= runs[r].revision /\ runs[q].revision # runs[r].revision
        BY <3>1, <3>2, <4>1, <4>2 DEF RowsInv, GenerationInv
      <4> QED  BY <4>1, <4>3
    <3> QED  BY <3>1, <3>2 DEF IsNewest, RunsOf
  <2> SUFFICES ASSUME NEW u \in Tasks, tasks'[u].status = "done", ~DeclaredDone(u)'
               PROVE  \E r \in Runs : runs'[r].status = "completed" /\ IsNewest(u, r)'
    BY DEF EarnedInv
  <2>2. CASE u = t
    <3>1. tasks[t].active \in Runs /\ runs[tasks[t].active].status = "completed" /\ IsNewest(t, tasks[t].active)
      BY <1>1, <2>1, <2>2 DEF IsNewest, RunsOf
    <3> QED  BY <1>1, <2>2, <3>1 DEF IsNewest, RunsOf
  <2>3. CASE u # t
    <3>1. tasks[u].status = "done" /\ ~DeclaredDone(u)
      BY <1>1, <2>3, RecordSpeaks
    <3>2. PICK r \in Runs : runs[r].status = "completed" /\ IsNewest(u, r)
      BY <3>1 DEF RowsInv, EarnedInv
    <3> QED  BY <1>1, <3>2 DEF IsNewest, RunsOf
  <2> QED  BY <2>2, <2>3
<1> QED  BY <1>3, <1>4, <1>5 DEF RowsInv

LEMMA ClaimKeepsRows ==
  ASSUME StoreInv, RowsInv, overruled \subseteq overruled', NEW t \in Tasks, NEW ref, NEW r \in Runs, Claim(t, ref, r)
  PROVE  RowsInv'
<1> USE DEF StoreInv, StoreTypeOK
<1>1. /\ tasks[t].status = "pending" /\ runs[r].status = "absent"
      /\ tasks'[t].status = "in_progress" /\ tasks'[t].revision = tasks[t].revision + 1 /\ tasks'[t].active = r
      /\ runs'[r].status = "running" /\ runs'[r].task = t /\ runs'[r].revision = tasks[t].revision + 1
      /\ \A u \in Tasks : u # t => tasks'[u] = tasks[u]
      /\ \A q \in Runs : q # r => runs'[q] = runs[q]
  BY Claimed
<1>2. \A u \in Tasks : tasks[u].active # r /\ tasks[u].revision \in Nat
  BY <1>1 DEF OwnerAgrees, Consistent, TaskRow
<1>3. SettledInv'
  <2> SUFFICES ASSUME NEW u \in Tasks, tasks'[u].status \in TerminalStatus
               PROVE  (AttemptStopped(u) \/ SettledFromOutside(u))'
    BY DEF SettledInv
  <2>1. u # t /\ tasks'[u] = tasks[u] /\ tasks[u].active # r
    BY <1>1, <1>2 DEF TerminalStatus
  <2>2. tasks[u].active \in Runs \cup {NoRun} /\ (AttemptStopped(u) \/ SettledFromOutside(u))
    BY <2>1 DEF RowsInv, SettledInv, TaskRow
  <2> QED  BY <1>1, <2>1, <2>2, RecordSpeaks DEF AttemptStopped
<1>4. \A q \in Runs : runs[q].status # "absent" =>
         runs[q].task \in Tasks /\ runs[q].revision \in Nat /\ runs[q].revision <= tasks[runs[q].task].revision
  BY DEF RowsInv, GenerationInv, RowsAreRooted, RunRow
<1>5. \A q \in Runs : q # r /\ runs[q].task = t => runs[q].revision # tasks[t].revision + 1
  BY <1>2, <1>4 DEF RowsInv, GenerationInv
<1>6. GenerationInv'
  <2>1. ASSUME NEW q \in Runs, runs'[q].status # "absent" PROVE runs'[q].revision <= tasks'[runs'[q].task].revision
    BY <1>1, <1>2, <1>4, <2>1
  <2>2. ASSUME NEW q \in Runs, NEW p \in Runs, runs'[q].task \in Tasks, runs'[q].task = runs'[p].task,
               runs'[q].revision = runs'[p].revision
        PROVE  q = p
    BY <1>1, <1>5, <2>2 DEF RowsInv, GenerationInv
  <2> QED  BY <1>1, <2>1, <2>2 DEF RowsInv, GenerationInv
<1>7. EarnedInv'
  <2> SUFFICES ASSUME NEW u \in Tasks, tasks'[u].status = "done", ~DeclaredDone(u)'
               PROVE  \E q \in Runs : runs'[q].status = "completed" /\ IsNewest(u, q)'
    BY DEF EarnedInv
  <2>1. u # t /\ tasks[u].status = "done" /\ ~DeclaredDone(u)
    BY <1>1, RecordSpeaks
  <2>2. PICK q \in Runs : runs[q].status = "completed" /\ IsNewest(u, q)
    BY <2>1 DEF RowsInv, EarnedInv
  <2> QED  BY <1>1, <2>1, <2>2 DEF IsNewest, RunsOf
<1> QED  BY <1>3, <1>6, <1>7 DEF RowsInv

\* Runs end or are acknowledged.
LEMMA RunWriteKeepsRows ==
  ASSUME StoreInv, RowsInv, overruled \subseteq overruled', tasks' = tasks,
         \A q \in Runs : /\ runs'[q].task = runs[q].task /\ runs'[q].revision = runs[q].revision
                         /\ runs'[q].status = "absent" <=> runs[q].status = "absent"
                         /\ runs'[q].status = "running" => runs[q].status = "running"
                         /\ runs[q].status = "completed" => runs'[q].status = "completed"
  PROVE  RowsInv'
<1>1. SettledInv'
  <2> SUFFICES ASSUME NEW u \in Tasks, tasks'[u].status \in TerminalStatus
               PROVE  (AttemptStopped(u) \/ SettledFromOutside(u))'
    BY DEF SettledInv
  <2>1. tasks[u].active \in Runs \cup {NoRun} /\ (AttemptStopped(u) \/ SettledFromOutside(u))
    BY DEF RowsInv, SettledInv, StoreInv, StoreTypeOK, TaskRow
  <2> QED  BY <2>1, RecordSpeaks DEF AttemptStopped
<1>2. GenerationInv'
  BY DEF RowsInv, GenerationInv
<1>3. EarnedInv'
  <2> SUFFICES ASSUME NEW u \in Tasks, tasks[u].status = "done", ~DeclaredDone(u)'
               PROVE  \E q \in Runs : runs'[q].status = "completed" /\ IsNewest(u, q)'
    BY DEF EarnedInv
  <2>0. ~DeclaredDone(u)
    BY RecordSpeaks
  <2>1. PICK q \in Runs : runs[q].status = "completed" /\ IsNewest(u, q)
    BY <2>0 DEF RowsInv, EarnedInv
  <2> QED  BY <2>1 DEF IsNewest, RunsOf
<1> QED  BY <1>1, <1>2, <1>3 DEF RowsInv

LEMMA LifeEffectKeepsRows ==
  ASSUME StoreInv, RowsInv, LifeEffect, overruled \subseteq overruled' PROVE RowsInv'
<1> USE LifecycleAssumption
<1>1. CASE UNCHANGED storeVars
  <2>1. tasks' = tasks /\ runs' = runs
    BY <1>1 DEF storeVars
  <2> QED  BY <2>1, RunWriteKeepsRows
<1>2. ASSUME NEW t \in Tasks, Reviews(t) PROVE RowsInv'
  BY <1>2, StatusKeepsRows DEF Reviews, TerminalStatus
<1>3. ASSUME NEW t \in Tasks, DeleteTask(t) PROVE RowsInv'
  <2>1. SetTaskStatus(t, "deleted") /\ UNCHANGED runs
    BY <1>3 DEF DeleteTask, SetTaskStatus
  <2> QED  BY <2>1, StatusKeepsRows DEF TerminalStatus
<1>4. ASSUME NEW t \in Tasks, Suspends(t) PROVE RowsInv'
  BY <1>4, EndKeepsRows DEF Suspends
<1>5. ASSUME NEW t \in Tasks, Cancels(t) PROVE RowsInv'
  BY <1>5, EndKeepsRows DEF Cancels
<1>6. ASSUME NEW t \in Tasks, NEW r \in Runs, NEW status \in TerminalStatus, Concludes(t, r, status) PROVE RowsInv'
  <2>1. AttemptStopped(t) /\ tasks[t].active # NoRun /\ tasks[t].active = r
    BY <1>6 DEF Concludes, AttemptStopped, RunOutcome
  <2> QED  BY <1>6, <2>1, StatusKeepsRows DEF Concludes
<1>7. ASSUME NEW t \in Tasks, NEW retries \in Nat, Reruns(t, retries) PROVE RowsInv'
  BY <1>7, EndKeepsRows DEF Reruns
<1>8. ASSUME NEW t \in Tasks, NEW ref, NEW r \in Runs, Claim(t, ref, r) PROVE RowsInv'
  BY <1>8, ClaimKeepsRows
<1>9. ASSUME NEW r \in Runs, NEW outcome \in RunOutcome, OutcomeWrite(r, outcome) PROVE RowsInv'
  <2>1. CompleteRun(r, outcome)
    BY <1>9 DEF OutcomeWrite
  <2> QED  BY <2>1, OutcomeWritten, RunWriteKeepsRows DEF RunOutcome
<1>10. ASSUME NEW r \in Runs, MarkRunCollected(r) PROVE RowsInv'
  BY <1>10, Marked, RunWriteKeepsRows
<1>11. ASSUME NEW t \in Tasks, NEW status \in TaskStatus, Imposes(t, status) PROVE RowsInv'
  <2> DEFINE o == [task |-> t, revision |-> tasks[t].revision,
                   was |-> Standing(tasks[t].status), is |-> Standing(status)]
  <2>1. /\ SetTaskStatus(t, status) /\ UNCHANGED runs
        /\ Standing(status) # Standing(tasks[t].status) => o \in overruled'
    BY <1>11 DEF Imposes
  <2>2. tasks'[t].status = status /\ tasks'[t].revision = tasks[t].revision
    BY <2>1, StatusWritten DEF StoreInv
  <2>3. ASSUME status \in TerminalStatus PROVE AttemptStopped(t) \/ SettledFromOutside(t)'
    <3>1. CASE tasks[t].status \in TerminalStatus
      BY <2>2, <3>1, RecordSpeaks DEF RowsInv, SettledInv
    <3>2. CASE tasks[t].status \notin TerminalStatus
      BY <2>1, <2>2, <2>3, <3>2 DEF SettledFromOutside, Standing, TerminalStatus
    <3> QED  BY <3>1, <3>2
  <2>4. ASSUME status = "done" PROVE DeclaredDone(t)'
    <3>1. tasks[t].status # "done"
      BY <1>11, <2>4 DEF Imposes, TerminalStatus
    <3> QED  BY <2>1, <2>4, <3>1 DEF DeclaredDone, Standing, TerminalStatus
  <2> QED  BY <2>1, <2>3, <2>4, StatusKeepsRows
<1> QED  BY <1>1, <1>2, <1>3, <1>4, <1>5, <1>6, <1>7, <1>8, <1>9, <1>10, <1>11 DEF LifeEffect

\* The completion of t was taken back.
TakenBack(t, log) == \E o \in log : o.task = t /\ o.was = "done"

\* A settled Task is never taken up by the result it was settled with, "done"
\* is left only by a deletion or by who takes it back, a deleted row stays so.
TaskAges(t) ==
  /\ tasks[t].status \notin {"draft", "absent"} => tasks'[t].status \notin {"draft", "absent"}
  /\ tasks[t].status = "done" => \/ tasks'[t].status = "done"
                                 \/ t \in Clearable /\ tasks'[t].status = "deleted"
                                 \/ TakenBack(t, overruled')
  /\ tasks[t].status = "deleted" => tasks'[t].status = "deleted"
  /\ tasks'[t].status = "deleted" => tasks[t].status = "deleted" \/ t \in Clearable
  /\ tasks'[t].active = tasks[t].active /\ tasks[t].active # NoRun /\ tasks[t].status \in TerminalStatus \cup Missing
       => tasks'[t].status \in TerminalStatus \cup Missing
  /\ tasks'[t].active # tasks[t].active /\ tasks'[t].active # NoRun => runs[tasks'[t].active].status = "absent"

TasksAge == \A t \in Tasks : TaskAges(t)

LEMMA KeptAges == ASSUME NEW t \in Tasks, tasks'[t] = tasks[t] PROVE TaskAges(t)
BY DEF TaskAges

LEMMA LifeEffectAges == ASSUME StoreInv, LifeEffect PROVE TasksAge
<1> USE LifecycleAssumption
<1>0. ASSUME NEW t \in Tasks, TaskAges(t), \A u \in Tasks : u # t => tasks'[u] = tasks[u] PROVE TasksAge
  <2>1. ASSUME NEW u \in Tasks, u # t PROVE TaskAges(u)
    BY <1>0, <2>1, KeptAges
  <2> QED  BY <1>0, <2>1 DEF TasksAge
<1>1. ASSUME NEW t \in Tasks, NEW status, SetTaskStatus(t, status), UNCHANGED runs,
             \/ tasks[t].status = "in_progress" /\ status = "review"
             \/ status \in TerminalStatus /\ tasks[t].status \notin TerminalStatus \cup Missing
             \/ status = "deleted" /\ t \in Clearable
      PROVE  TasksAge
  <2>1. /\ tasks'[t].status = status /\ tasks'[t].active = tasks[t].active
        /\ \A u \in Tasks : u # t => tasks'[u] = tasks[u]
    BY <1>1, StatusWritten
  <2>2. TaskAges(t)
    BY <1>1, <2>1 DEF TaskAges, Missing, TerminalStatus
  <2> QED  BY <1>0, <2>1, <2>2
<1>2. ASSUME NEW t \in Tasks, NEW status, NEW retries, EndAttempt(t, status, retries),
             status \in {"done", "failed", "pending", "awaiting_approval"},
             tasks[t].status \notin Missing,
             tasks[t].status = "done" => status = "done"
      PROVE  TasksAge
  <2>1. /\ tasks'[t].status = status /\ tasks'[t].active = NoRun
        /\ \A u \in Tasks : u # t => tasks'[u] = tasks[u]
    <3>1. /\ tasks'[t] = [status |-> status, revision |-> tasks[t].revision + 1, active |-> NoRun, retries |-> retries]
          /\ \A u \in Tasks : u # t => tasks'[u] = tasks[u]
      BY <1>2, EndedAttempt
    <3> QED  BY <3>1
  <2>2. /\ tasks'[t].status \notin {"draft", "absent", "deleted"}
        /\ tasks[t].status # "deleted"
        /\ tasks[t].status = "done" => tasks'[t].status = "done"
    BY <1>2, <2>1 DEF Missing
  <2>3. tasks'[t].active = NoRun
    BY <2>1
  <2>4. TaskAges(t)
    BY <2>2, <2>3 DEF TaskAges
  <2> QED  BY <1>0, <2>1, <2>4
<1>3. ASSUME NEW t \in Tasks, Reviews(t) PROVE TasksAge
  BY <1>1, <1>3 DEF Reviews
<1>4. ASSUME NEW t \in Clearable, DeleteTask(t) PROVE TasksAge
  <2>1. SetTaskStatus(t, "deleted") /\ UNCHANGED runs
    BY <1>4 DEF DeleteTask, SetTaskStatus
  <2> QED  BY <1>1, <2>1
<1>5. ASSUME NEW t \in Tasks, NEW r \in Runs, NEW status \in TerminalStatus, Concludes(t, r, status) PROVE TasksAge
  BY <1>1, <1>5 DEF Concludes
<1>6. ASSUME NEW t \in Tasks, Suspends(t) PROVE TasksAge
  BY <1>2, <1>6 DEF Suspends, TerminalStatus
<1>7. ASSUME NEW t \in Tasks, Cancels(t) PROVE TasksAge
  <2> DEFINE status == IF tasks[t].status = "done" THEN "done" ELSE "failed"
  <2>1. EndAttempt(t, status, tasks[t].retries) /\ tasks[t].status \notin Missing
    BY <1>7 DEF Cancels, Exists
  <2>2. status \in {"done", "failed"} /\ (tasks[t].status = "done" => status = "done")
    OBVIOUS
  <2> HIDE DEF status
  <2> QED  BY <1>2, <2>1, <2>2
<1>8. ASSUME NEW t \in Tasks, NEW retries \in Nat, Reruns(t, retries) PROVE TasksAge
  BY <1>2, <1>8 DEF Reruns
<1>9. ASSUME NEW t \in Tasks, NEW ref, NEW r \in Runs, Claim(t, ref, r) PROVE TasksAge
  <2>1. /\ tasks[t].status = "pending" /\ tasks[t].active = NoRun /\ runs[r].status = "absent"
        /\ tasks'[t].status = "in_progress" /\ tasks'[t].active = r
        /\ \A u \in Tasks : u # t => tasks'[u] = tasks[u]
    BY <1>9, Claimed
  <2>2. TaskAges(t)
    BY <2>1 DEF TaskAges, Missing, TerminalStatus
  <2> QED  BY <1>0, <2>1, <2>2
<1>10. CASE tasks' = tasks
  BY <1>10, KeptAges DEF TasksAge
<1>11. ASSUME NEW t \in Tasks, NEW status \in TaskStatus, Imposes(t, status) PROVE TasksAge
  <2>1. /\ tasks'[t].status = status /\ tasks'[t].active = tasks[t].active
        /\ \A u \in Tasks : u # t => tasks'[u] = tasks[u]
    BY <1>11, StatusWritten DEF Imposes
  <2>2. status # tasks[t].status /\ tasks[t].status = "done" => TakenBack(t, overruled')
    BY <1>11 DEF Imposes, TakenBack, Standing, TerminalStatus
  <2>3. TaskAges(t)
    BY <1>11, <2>1, <2>2 DEF TaskAges, Imposes, Exists, Missing, TerminalStatus
  <2> QED  BY <1>0, <2>1, <2>3
<1> QED
  BY <1>3, <1>4, <1>5, <1>6, <1>7, <1>8, <1>9, <1>10, <1>11
     DEF LifeEffect, storeVars, OutcomeWrite, CompleteRun, MarkRunCollected

LEMMA BudgetKept == ASSUME TypedInv, RetryBudget, [Next]_vars PROVE RetryBudget'
<1> USE LifecycleAssumption DEF TypedInv, StoreInv, StoreTypeOK
<1>0. \A u \in Tasks : /\ tasks[u].retries \in Nat /\ manual[u] \in Nat
                       /\ manual'[u] \in Nat /\ manual'[u] >= manual[u]
                       /\ tasks[u].retries <= MaxRetries + manual[u]
  BY ManualGrows DEF TaskRow, RetryBudget, ProgramTypes
<1>1. ASSUME \A u \in Tasks : tasks'[u].retries = tasks[u].retries PROVE RetryBudget'
  BY <1>0, <1>1, AssessmentAssumption DEF RetryBudget
<1>2. ASSUME NEW t \in Tasks, NEW status, EndAttempt(t, status, tasks[t].retries) PROVE RetryBudget'
  <2>0. /\ tasks'[t] = [status |-> status, revision |-> tasks[t].revision + 1, active |-> NoRun,
                        retries |-> tasks[t].retries]
        /\ \A u \in Tasks : u # t => tasks'[u] = tasks[u]
    BY <1>2, EndedAttempt
  <2>1. \A u \in Tasks : tasks'[u].retries = tasks[u].retries
    BY <2>0
  <2> QED  BY <1>1, <2>1
<1>3. ASSUME NEW t \in Tasks, NEW status, SetTaskStatus(t, status), UNCHANGED runs PROVE RetryBudget'
  <2>1. \A u \in Tasks : tasks'[u].retries = tasks[u].retries
    BY <1>3, StatusWritten
  <2> QED  BY <1>1, <2>1
<1>4. ASSUME NEW t \in Tasks, NEW retries \in Nat, Reruns(t, retries) PROVE RetryBudget'
  <2>0. /\ tasks'[t] = [status |-> "pending", revision |-> tasks[t].revision + 1, active |-> NoRun,
                        retries |-> retries]
        /\ \A u \in Tasks : u # t => tasks'[u] = tasks[u]
    BY <1>4, EndedAttempt DEF Reruns
  <2>1. \A u \in Tasks : tasks'[u].retries = IF u = t THEN retries ELSE tasks[u].retries
    BY <2>0
  <2>2. retries <= MaxRetries + manual'[t]
    BY <1>0, <1>4, AssessmentAssumption DEF Reruns
  <2> QED  BY <1>0, <2>1, <2>2, AssessmentAssumption DEF RetryBudget
<1>5. ASSUME NEW t \in Tasks, DeleteTask(t) PROVE RetryBudget'
  <2>1. SetTaskStatus(t, "deleted") /\ UNCHANGED runs
    BY <1>5 DEF DeleteTask, SetTaskStatus
  <2> QED  BY <1>3, <2>1
<1>6. ASSUME NEW t \in Tasks, NEW ref, NEW r \in Runs, Claim(t, ref, r) PROVE RetryBudget'
  <2>1. \A u \in Tasks : tasks'[u].retries = tasks[u].retries
    BY <1>6, Claimed
  <2> QED  BY <1>1, <2>1
<1>7. CASE tasks' = tasks
  BY <1>1, <1>7
<1> QED
  BY <1>2, <1>3, <1>4, <1>5, <1>6, <1>7, StepIsLifeEffect
     DEF LifeEffect, storeVars, Reviews, Suspends, Cancels, Concludes, Imposes, OutcomeWrite, CompleteRun,
         MarkRunCollected

-----------------------------------------------------------------------------
(* The safety of the rows.                                                 *)

\* What every step of the lifecycle keeps.
LifeInv == TypedInv /\ RowsInv /\ RetryBudget

LEMMA LifeInit == ASSUME Init PROVE LifeInv
<1>1. RowsInv
  BY DEF Init, RowsInv, SettledInv, GenerationInv, EarnedInv, AbsentTask, AbsentRun, TerminalStatus
<1>2. RetryBudget
  <2>1. \A t \in Tasks : tasks[t].retries = 0 /\ manual[t] = 0
    BY DEF Init, AbsentTask
  <2>2. MaxRetries \in Nat /\ 0 <= MaxRetries + 0
    BY AssessmentAssumption
  <2> QED  BY <2>1, <2>2 DEF RetryBudget
<1> QED  BY <1>1, <1>2, TypedInit DEF LifeInv

LEMMA LifeStep == ASSUME LifeInv, [Next]_vars PROVE LifeInv' /\ GoodStep /\ RunsAge
BY TypedStep, StepIsLifeEffect, RecordGrows, LifeEffectKeepsRows, BudgetKept DEF LifeInv, TypedInv

\* Every invariant of this module is kept by every history.
THEOREM LifecycleKept == Spec => []LifeInv
<1>1. Init => LifeInv
  BY LifeInit
<1>2. LifeInv /\ [Next]_vars => LifeInv'
  BY LifeStep
<1> QED  BY <1>1, <1>2, PTL DEF Spec

\* A settled Task has no execution behind it: killTask, the timeout, the
\* assessment and the give-ups all end the attempt they settle.  A deadline and
\* a reassessment do not, and they are the only ones that do not.
THEOREM SettledIsStopped == Spec => []LifecycleInv
<1>1. LifeInv => LifecycleInv
  <2> SUFFICES ASSUME LifeInv PROVE LifecycleInv
    OBVIOUS
  <2>1. TypeOK
    BY DEF LifeInv, TypedInv, ProgramTypes, StoreInv, OverruledTypeOK, TypeOK
  <2>2. SettledMeansStopped
    <3> SUFFICES ASSUME NEW t \in Tasks, tasks[t].status \in TerminalStatus, ~SettledFromOutside(t),
                        NEW r \in RunningRunsOf(t)
                 PROVE  FALSE
      BY DEF SettledMeansStopped
    <3>1. r \in Runs /\ runs[r].task = t /\ runs[r].status = "running"
      BY DEF RunningRunsOf, RunsOf
    <3>2. tasks[t].active = r
      BY <3>1 DEF LifeInv, TypedInv, StoreInv, RunningIsOwned
    <3> QED  BY <3>1, <3>2 DEF LifeInv, RowsInv, SettledInv, AttemptStopped
  <2> QED  BY <2>1, <2>2 DEF LifecycleInv
<1> QED  BY <1>1, LifecycleKept, PTL

\* "done" rests on the completed Run that was claimed last, unless a
\* reassessment declared it.
THEOREM DoneIsEarned == Spec => []DoneByNewestRun
<1>1. LifeInv => DoneByNewestRun
  <2> SUFFICES ASSUME LifeInv, NEW t \in Tasks, tasks[t].status = "done", ~DeclaredDone(t)
               PROVE  RunsOf(t) # {} /\ runs[Latest(t)].status = "completed"
    BY DEF DoneByNewestRun
  <2>1. PICK r \in Runs : runs[r].status = "completed" /\ IsNewest(t, r)
    BY DEF LifeInv, RowsInv, EarnedInv
  <2>2. \A q \in RunsOf(t) : runs[q].revision \in Nat
    BY DEF LifeInv, TypedInv, StoreInv, StoreTypeOK, RunRow, RunsOf
  <2>3. r \in RunsOf(t) /\ \A q \in RunsOf(t) : runs[q].revision <= runs[r].revision
    BY <2>1, <2>2 DEF IsNewest
  <2>4. Latest(t) \in RunsOf(t) /\ \A q \in RunsOf(t) : runs[q].revision <= runs[Latest(t)].revision
    BY <2>3 DEF Latest
  <2>5. Latest(t) = r
    BY <2>1, <2>2, <2>3, <2>4 DEF IsNewest
  <2> QED  BY <2>1, <2>3, <2>5
<1> QED  BY <1>1, LifecycleKept, PTL

\* No interleaving of recoveries, fixes, retries and people's requests spends
\* more retries than the allowance and what people added to it.
THEOREM RetriesBudgeted == Spec => []RetryBudget
<1>1. LifeInv => RetryBudget
  BY DEF LifeInv
<1> QED  BY <1>1, LifecycleKept, PTL

\* Finished work is thrown away only by its own assessment.
THEOREM WorkIsAssessed == Spec => CompletionIsAssessed
<1>1. LifeInv /\ [Next]_vars =>
        [\A t \in Tasks :
           LET r == tasks[t].active
           IN  /\ r # NoRun
               /\ runs[r].status = "completed" /\ ~runs[r].collected
               /\ tasks[t].status \notin TerminalStatus
               /\ tasks'[t].status = "pending"
               => \E s \in Supervisors :
                    sup[s].pc \in {"judge", "retry"} /\ sup[s].run = r /\ sup'[s] # sup[s]]_vars
  <2> SUFFICES ASSUME LifeInv, [Next]_vars, NEW t \in Tasks, Unassessed(t), tasks'[t].status = "pending"
               PROVE  UnderAssessment(tasks[t].active)
    BY DEF Unassessed, UnderAssessment
  <2> USE LifecycleAssumption DEF LifeInv, TypedInv
  <2>0. LifeEffect /\ tasks[t].status # "pending"
    BY StepIsLifeEffect DEF StoreInv, PendingIsUnowned, Unassessed
  <2>1. ASSUME NEW u \in Tasks, NEW retries \in Nat, Reruns(u, retries) PROVE UnderAssessment(tasks[t].active)
    <3>1. \A v \in Tasks : v # u => tasks'[v] = tasks[v]
      BY <2>1, EndedAttempt DEF Reruns
    <3>2. u = t
      BY <2>0, <3>1
    <3> QED  BY <2>1, <3>2 DEF Reruns
  <2>2. ASSUME NEW u \in Tasks, NEW status, status # "pending", SetTaskStatus(u, status) PROVE FALSE
    BY <2>0, <2>2 DEF SetTaskStatus, StoreInv, StoreTypeOK, TaskRow
  <2>3. ASSUME NEW u \in Tasks, NEW status, status # "pending", NEW retries, EndAttempt(u, status, retries) PROVE FALSE
    <3>1. /\ tasks'[u] = [status |-> status, revision |-> tasks[u].revision + 1, active |-> NoRun,
                          retries |-> retries]
          /\ \A v \in Tasks : v # u => tasks'[v] = tasks[v]
      BY <2>3, EndedAttempt
    <3> QED  BY <2>0, <2>3, <3>1
  <2>4. ASSUME NEW u \in Tasks, NEW ref, NEW r \in Runs, Claim(u, ref, r) PROVE FALSE
    BY <2>0, <2>4, Claimed
  <2>5. ASSUME NEW u \in Tasks, DeleteTask(u) PROVE FALSE
    <3>1. SetTaskStatus(u, "deleted")
      BY <2>5 DEF DeleteTask, SetTaskStatus
    <3> QED  BY <2>2, <3>1
  <2>6. tasks' # tasks
    BY <2>0
  <2> QED  BY <2>0, <2>1, <2>2, <2>3, <2>4, <2>5, <2>6
              DEF LifeEffect, storeVars, Reviews, Suspends, Cancels, Concludes, Imposes, TerminalStatus, OutcomeWrite,
                  CompleteRun, MarkRunCollected
<1> QED  BY <1>1, LifecycleKept, PTL DEF Spec, CompletionIsAssessed

-----------------------------------------------------------------------------
(* Results are acknowledged after the decision.                            *)

\* Nothing is left to decide with the result of r.
DecidedRun(r, rows) ==
  \A t \in Tasks : rows[t].active = r => rows[t].status \in TerminalStatus \cup Missing

Acknowledges(rec, rows) == MayAcknowledge(rec) => DecidedRun(rec.run, rows)

AckInv ==
  /\ \A s \in Supervisors : Acknowledges(sup[s], tasks)
  /\ \A r \in Runs : runs[r].collected => DecidedRun(r, tasks)

LEMMA DecidedAges ==
  ASSUME StoreInv, TasksAge, NEW r \in Runs, runs[r].status # "absent", DecidedRun(r, tasks)
  PROVE  DecidedRun(r, tasks')
BY DEF StoreInv, StoreTypeOK, TasksAge, TaskAges, DecidedRun

\* A Run is named by its own Task only.
LEMMA NamedByOwn ==
  ASSUME StoreInv, NEW t \in Tasks, NEW r \in Runs, tasks[t].active = r
  PROVE  runs[r].task = t /\ runs[r].status # "absent"
BY DEF StoreInv, OwnerAgrees, Consistent

\* What the assessment leaves of the result it decided.
LEMMA AssessedIsDecided ==
  ASSUME StoreInv, StoreInv', RunsAge, ~CompleteVeto, ~FailVeto,
         NEW r \in Runs, runs[r].status \in RunOutcome, NEW t \in Tasks, t = runs[r].task,
         NEW succeeded,
         \/ Decide(t, RunRef(r), succeeded) \/ Superseded(t, RunRef(r))
         \/ RetryOrFail(t, RunRef(r)) \/ RetryOvertaken(t, RunRef(r))
  PROVE  DecidedRun(r, tasks')
<1>0. ASSUME tasks'[t].active # r \/ tasks'[t].status \in TerminalStatus \cup Missing PROVE DecidedRun(r, tasks')
  <2>1. runs'[r].task = t
    BY DEF RunsAge, RunOutcome
  <2>2. \A u \in Tasks : tasks'[u].active = r => u = t
    BY <2>1 DEF StoreInv, OwnerAgrees, Consistent
  <2> QED  BY <1>0, <2>2 DEF DecidedRun
<1>1. CASE Superseded(t, RunRef(r))
  <2>1. tasks' = tasks /\ ~Current(t, RunRef(r))
    BY <1>1 DEF Superseded, assessVars
  <2>2. tasks[t].active # r \/ tasks[t].status \in Missing
    BY <2>1, NamedIsCurrent DEF Exists
  <2> QED  BY <1>0, <2>1, <2>2
<1>2. ASSUME NEW counted, Requeue(t, RunRef(r), counted, FALSE) PROVE DecidedRun(r, tasks')
  <2>1. EndAttempt(t, "pending", RetriesAfter(tasks[t], counted))
    BY <1>2 DEF Requeue
  <2>2. tasks'[t].active = NoRun
    BY <2>1, EndedRow
  <2> QED  BY <1>0, <2>2
<1>3. CASE MutateTransition(t, RunRef(r), "awaiting_approval")
  <2>1. EndAttempt(t, "awaiting_approval", RetriesAfter(tasks[t], FALSE))
    BY <1>3 DEF MutateTransition, ReleasingStatus
  <2>2. tasks'[t].active = NoRun
    BY <2>1, EndedRow
  <2> QED  BY <1>0, <2>2
<1>4. ASSUME NEW status \in TerminalStatus, MutateTransition(t, RunRef(r), status) PROVE DecidedRun(r, tasks')
  <2>1. SetTaskStatus(t, status) /\ UNCHANGED runs
    BY <1>4 DEF MutateTransition, ReleasingStatus, TerminalStatus
  <2>2. tasks'[t].status = status
    BY <2>1, StatusWritten
  <2> QED  BY <1>0, <2>2
<1>5. CASE RetryOrFail(t, RunRef(r))
  BY <1>2, <1>3, <1>4, <1>5 DEF RetryOrFail, SuspendForHuman, Retry, FinalFailure, TerminalStatus
<1>6. CASE RetryOvertaken(t, RunRef(r)) \/ RequeueOvertaken(t, RunRef(r), succeeded)
  <2>1. tasks' = tasks /\ tasks[t].status = "done"
    BY <1>6 DEF RetryOvertaken, RequeueOvertaken, assessVars, storeVars
  <2> QED  BY <1>0, <2>1 DEF TerminalStatus
<1> QED
  BY <1>1, <1>2, <1>4, <1>5, <1>6 DEF Decide, AnswerAndRerun, Accept, Fix, TerminalStatus

\* The actions after which something is acknowledged, and what they have seen.
LEMMA AckMoves ==
  ASSUME TypedInv, TypedInv', AckInv, TasksAge, RunsAge, ~CompleteVeto, ~FailVeto,
         NEW s \in Supervisors, SupervisorStep(s) \/ SupervisorCrash(s)
  PROVE  Acknowledges(sup'[s], tasks')
<1> USE DEF TypedInv
<1>0. sup[s] \in SupRecord
  BY DEF ProgramTypes, SupTypeOK, SupRecord
<1>1. ASSUME ~MayAcknowledge(sup'[s]) PROVE Acknowledges(sup'[s], tasks')
  BY <1>1 DEF Acknowledges
<1>2. ASSUME NEW rec, Becomes(s, rec), rec.pc \notin {"acknowledge", "recoverRuns"} PROVE Acknowledges(sup'[s], tasks')
  BY <1>1, <1>2, Moves DEF MayAcknowledge
<1>3. ASSUME NEW x, Drops(s, x), sup[s].pc \notin {"acknowledge", "recoverRuns"} PROVE Acknowledges(sup'[s], tasks')
  <2> DEFINE rec == [sup[s] EXCEPT !.todo = @ \ {x}]
  <2>1. rec.pc = sup[s].pc
    BY <1>0 DEF SupRecord
  <2> QED  BY <1>2, <1>3, <2>1 DEF Drops
<1>4. ASSUME NEW phase, Goes(s, phase), phase \notin {"acknowledge", "recoverRuns"} PROVE Acknowledges(sup'[s], tasks')
  BY <1>1, <1>4, Moves DEF MayAcknowledge
<1>5. ASSUME NEW phase, Becomes(s, Resting(phase)), phase \notin {"acknowledge", "recoverRuns"}
      PROVE  Acknowledges(sup'[s], tasks')
  BY <1>2, <1>5 DEF Resting
<1>6. CASE Recovery(s)
  <2>1. CASE Restart(s)
    <3>1. sup'[s] = [Resting("recoverRuns") EXCEPT !.todo = RunningRuns, !.seen = pid]
      BY <2>1, Moves DEF Restart
    <3> QED  BY <1>1, <3>1 DEF Resting, MayAcknowledge
  <2>2. ASSUME NEW r \in Runs, RecoverRun(s, r) PROVE Acknowledges(sup'[s], tasks')
    <3>1. CASE OrphanRun(s, r) /\ LiveRun(runs[r].task)
      <4> DEFINE t == runs[r].task
      <4>1. t \in Tasks /\ sup'[s] = [sup[s] EXCEPT !.todo = @ \ {r}, !.run = r]
        BY <2>2, <3>1, Moves, RunTaskKnown DEF RecoverRun, At, SupShape, ShapeOf, Fits, Listing
      <4>2. EndAttempt(t, "pending", RetriesAfter(tasks[t], FALSE))
        BY <2>2, <3>1 DEF RecoverRun, Requeue
      <4>3. tasks'[t].active = NoRun /\ \A u \in Tasks : u # t => tasks'[u] = tasks[u]
        BY <4>1, <4>2, EndedRow
      <4>4. DecidedRun(r, tasks')
        BY <4>1, <4>3, NamedByOwn DEF DecidedRun
      <4>5. sup'[s].run = r
        BY <1>0, <4>1 DEF SupRecord
      <4> QED  BY <4>4, <4>5 DEF Acknowledges
    <3>2. CASE ~(OrphanRun(s, r) /\ LiveRun(runs[r].task))
      <4>1. sup'[s] = [sup[s] EXCEPT !.todo = @ \ {r}] /\ sup[s].run = NoRun /\ sup[s].pc = "recoverRuns"
        BY <2>2, <3>2, Moves DEF RecoverRun, Drops, At
      <4> QED  BY <1>0, <1>1, <4>1 DEF SupRecord, MayAcknowledge
    <3> QED  BY <3>1, <3>2
  <2>3. CASE RecoverAck(s)
    <3>1. sup'[s] = [sup[s] EXCEPT !.run = NoRun] /\ sup[s].pc = "recoverRuns"
      BY <2>3, Moves DEF RecoverAck, At
    <3> QED  BY <1>0, <1>1, <3>1 DEF SupRecord, MayAcknowledge
  <2>4. CASE ListOrphans(s)
    <3> DEFINE rec == [Resting("recoverTasks") EXCEPT !.snap = tasks,
                         !.todo = {t \in Tasks : tasks[t].status \in OrphanStatus}]
    <3>1. rec.pc = "recoverTasks"
      BY DEF Resting
    <3>2. sup'[s] = rec
      BY <2>4, Moves DEF ListOrphans
    <3> HIDE DEF rec
    <3> QED  BY <1>1, <3>1, <3>2 DEF MayAcknowledge
  <2>5. CASE Recovered(s) \/ \E t \in Tasks : RecoverTask(s, t)
    BY <1>3, <1>5, <2>5 DEF Recovered, RecoverTask, At
  <2> QED  BY <1>6, <2>1, <2>2, <2>3, <2>4, <2>5 DEF Recovery
<1>7. CASE Collects(s)
  <2>1. ASSUME NEW r \in Runs, SkipResult(s, r) PROVE Acknowledges(sup'[s], tasks')
    <3>1. sup'[s] = [sup[s] EXCEPT !.pc = "acknowledge", !.run = r] /\ tasks' = tasks
      BY <2>1, Moves DEF SkipResult, assessVars
    <3>2. \A t \in Tasks : tasks[t].active = r => tasks[t].status \in TerminalStatus \cup Missing
      BY <2>1, NamedByOwn, NamedIsCurrent DEF SkipResult, Admits, Exists
    <3>3. sup'[s].run = r
      BY <1>0, <3>1 DEF SupRecord
    <3> QED  BY <3>1, <3>2, <3>3 DEF Acknowledges, DecidedRun
  <2>2. ASSUME sup[s].pc \in Assessing,
               \/ Decide(sup[s].task, RunRef(sup[s].run), Succeeded(sup[s].run))
               \/ Superseded(sup[s].task, RunRef(sup[s].run)) \/ RetryOrFail(sup[s].task, RunRef(sup[s].run))
               \/ RetryOvertaken(sup[s].task, RunRef(sup[s].run)),
               Goes(s, "acknowledge")
        PROVE  Acknowledges(sup'[s], tasks')
    <3>1. /\ sup[s].run \in Runs /\ runs[sup[s].run].status \in RunOutcome
          /\ sup[s].task = runs[sup[s].run].task /\ sup[s].task \in Tasks
      BY <2>2, RunTaskKnown DEF SupShape, ShapeOf, Fits, Assessing
    <3>2. DecidedRun(sup[s].run, tasks')
      BY <2>2, <3>1, AssessedIsDecided
    <3>3. sup'[s] = [sup[s] EXCEPT !.pc = "acknowledge"]
      BY <2>2, Moves
    <3>4. sup'[s].run = sup[s].run
      BY <1>0, <3>3 DEF SupRecord
    <3> QED  BY <3>2, <3>4 DEF Acknowledges
  <2>3. CASE Judge(s) \/ RetryAfterFixes(s)
    BY <1>4, <1>5, <2>2, <2>3 DEF Judge, RetryAfterFixes, At, Assessing, Aborts
  <2>4. CASE TickStart(s)
    <3> DEFINE rec == [Resting("collect") EXCEPT !.snap = tasks, !.deps = deps]
    <3>1. rec.pc = "collect"
      BY DEF Resting
    <3>2. sup'[s] = rec
      BY <2>4, Moves DEF TickStart
    <3> HIDE DEF rec
    <3> QED  BY <1>1, <3>1, <3>2 DEF MayAcknowledge
  <2>5. ASSUME ListResults(s) \/ AcknowledgeRun(s) \/ Collected(s) \/ \E r \in Runs : CollectResult(s, r)
        PROVE  sup'[s].pc \in {"collecting", "health", "judge"}
    <3>1. CASE ListResults(s)
      <4>1. sup'[s] = [sup[s] EXCEPT !.pc = "collecting",
                         !.todo = {r \in Runs : runs[r].status \in RunOutcome /\ ~runs[r].collected}]
        BY <3>1, Moves DEF ListResults
      <4> QED  BY <1>0, <4>1 DEF SupRecord
    <3>2. CASE AcknowledgeRun(s)
      <4>1. sup'[s] = [sup[s] EXCEPT !.pc = "collecting", !.todo = @ \ {sup[s].run}, !.run = NoRun, !.task = NoTask]
        BY <3>2, Moves DEF AcknowledgeRun
      <4> QED  BY <1>0, <4>1 DEF SupRecord
    <3>3. ASSUME NEW r \in Runs, CollectResult(s, r) PROVE sup'[s].pc = "judge"
      <4>1. sup'[s] = [sup[s] EXCEPT !.pc = "judge", !.run = r, !.task = runs[r].task]
        BY <3>3, Moves DEF CollectResult
      <4> QED  BY <1>0, <4>1 DEF SupRecord
    <3> QED  BY <2>5, <3>1, <3>2, <3>3, Moves DEF Collected
  <2> QED  BY <1>1, <1>7, <2>1, <2>3, <2>4, <2>5 DEF Collects, Collection, MayAcknowledge
<1>8. CASE Checks(s) \/ Deadlock(s) \/ AwaitResolution(s)
  <2>1. ASSUME ListActive(s) \/ PlanDeadlock(s) PROVE sup'[s].pc \in {"checking", "deadlock"}
    BY <1>0, <2>1, Moves DEF SupRecord, ListActive, PlanDeadlock
  <2> QED  BY <1>1, <1>3, <1>4, <1>5, <1>8, <2>1 DEF MayAcknowledge, Checks, HealthCheck, Deadlock, CheckRun, Checked,
              ForceFail, DeadlockHandled, AwaitResolution, At
<1>9. CASE Dispatches(s)
  <2>1. ASSUME PlanDispatch(s) \/ \E t \in Tasks : Dispatch(s, t) PROVE sup'[s].pc \in {"spawning", "prepare"}
    <3>1. CASE PlanDispatch(s)
      <4> DEFINE slots == IF Cardinality(RunningRuns) >= MaxConcurrency THEN 0
                          ELSE MaxConcurrency - Cardinality(RunningRuns)
      <4>1. sup'[s] = [sup[s] EXCEPT !.pc = "spawning", !.todo = Ready(s), !.slots = slots]
        BY <3>1, Moves DEF PlanDispatch
      <4> HIDE DEF slots
      <4> QED  BY <1>0, <4>1 DEF SupRecord
    <3>2. ASSUME NEW t \in Tasks, Dispatch(s, t) PROVE sup'[s].pc = "prepare"
      <4>1. sup'[s] = [sup[s] EXCEPT !.pc = "prepare", !.todo = @ \ {t}, !.task = t, !.run = NewRun, !.slots = @ - 1]
        BY <3>2, Moves DEF Dispatch
      <4> QED  BY <1>0, <4>1 DEF SupRecord
    <3> QED  BY <2>1, <3>1, <3>2
  <2>2. ASSUME Returns(s) PROVE sup'[s].pc = "spawning"
    <3>1. sup'[s] = [sup[s] EXCEPT !.pc = "spawning", !.task = NoTask, !.run = NoRun]
      BY <2>2, Moves DEF Returns
    <3> QED  BY <1>0, <3>1 DEF SupRecord
  <2> QED  BY <1>1, <1>3, <1>4, <1>5, <1>9, <2>1, <2>2 DEF MayAcknowledge, Dispatches, Dispatched, PrepareAbandoned,
              PrepareVetoed, PrepareFails, Spawn, Register, SkipRunning, DispatchConflict, Dispatching, At, Aborts
<1>10. CASE SupervisorCrash(s)
  BY <1>5, <1>10 DEF SupervisorCrash
<1> QED  BY <1>6, <1>7, <1>8, <1>9, <1>10, SupervisorSteps

\* Only these two steps of a supervisor acknowledge anything.
LEMMA AckedBySupervisor ==
  ASSUME TypedInv, [Next]_vars, NEW r \in Runs, runs'[r].collected,
         ~runs[r].collected \/ runs[r].status = "absent"
  PROVE  (\E s \in Supervisors : MayAcknowledge(sup[s]) /\ sup[s].run = r) \/ runs'[r].status = "absent"
<1> USE DEF TypedInv
<1>0. LifeEffect
  BY StepIsLifeEffect
<1>1. ASSUME runs'[r].collected = runs[r].collected, runs[r].status = "absent" => runs'[r].status = "absent"
      PROVE  runs'[r].status = "absent"
  BY <1>1
<1>2. ASSUME NEW t \in Tasks, NEW status, NEW retries, EndAttempt(t, status, retries) PROVE runs'[r].status = "absent"
  BY <1>1, <1>2, EndedAttempt DEF LiveRun
<1>3. ASSUME NEW t \in Tasks, NEW ref, NEW q \in Runs, Claim(t, ref, q) PROVE runs'[r].status = "absent"
  BY <1>1, <1>3, Claimed
<1>4. ASSUME NEW q \in Runs, NEW outcome, CompleteRun(q, outcome) PROVE runs'[r].status = "absent"
  BY <1>1, <1>4, OutcomeWritten
<1>5. CASE runs' = runs
  BY <1>1, <1>5
<1>6. ASSUME NEW s \in Supervisors, MayAcknowledge(sup[s]), sup[s].run \in Runs, MarkRunCollected(sup[s].run)
      PROVE  sup[s].run = r \/ runs'[r].status = "absent"
  BY <1>1, <1>6, Marked
<1> QED
  BY <1>0, <1>2, <1>3, <1>4, <1>5, <1>6
     DEF LifeEffect, storeVars, Reviews, Suspends, Cancels, Concludes, Reruns, Imposes, OutcomeWrite, DeleteTask

LEMMA AckKept ==
  ASSUME LifeInv, AckInv, ~CompleteVeto, ~FailVeto, [Next]_vars
  PROVE  AckInv'
<1> USE DEF LifeInv
<1>0. TypedInv /\ TypedInv' /\ TasksAge /\ RunsAge /\ LifeEffect /\ StoreInv
  BY LifeStep, StepIsLifeEffect, LifeEffectAges DEF TypedInv
<1>1. ASSUME NEW q \in Supervisors, sup'[q] = sup[q] PROVE Acknowledges(sup[q], tasks')
  <2>1. CASE MayAcknowledge(sup[q])
    <3>1. sup[q].run \in Runs /\ runs[sup[q].run].status # "absent"
      BY <2>1 DEF TypedInv, SupShape, ShapeOf, Fits, MayAcknowledge, RunOutcome
    <3>2. DecidedRun(sup[q].run, tasks)
      BY <2>1 DEF AckInv, Acknowledges
    <3> QED  BY <1>0, <3>1, <3>2, DecidedAges DEF Acknowledges
  <2> QED  BY <2>1 DEF Acknowledges
<1>2. ASSUME NEW s \in Supervisors, SupervisorStep(s) \/ SupervisorCrash(s), NEW q \in Supervisors
      PROVE  Acknowledges(sup'[q], tasks')
  <2>1. CASE q = s
    BY <1>0, <1>2, <2>1, AckMoves
  <2>2. CASE q # s
    <3>1. sup'[q] = sup[q]
      BY <1>0, <1>2, <2>2, SupervisorSteps, RecoveryMoves, CollectionMoves, QuietMoves, DispatchMoves, RestMoves
         DEF SupervisorCrash, GoodMove
    <3> QED  BY <1>1, <3>1
  <2> QED  BY <2>1, <2>2
<1>3. \A q \in Supervisors : Acknowledges(sup'[q], tasks')
  <2>1. (\E s \in Supervisors : SupervisorStep(s) \/ SupervisorCrash(s)) \/ sup' = sup
    BY DEF Next, Supervises, Resolves, RunProcess, Works, Time, RunnerCrash, Kill, RetryTask, ClearTask,
           DeadlinePasses, Reassess, vars, supVars, hostVars
  <2> QED  BY <1>1, <1>2, <2>1
<1>4. ASSUME NEW r \in Runs, runs'[r].collected PROVE DecidedRun(r, tasks')
  <2>1. CASE runs[r].status # "absent" /\ DecidedRun(r, tasks)
    BY <1>0, <2>1, DecidedAges
  <2>2. CASE runs'[r].status = "absent"
    BY <1>0, <2>2 DEF TypedInv, StoreInv, OwnerAgrees, Consistent, DecidedRun
  <2>3. CASE runs[r].collected /\ runs[r].status # "absent"
    BY <2>1, <2>3 DEF AckInv
  <2>4. CASE ~runs[r].collected \/ runs[r].status = "absent"
    <3>1. (\E s \in Supervisors : MayAcknowledge(sup[s]) /\ sup[s].run = r) \/ runs'[r].status = "absent"
      BY <1>0, <1>4, <2>4, AckedBySupervisor
    <3>2. ASSUME NEW s \in Supervisors, MayAcknowledge(sup[s]), sup[s].run = r PROVE DecidedRun(r, tasks')
      <4>1. runs[r].status # "absent" /\ DecidedRun(r, tasks)
        BY <3>2 DEF TypedInv, SupShape, ShapeOf, Fits, MayAcknowledge, RunOutcome, AckInv, Acknowledges
      <4> QED  BY <2>1, <4>1
    <3> QED  BY <2>2, <3>1, <3>2
  <2> QED  BY <2>3, <2>4
<1> QED  BY <1>3, <1>4 DEF AckInv

\* Where no hook may keep a Task in review (CompleteVeto) or intercept its
\* failure (FailVeto), every acknowledged result has been decided: an answer
\* to a hook that vetoes is what leaves a Task behind.
THEOREM AcknowledgedAfterDecision ==
  ASSUME ~CompleteVeto, ~FailVeto
  PROVE  Spec => []AcknowledgedIsDecided
<1>1. Init => LifeInv /\ AckInv
  <2> SUFFICES ASSUME Init PROVE AckInv
    BY LifeInit
  <2> QED  BY DEF Init, SupInit, Resting, AbsentRun, AckInv, Acknowledges, MayAcknowledge
<1>2. LifeInv /\ AckInv /\ [Next]_vars => (LifeInv /\ AckInv)'
  BY LifeStep, AckKept
<1>3. LifeInv /\ AckInv => AcknowledgedIsDecided
  BY DEF AckInv, DecidedRun, AcknowledgedIsDecided, LifeInv, TypedInv, StoreInv, StoreTypeOK, TaskRow
<1> QED  BY <1>1, <1>2, <1>3, PTL DEF Spec

-----------------------------------------------------------------------------
(* Dependency graphs.                                                      *)

LEMMA GraphIsClosed ==
  ASSUME NEW on, NEW t \in Tasks, NEW x \in DependencyGraph(on, t), NEW y \in on[x], y \in Tasks
  PROVE  y \in DependencyGraph(on, t)
BY DEF DependencyGraph, Reached

LEMMA GraphIsLeast ==
  ASSUME NEW on, NEW t \in Tasks, NEW S \in SUBSET Tasks, t \in S, \A x \in S : on[x] \subseteq S
  PROVE  DependencyGraph(on, t) \subseteq S
BY DEF DependencyGraph, Reached

LEMMA GraphInTasks == ASSUME NEW on, NEW t \in Tasks PROVE DependencyGraph(on, t) \subseteq Tasks
BY DEF DependencyGraph, Reached

\* What a dependency reaches is reached.
LEMMA GraphNests ==
  ASSUME NEW on \in [Tasks -> SUBSET Tasks], NEW t \in Tasks, NEW e \in DependencyGraph(on, t)
  PROVE  DependencyGraph(on, e) \subseteq DependencyGraph(on, t)
<1>1. DependencyGraph(on, t) \in SUBSET Tasks /\ e \in Tasks
  BY GraphInTasks
<1>2. \A x \in DependencyGraph(on, t) : on[x] \subseteq DependencyGraph(on, t)
  BY <1>1, GraphIsClosed
<1> QED  BY <1>1, <1>2, GraphIsLeast

\* A graph depends only on the dependencies of what it reaches.
LEMMA GraphAgrees ==
  ASSUME NEW on \in [Tasks -> SUBSET Tasks], NEW now \in [Tasks -> SUBSET Tasks], NEW t \in Tasks,
         \A x \in DependencyGraph(on, t) : now[x] = on[x]
  PROVE  DependencyGraph(on, t) \subseteq DependencyGraph(now, t)
<1> DEFINE S == DependencyGraph(on, t) \cap DependencyGraph(now, t)
<1>1. S \in SUBSET Tasks /\ t \in S
  BY GraphInTasks, GraphHasRoot
<1>2. ASSUME NEW x \in S, NEW y \in on[x] PROVE y \in S
  <2>1. y \in Tasks /\ y \in now[x]
    BY <1>1, <1>2
  <2> QED  BY <1>2, <2>1, GraphIsClosed
<1>3. \A x \in S : on[x] \subseteq S
  BY <1>2
<1> HIDE DEF S
<1>4. DependencyGraph(on, t) \subseteq S
  BY <1>1, <1>3, GraphIsLeast
<1> QED  BY <1>4 DEF S

\* Tasks that each wait for one of them contain a cycle: the one with the
\* smallest graph is reached from a dependency of its own.
LEMMA WaitingTasksCycle ==
  ASSUME NEW on \in [Tasks -> SUBSET Tasks], NEW P \in SUBSET Tasks, P # {},
         \A d \in P : \E e \in on[d] : e \in P
  PROVE  \E d \in P : \E e \in on[d] : d \in DependencyGraph(on, e)
<1> DEFINE Size(d) == Cardinality(DependencyGraph(on, d))
           Sizes == {Size(d) : d \in P}
<1>1. \A d \in Tasks : IsFiniteSet(DependencyGraph(on, d)) /\ Size(d) \in Nat
  BY SupervisorAssumption, GraphInTasks, FS_Subset, FS_CardinalityType
<1>2. PICK m \in Sizes : \A n \in Sizes : m <= n
  <2>1. Sizes \subseteq Nat /\ Sizes # {}
    BY <1>1
  <2> HIDE DEF Sizes
  <2> QED  BY <2>1, LeastNat
<1>3. PICK d \in P : m = Size(d)
  BY <1>2
<1>4. PICK e \in on[d] : e \in P
  BY <1>3
<1>5. DependencyGraph(on, e) \subseteq DependencyGraph(on, d)
  BY <1>4, GraphHasRoot, GraphIsClosed, GraphNests
<1>6. Size(d) <= Size(e)
  BY <1>2, <1>3, <1>4
<1>7. DependencyGraph(on, e) = DependencyGraph(on, d)
  BY <1>1, <1>4, <1>5, <1>6, FS_Subset
<1> QED  BY <1>4, <1>7, GraphHasRoot

-----------------------------------------------------------------------------
(* Listings: what was read before an await, against what is stored now.    *)

\* Where a row still has its listed generation its dependencies are the listed
\* ones, and what was listed as done is done, unless a user deleted it or the
\* log of deadlines and reassessments says that they took it back.
Faithful(snap, on, rows, now, log) ==
  \A t \in Tasks :
    /\ snap[t].revision <= rows[t].revision
    /\ snap[t].revision = rows[t].revision => on[t] = now[t]
    /\ snap[t].status = "done" => rows[t].status \in {"done", "deleted"} \/ TakenBack(t, log)
    /\ snap[t].status \notin {"draft", "absent"}

\* Nothing ready, nothing under way: what the deadlock branches start from.
Quiet(snap, on) ==
  \A t \in Tasks :
    /\ snap[t].status \notin OrphanStatus \cup {"awaiting_approval"}
    /\ snap[t].status = "pending" => \E d \in on[t] : snap[d].status # "done"

Ticking == Phase \ {"down", "recoverRuns", "recoverTasks", "idle"}
Spawns == Spawning \cup {"spawning"}

Planned(rec) ==
  /\ rec.pc \in Spawns =>
       \A x \in rec.todo : /\ x \in Tasks /\ rec.snap[x].status = "pending"
                           /\ \A d \in rec.deps[x] : rec.snap[d].status = "done"
  /\ rec.pc = "deadlock" =>
       Quiet(rec.snap, rec.deps) /\ \A x \in rec.todo : x \in Tasks /\ rec.snap[x].status = "pending"

Sound(rec, rows, now, log) ==
  (rec.pc \in Ticking => Faithful(rec.snap, rec.deps, rows, now, log)) /\ Planned(rec)

SoundResolution(res, rows, now, log) ==
  res.pc # "idle" => Faithful(res.snap, res.deps, rows, now, log) /\ Quiet(res.snap, res.deps)

GraphInv ==
  /\ \A t \in Tasks : tasks[t].status \notin {"draft", "absent"}
  /\ \A t \in Tasks : tasks[t].status = "deleted" => t \in Clearable
  /\ \A t \in Tasks : deps[t] \subseteq DependsOn[t]
  /\ \A s \in Supervisors : Sound(sup[s], tasks, deps, overruled)
  /\ \A s \in Supervisors : SoundResolution(resolver[s], tasks, deps, overruled)

\* At most one dependency is dropped in a step, a failed one of a queued Task
\* that gets a new generation with it.
DepsEffect ==
  \/ deps' = deps
  \/ \E t, f \in Tasks :
       /\ deps' = [deps EXCEPT ![t] = deps[t] \ {f}]
       /\ tasks[f].status = "failed" /\ tasks[t].status = "pending"
       /\ tasks'[t].revision = tasks[t].revision + 1

LEMMA DepsDrop == ASSUME TypedInv, GraphInv, [Next]_vars PROVE DepsEffect
<1> USE DEF TypedInv
<1>1. ASSUME NEW s \in Supervisors, NEW t \in Tasks, NEW f \in Tasks, Absorb(s, t, f) PROVE DepsEffect
  <2>1. CASE f \in resolver[s].deps[t] /\ Holds(s, t)
    <3>1. resolver[s].pc # "idle" /\ t \in resolver[s].todo /\ f \in RootFailures(resolver[s].snap, resolver[s].deps, t)
      BY <1>1 DEF Absorb, MayDecide, Considers
    <3>2. tasks[t] = resolver[s].snap[t] /\ tasks[f] = resolver[s].snap[f] /\ tasks[f].status = "failed"
      BY <2>1, <3>1, GraphHasRoot, GraphHasFailures DEF Holds, UnchangedSince
    <3>3. tasks[t].status = "pending"
      BY <3>1, <3>2 DEF ResolverShape, Listed
    <3>4. resolver[s].deps[t] = deps[t]
      BY <3>1, <3>2 DEF GraphInv, SoundResolution, Faithful
    <3>5. EndAttempt(t, "pending", RetriesAfter(tasks[t], FALSE)) /\ deps' = [deps EXCEPT ![t] = deps[t] \ {f}]
      BY <1>1, <2>1, <3>4 DEF Absorb, Requeue
    <3>6. tasks'[t].revision = tasks[t].revision + 1
      BY <3>5, EndedRow
    <3> QED  BY <3>2, <3>3, <3>5, <3>6 DEF DepsEffect
  <2> QED  BY <1>1, <2>1 DEF Absorb, DepsEffect
<1>2. ASSUME NEW s \in Supervisors, Resolution(s) PROVE DepsEffect
  BY <1>1, <1>2 DEF Resolution, RetryDependency, AlreadyRetried, GiveUp, FailCaptured, ResolutionBreaks, ResolutionEnds,
     DepsEffect
<1>3. (\E s \in Supervisors : Resolution(s)) \/ deps' = deps
  BY DEF Next, Supervises, SupervisorStep, AwaitResolution, StartResolution, Resolves, SupervisorCrash, RunProcess, Works,
     Time, RunnerCrash, Kill, RetryTask, ClearTask, DeadlinePasses, Reassess, vars, supVars, hostVars, resolverVars
<1> QED  BY <1>2, <1>3 DEF DepsEffect

\* No dependency is ever added.
LEMMA DepsShrink ==
  ASSUME TypedInv, DepsEffect, NEW t \in Tasks PROVE deps'[t] \subseteq deps[t] /\ deps[t] \subseteq Tasks
<1>1. deps \in [Tasks -> SUBSET Tasks]
  BY DEF TypedInv, ProgramTypes, ResolverTypeOK
<1> QED  BY <1>1 DEF DepsEffect

LEMMA TakenStaysBack ==
  ASSUME overruled \subseteq overruled', NEW t \in Tasks, TakenBack(t, overruled)
  PROVE  TakenBack(t, overruled')
BY DEF TakenBack

LEMMA ListingAges ==
  ASSUME TypedInv, TypedInv', OwnerFenced, TasksAge, DepsEffect, overruled \subseteq overruled',
         NEW snap \in [Tasks -> TaskRow], NEW on, Faithful(snap, on, tasks, deps, overruled)
  PROVE  Faithful(snap, on, tasks', deps', overruled')
<1> SUFFICES ASSUME NEW t \in Tasks
             PROVE  /\ snap[t].revision <= tasks'[t].revision
                    /\ snap[t].revision = tasks'[t].revision => on[t] = deps'[t]
                    /\ snap[t].status = "done" =>
                         tasks'[t].status \in {"done", "deleted"} \/ TakenBack(t, overruled')
                    /\ snap[t].status \notin {"draft", "absent"}
  BY DEF Faithful
<1>1. snap[t].revision \in Nat /\ tasks[t].revision \in Nat /\ tasks'[t].revision \in Nat
  BY DEF TypedInv, StoreInv, StoreTypeOK, TaskRow
<1>2. tasks'[t].revision >= tasks[t].revision /\ snap[t].revision <= tasks[t].revision
  BY DEF OwnerFenced, Faithful
<1>3. deps'[t] = deps[t] \/ tasks'[t].revision = tasks[t].revision + 1
  BY DEF DepsEffect, TypedInv, ProgramTypes, ResolverTypeOK
<1>4. snap[t].revision = tasks'[t].revision => on[t] = deps'[t]
  BY <1>1, <1>2, <1>3 DEF Faithful
<1>5. snap[t].status = "done" => tasks'[t].status \in {"done", "deleted"} \/ TakenBack(t, overruled')
  BY TakenStaysBack DEF Faithful, TasksAge, TaskAges
<1> QED  BY <1>1, <1>2, <1>4, <1>5 DEF Faithful

\* A supervisor that moves keeps acting on the listing of its tick.
LEMMA SoundMoves ==
  ASSUME TypedInv, TypedInv', GraphInv, OwnerFenced, TasksAge, DepsEffect, overruled \subseteq overruled',
         NEW s \in Supervisors, SupervisorStep(s) \/ SupervisorCrash(s)
  PROVE  Sound(sup'[s], tasks', deps', overruled')
<1> USE DEF TypedInv
<1>0. sup[s] \in SupRecord /\ sup[s].snap \in [Tasks -> TaskRow] /\ Sound(sup[s], tasks, deps, overruled)
  BY DEF ProgramTypes, SupTypeOK, SupRecord, GraphInv
<1>1. sup[s].pc \in Ticking => Faithful(sup[s].snap, sup[s].deps, tasks', deps', overruled')
  BY <1>0, ListingAges DEF Sound
<1>2. ASSUME NEW rec, Becomes(s, rec), rec.pc \notin Ticking PROVE Sound(sup'[s], tasks', deps', overruled')
  <2>1. sup'[s] = rec
    BY <1>2, Moves
  <2> QED  BY <1>2, <2>1 DEF Sound, Planned, Ticking, Phase, Spawns, Spawning
<1>3. ASSUME NEW rec, Becomes(s, rec), sup[s].pc \in Ticking, rec.snap = sup[s].snap, rec.deps = sup[s].deps, Planned(rec)
      PROVE  Sound(sup'[s], tasks', deps', overruled')
  <2>1. sup'[s] = rec
    BY <1>3, Moves
  <2> QED  BY <1>1, <1>3, <2>1 DEF Sound
<1>4. ASSUME NEW phase \in {"idle", "down"}, Becomes(s, Resting(phase)) PROVE Sound(sup'[s], tasks', deps', overruled')
  <2>1. Resting(phase).pc = phase
    BY DEF Resting
  <2> QED  BY <1>2, <1>4, <2>1 DEF Ticking
<1>5. ASSUME NEW x, Drops(s, x) PROVE Sound(sup'[s], tasks', deps', overruled')
  <2> DEFINE rec == [sup[s] EXCEPT !.todo = @ \ {x}]
  <2>1. rec.pc = sup[s].pc /\ rec.snap = sup[s].snap /\ rec.deps = sup[s].deps /\ rec.todo \subseteq sup[s].todo
    BY <1>0 DEF SupRecord
  <2>2. Planned(rec)
    BY <1>0, <2>1 DEF Sound, Planned
  <2> HIDE DEF rec
  <2> QED  BY <1>2, <1>3, <1>5, <2>1, <2>2 DEF Drops, rec
<1>6. ASSUME NEW phase \in Ticking \ (Spawns \cup {"deadlock"}), Goes(s, phase), sup[s].pc \in Ticking
      PROVE  Sound(sup'[s], tasks', deps', overruled')
  <2> DEFINE rec == [sup[s] EXCEPT !.pc = phase]
  <2>1. rec.pc = phase /\ rec.snap = sup[s].snap /\ rec.deps = sup[s].deps
    BY <1>0 DEF SupRecord
  <2>2. Planned(rec)
    BY <2>1 DEF Planned
  <2> HIDE DEF rec
  <2> QED  BY <1>3, <1>6, <2>1, <2>2 DEF Goes, rec
<1>7. CASE Recovery(s)
  <2>1. CASE Restart(s)
    <3> DEFINE rec == [Resting("recoverRuns") EXCEPT !.todo = RunningRuns, !.seen = pid]
    <3>1. rec.pc \notin Ticking
      BY DEF Resting, Ticking
    <3> QED  BY <1>2, <2>1, <3>1 DEF Restart
  <2>2. ASSUME NEW r \in Runs, RecoverRun(s, r) PROVE Sound(sup'[s], tasks', deps', overruled')
    <3> DEFINE rec == [sup[s] EXCEPT !.todo = @ \ {r}, !.run = r]
    <3>1. rec.pc \notin Ticking
      BY <1>0, <2>2 DEF SupRecord, RecoverRun, At, Ticking
    <3> QED  BY <1>2, <1>5, <2>2, <3>1 DEF RecoverRun
  <2>3. CASE RecoverAck(s)
    <3> DEFINE rec == [sup[s] EXCEPT !.run = NoRun]
    <3>1. rec.pc \notin Ticking
      BY <1>0, <2>3 DEF SupRecord, RecoverAck, At, Ticking
    <3> QED  BY <1>2, <2>3, <3>1 DEF RecoverAck
  <2>4. CASE ListOrphans(s)
    <3> DEFINE rec == [Resting("recoverTasks") EXCEPT !.snap = tasks,
                         !.todo = {t \in Tasks : tasks[t].status \in OrphanStatus}]
    <3>1. rec.pc \notin Ticking
      BY DEF Resting, Ticking
    <3> QED  BY <1>2, <2>4, <3>1 DEF ListOrphans
  <2> QED  BY <1>4, <1>5, <1>7, <2>1, <2>2, <2>3, <2>4 DEF Recovery, Recovered, RecoverTask
<1>a. deps' = deps
  BY DEF SupervisorStep, SupervisorCrash, AwaitResolution, StartResolution, resolverVars
<1>8. CASE Collects(s)
  <2>1. CASE TickStart(s)
    <3> DEFINE rec == [Resting("collect") EXCEPT !.snap = tasks, !.deps = deps]
    <3>1. rec.pc = "collect" /\ rec.snap = tasks /\ rec.deps = deps
      BY DEF Resting
    <3>2. sup'[s] = rec
      BY <2>1, Moves DEF TickStart
    <3>3. tasks' = tasks /\ deps' = deps
      BY <2>1, <1>a DEF TickStart, assessVars
    <3>4. Faithful(tasks, deps, tasks', deps', overruled')
      BY <3>3 DEF GraphInv, Faithful, StoreInv, StoreTypeOK, TaskRow
    <3>5. Planned(rec)
      BY <3>1 DEF Planned, Spawns, Spawning
    <3> HIDE DEF rec
    <3> QED  BY <3>1, <3>2, <3>4, <3>5 DEF Sound
  <2>2. ASSUME NEW rec, Becomes(s, rec), sup[s].pc \in Ticking, rec.pc \notin Spawns \cup {"deadlock"},
               rec.snap = sup[s].snap, rec.deps = sup[s].deps
        PROVE  Sound(sup'[s], tasks', deps', overruled')
    BY <1>3, <2>2 DEF Planned
  <2>3. CASE ListResults(s)
    <3> DEFINE rec == [sup[s] EXCEPT !.pc = "collecting",
                         !.todo = {r \in Runs : runs[r].status \in RunOutcome /\ ~runs[r].collected}]
    <3>1. rec.pc = "collecting" /\ rec.snap = sup[s].snap /\ rec.deps = sup[s].deps
      BY <1>0 DEF SupRecord
    <3>2. rec.pc \notin Spawns \cup {"deadlock"} /\ sup[s].pc \in Ticking
      BY <2>3, <3>1 DEF Spawns, Spawning, ListResults, At, Ticking, Phase
    <3> HIDE DEF rec
    <3> QED  BY <2>2, <2>3, <3>1, <3>2 DEF ListResults, rec
  <2>4. ASSUME NEW r \in Runs, CollectResult(s, r) PROVE Sound(sup'[s], tasks', deps', overruled')
    <3> DEFINE rec == [sup[s] EXCEPT !.pc = "judge", !.run = r, !.task = runs[r].task]
    <3>1. rec.pc = "judge" /\ rec.snap = sup[s].snap /\ rec.deps = sup[s].deps
      BY <1>0 DEF SupRecord
    <3>2. rec.pc \notin Spawns \cup {"deadlock"} /\ sup[s].pc \in Ticking
      BY <2>4, <3>1 DEF Spawns, Spawning, CollectResult, At, Ticking, Phase
    <3> HIDE DEF rec
    <3> QED  BY <2>2, <2>4, <3>1, <3>2 DEF CollectResult, rec
  <2>5. ASSUME NEW r \in Runs, SkipResult(s, r) PROVE Sound(sup'[s], tasks', deps', overruled')
    <3> DEFINE rec == [sup[s] EXCEPT !.pc = "acknowledge", !.run = r]
    <3>1. rec.pc = "acknowledge" /\ rec.snap = sup[s].snap /\ rec.deps = sup[s].deps
      BY <1>0 DEF SupRecord
    <3>2. rec.pc \notin Spawns \cup {"deadlock"} /\ sup[s].pc \in Ticking
      BY <2>5, <3>1 DEF Spawns, Spawning, SkipResult, At, Ticking, Phase
    <3> HIDE DEF rec
    <3> QED  BY <2>2, <2>5, <3>1, <3>2 DEF SkipResult, rec
  <2>6. CASE AcknowledgeRun(s)
    <3> DEFINE rec == [sup[s] EXCEPT !.pc = "collecting", !.todo = @ \ {sup[s].run}, !.run = NoRun, !.task = NoTask]
    <3>1. rec.pc = "collecting" /\ rec.snap = sup[s].snap /\ rec.deps = sup[s].deps
      BY <1>0 DEF SupRecord
    <3>2. rec.pc \notin Spawns \cup {"deadlock"} /\ sup[s].pc \in Ticking
      BY <2>6, <3>1 DEF Spawns, Spawning, AcknowledgeRun, At, Ticking, Phase
    <3> HIDE DEF rec
    <3> QED  BY <2>2, <2>6, <3>1, <3>2 DEF AcknowledgeRun, rec
  <2>7. CASE Judge(s) \/ RetryAfterFixes(s) \/ Collected(s)
    <3>1. sup[s].pc \in Ticking /\ {"acknowledge", "retry", "health"} \subseteq Ticking \ (Spawns \cup {"deadlock"})
      BY <2>7 DEF Judge, RetryAfterFixes, Collected, At, Ticking, Phase, Spawns, Spawning
    <3>2. Goes(s, "acknowledge") \/ Goes(s, "retry") \/ Goes(s, "health") \/ Becomes(s, Resting("idle"))
      BY <2>7 DEF Judge, RetryAfterFixes, Collected, Aborts
    <3> QED  BY <1>4, <1>6, <3>1, <3>2
  <2> QED  BY <1>8, <2>1, <2>3, <2>4, <2>5, <2>6, <2>7 DEF Collects, Collection
<1>9. CASE Checks(s) \/ Deadlock(s) \/ AwaitResolution(s)
  <2>1. CASE ListActive(s)
    <3> DEFINE rec == [sup[s] EXCEPT !.pc = "checking", !.todo = RunningRuns]
    <3>1. rec.pc = "checking" /\ rec.snap = sup[s].snap /\ rec.deps = sup[s].deps
      BY <1>0 DEF SupRecord
    <3>2. Planned(rec) /\ sup[s].pc \in Ticking
      BY <2>1, <3>1 DEF Planned, Spawns, Spawning, ListActive, At, Ticking, Phase
    <3> HIDE DEF rec
    <3> QED  BY <1>3, <2>1, <3>1, <3>2 DEF ListActive, rec
  <2>2. CASE PlanDeadlock(s)
    <3> DEFINE rec == [sup[s] EXCEPT !.pc = "deadlock", !.todo = Snapped(s, {"pending"})]
    <3>1. /\ rec.pc = "deadlock" /\ rec.snap = sup[s].snap /\ rec.deps = sup[s].deps
          /\ rec.todo = Snapped(s, {"pending"})
      BY <1>0 DEF SupRecord
    <3>2. Quiet(sup[s].snap, sup[s].deps) /\ sup[s].pc \in Ticking
      BY <2>2 DEF PlanDeadlock, Deadlocked, NothingMoves, Quiet, Snapped, Listed, Ready, At, Ticking, Phase
    <3>3. Planned(rec)
      BY <3>1, <3>2 DEF Planned, Spawns, Spawning, Snapped, Listed
    <3> HIDE DEF rec
    <3> QED  BY <1>3, <2>2, <3>1, <3>2, <3>3 DEF PlanDeadlock, rec
  <2>3. CASE Checked(s)
    <3>1. sup[s].pc \in Ticking /\ "plan" \in Ticking \ (Spawns \cup {"deadlock"})
      BY <2>3 DEF Checked, At, Ticking, Phase, Spawns, Spawning
    <3> QED  BY <1>6, <2>3, <3>1 DEF Checked
  <2> QED  BY <1>4, <1>5, <1>9, <2>1, <2>2, <2>3
              DEF Checks, HealthCheck, Deadlock, CheckRun, ForceFail, DeadlockHandled, AwaitResolution
<1>10. CASE Dispatches(s)
  <2>1. CASE PlanDispatch(s)
    <3> DEFINE slots == IF Cardinality(RunningRuns) >= MaxConcurrency THEN 0
                        ELSE MaxConcurrency - Cardinality(RunningRuns)
               rec == [sup[s] EXCEPT !.pc = "spawning", !.todo = Ready(s), !.slots = slots]
    <3>1. rec.pc = "spawning" /\ rec.snap = sup[s].snap /\ rec.deps = sup[s].deps /\ rec.todo = Ready(s)
      <4> HIDE DEF slots
      <4> QED  BY <1>0 DEF SupRecord
    <3>2. Planned(rec) /\ sup[s].pc \in Ticking
      <4> HIDE DEF rec
      <4> QED  BY <2>1, <3>1 DEF Planned, Ready, Snapped, Listed, PlanDispatch, At, Ticking, Phase
    <3> QED  BY <1>3, <2>1, <3>1, <3>2 DEF PlanDispatch
  <2>2. ASSUME sup[s].pc \in Spawns, NEW rec, Becomes(s, rec), rec.pc \in Spawns,
               rec.snap = sup[s].snap, rec.deps = sup[s].deps, rec.todo \subseteq sup[s].todo
        PROVE  Sound(sup'[s], tasks', deps', overruled')
    <3>1. Planned(rec) /\ sup[s].pc \in Ticking
      BY <1>0, <2>2 DEF Sound, Planned, Spawns, Spawning, Ticking, Phase
    <3> QED  BY <1>3, <2>2, <3>1
  <2>3. ASSUME NEW t \in Tasks, Dispatch(s, t) PROVE Sound(sup'[s], tasks', deps', overruled')
    <3> DEFINE rec == [sup[s] EXCEPT !.pc = "prepare", !.todo = @ \ {t}, !.task = t, !.run = NewRun, !.slots = @ - 1]
    <3>1. rec.pc = "prepare" /\ rec.snap = sup[s].snap /\ rec.deps = sup[s].deps /\ rec.todo \subseteq sup[s].todo
      BY <1>0 DEF SupRecord
    <3>2. rec.pc \in Spawns /\ sup[s].pc \in Spawns
      BY <2>3, <3>1 DEF Dispatch, Dispatching, At, Spawns, Spawning
    <3> HIDE DEF rec
    <3> QED  BY <2>2, <2>3, <3>1, <3>2 DEF Dispatch, rec
  <2>4. ASSUME Returns(s), sup[s].pc \in Spawns PROVE Sound(sup'[s], tasks', deps', overruled')
    <3> DEFINE rec == [sup[s] EXCEPT !.pc = "spawning", !.task = NoTask, !.run = NoRun]
    <3>1. rec.pc = "spawning" /\ rec.snap = sup[s].snap /\ rec.deps = sup[s].deps /\ rec.todo = sup[s].todo
      BY <1>0 DEF SupRecord
    <3> HIDE DEF rec
    <3> QED  BY <2>2, <2>4, <3>1 DEF Returns, Spawns, Spawning, rec
  <2>5. CASE Spawn(s)
    <3> DEFINE rec == [sup[s] EXCEPT !.pc = "register"]
    <3>1. rec.pc = "register" /\ rec.snap = sup[s].snap /\ rec.deps = sup[s].deps /\ rec.todo = sup[s].todo
      BY <1>0 DEF SupRecord
    <3>2. rec.pc \in Spawns /\ sup[s].pc \in Spawns
      BY <2>5, <3>1 DEF Spawn, At, Spawns, Spawning
    <3> HIDE DEF rec
    <3> QED  BY <2>2, <2>5, <3>1, <3>2 DEF Spawn, Goes, rec
  <2>6. CASE PrepareAbandoned(s) \/ PrepareVetoed(s) \/ PrepareFails(s) \/ Register(s)
    BY <2>4, <2>6 DEF PrepareAbandoned, PrepareVetoed, PrepareFails, Register, At, Spawns, Spawning
  <2> QED  BY <1>4, <1>5, <1>10, <2>1, <2>3, <2>5, <2>6
              DEF Dispatches, Dispatched, SkipRunning, DispatchConflict, Aborts
<1>11. CASE SupervisorCrash(s)
  BY <1>4, <1>11 DEF SupervisorCrash
<1> QED  BY <1>7, <1>8, <1>9, <1>10, <1>11, SupervisorSteps

\* So does a resolution.
LEMMA SoundResolutions ==
  ASSUME TypedInv, TypedInv', GraphInv, OwnerFenced, TasksAge, DepsEffect, overruled \subseteq overruled',
         [Next]_vars, NEW s \in Supervisors
  PROVE  SoundResolution(resolver'[s], tasks', deps', overruled')
<1> USE DEF TypedInv
<1>0. resolver[s] \in ResolverRecord /\ resolver \in [Supervisors -> ResolverRecord]
  BY DEF ProgramTypes, ResolverTypeOK, ResolverRecord
<1>1. ASSUME resolver'[s].pc # "idle" => /\ resolver[s].pc # "idle" /\ resolver'[s].snap = resolver[s].snap
                                         /\ resolver'[s].deps = resolver[s].deps
      PROVE  SoundResolution(resolver'[s], tasks', deps', overruled')
  <2>1. resolver[s].pc # "idle" => /\ Faithful(resolver[s].snap, resolver[s].deps, tasks, deps, overruled)
                                   /\ Quiet(resolver[s].snap, resolver[s].deps)
    BY DEF GraphInv, SoundResolution
  <2>2. resolver[s].snap \in [Tasks -> TaskRow]
    BY <1>0 DEF ResolverRecord
  <2>3. resolver[s].pc # "idle" => Faithful(resolver[s].snap, resolver[s].deps, tasks', deps', overruled')
    BY <2>1, <2>2, ListingAges
  <2> QED  BY <1>1, <2>1, <2>3 DEF SoundResolution
<1>2. ASSUME NEW q \in Supervisors, AwaitResolution(q) PROVE SoundResolution(resolver'[s], tasks', deps', overruled')
  <2>1. CASE resolver' = resolver
    BY <1>1, <2>1
  <2>2. CASE StartResolution(q, sup[q].snap, sup[q].deps)
    <3> DEFINE rec == [pc |-> "deciding", snap |-> sup[q].snap, deps |-> sup[q].deps, retried |-> {},
                       todo |-> Resolvable(sup[q].snap, sup[q].deps) \cup Unresolvable(sup[q].snap, sup[q].deps)]
    <3>1. resolver' = [resolver EXCEPT ![q] = rec] /\ rec.snap = sup[q].snap /\ rec.deps = sup[q].deps
      BY <2>2 DEF StartResolution
    <3> HIDE DEF rec
    <3>2. CASE s # q
      BY <1>0, <1>1, <3>1, <3>2
    <3>3. CASE s = q
      <4>1. resolver'[s] = rec
        BY <1>0, <3>1, <3>3
      <4>2. Quiet(sup[q].snap, sup[q].deps) /\ sup[q].pc \in Ticking
        BY <1>2 DEF AwaitResolution, Deadlocked, NothingMoves, Quiet, Snapped, Listed, Ready, At, Ticking, Phase
      <4>3. Faithful(sup[q].snap, sup[q].deps, tasks, deps, overruled) /\ sup[q].snap \in [Tasks -> TaskRow]
        BY <4>2 DEF GraphInv, Sound, ProgramTypes, SupTypeOK
      <4>4. Faithful(sup[q].snap, sup[q].deps, tasks', deps', overruled')
        BY <4>3, ListingAges
      <4> QED  BY <3>1, <4>1, <4>2, <4>4 DEF SoundResolution
    <3> QED  BY <3>2, <3>3
  <2> QED  BY <1>2, <2>1, <2>2 DEF AwaitResolution, resolverVars
<1>3. ASSUME NEW q \in Supervisors, NEW rec, resolver' = [resolver EXCEPT ![q] = rec],
             \/ rec.pc = "idle"
             \/ resolver[q].pc # "idle" /\ rec.snap = resolver[q].snap /\ rec.deps = resolver[q].deps
      PROVE  SoundResolution(resolver'[s], tasks', deps', overruled')
  <2>1. resolver'[s] = IF s = q THEN rec ELSE resolver[s]
    BY <1>0, <1>3
  <2> QED  BY <1>1, <1>3, <2>1
<1>4. ASSUME NEW q \in Supervisors, NEW t \in Tasks, Decided(q, t), resolver[q].pc # "idle"
      PROVE  SoundResolution(resolver'[s], tasks', deps', overruled')
  <2> DEFINE rec == [resolver[q] EXCEPT !.todo = @ \ {t}]
  <2>1. rec.snap = resolver[q].snap /\ rec.deps = resolver[q].deps /\ resolver' = [resolver EXCEPT ![q] = rec]
    BY <1>0, <1>4 DEF ResolverRecord, Decided
  <2> HIDE DEF rec
  <2> QED  BY <1>3, <1>4, <2>1
<1>5. ASSUME NEW q \in Supervisors, NEW t \in Tasks, NEW f \in Tasks, RetryDependency(q, t, f)
      PROVE  SoundResolution(resolver'[s], tasks', deps', overruled')
  <2>1. resolver[q].pc # "idle"
    BY <1>5 DEF RetryDependency, MayDecide, Considers
  <2>2. CASE Decided(q, t)
    BY <1>4, <2>1, <2>2
  <2>3. CASE resolver' = [resolver EXCEPT ![q].todo = @ \ {t}, ![q].retried = @ \cup {f}]
    <3> DEFINE rec == [resolver[q] EXCEPT !.todo = @ \ {t}, !.retried = @ \cup {f}]
    <3>1. resolver' = [resolver EXCEPT ![q] = rec]
      BY <2>3
    <3>2. rec.snap = resolver[q].snap /\ rec.deps = resolver[q].deps
      BY <1>0 DEF ResolverRecord
    <3> HIDE DEF rec
    <3> QED  BY <1>3, <2>1, <3>1, <3>2
  <2> QED  BY <1>5, <2>2, <2>3 DEF RetryDependency
<1>6. ASSUME NEW q \in Supervisors, ResolutionBreaks(q) PROVE SoundResolution(resolver'[s], tasks', deps', overruled')
  <2> DEFINE rec == [resolver[q] EXCEPT !.pc = "failing", !.todo = Listed(resolver[q].snap, {"pending"})]
  <2>1. resolver' = [resolver EXCEPT ![q] = rec] /\ resolver[q].pc # "idle"
    BY <1>6 DEF ResolutionBreaks
  <2>2. rec.snap = resolver[q].snap /\ rec.deps = resolver[q].deps
    BY <1>0 DEF ResolverRecord
  <2> HIDE DEF rec
  <2> QED  BY <1>3, <2>1, <2>2
<1>7. ASSUME NEW q \in Supervisors, ResolutionEnds(q) \/ SupervisorCrash(q) PROVE SoundResolution(resolver'[s], tasks', deps', overruled')
  <2>1. resolver' = [resolver EXCEPT ![q] = NoResolution] /\ NoResolution.pc = "idle"
    BY <1>7 DEF ResolutionEnds, SupervisorCrash, NoResolution
  <2> QED  BY <1>3, <2>1
<1>8. ASSUME NEW q \in Supervisors, Resolution(q) PROVE SoundResolution(resolver'[s], tasks', deps', overruled')
  <2>1. ASSUME NEW t \in Tasks, GiveUp(q, t) \/ FailCaptured(q, t) \/ \E f \in Tasks : AlreadyRetried(q, t, f) \/ Absorb(q, t, f)
        PROVE  SoundResolution(resolver'[s], tasks', deps', overruled')
    BY <1>4, <2>1 DEF GiveUp, FailCaptured, AlreadyRetried, Absorb, MayDecide, Considers
  <2> QED  BY <1>5, <1>6, <1>7, <1>8, <2>1 DEF Resolution
<1>9. CASE resolver' = resolver
  BY <1>1, <1>9
<1> QED
  BY <1>2, <1>7, <1>8, <1>9 DEF Next, Supervises, SupervisorStep, Resolves, RunProcess, Works, Time, RunnerCrash, Kill,
     RetryTask, ClearTask, DeadlinePasses, Reassess, vars, supVars, hostVars, resolverVars

LEMMA GraphInit == ASSUME Init PROVE GraphInv
<1>1. \A t \in Tasks : tasks[t].status = "pending" /\ deps = DependsOn
  BY DEF Init, AbsentTask, ResolverInit
<1>2. \A s \in Supervisors : sup[s] = Resting("down") /\ resolver[s] = NoResolution
  BY DEF Init, SupInit, ResolverInit
<1>3. Resting("down").pc = "down" /\ NoResolution.pc = "idle"
  BY DEF Resting, NoResolution
<1>4. \A s \in Supervisors : Sound(sup[s], tasks, deps, overruled) /\ SoundResolution(resolver[s], tasks, deps, overruled)
  BY <1>2, <1>3 DEF Sound, Planned, Ticking, Spawns, Spawning, SoundResolution
<1> QED  BY <1>1, <1>4 DEF GraphInv

LEMMA GraphKept ==
  ASSUME LifeInv, GraphInv, [Next]_vars
  PROVE  GraphInv' /\ DepsEffect /\ TasksAge /\ overruled \subseteq overruled'
<1>0. /\ TypedInv /\ TypedInv' /\ OwnerFenced /\ RunsAge /\ TasksAge /\ DepsEffect
      /\ overruled \subseteq overruled'
  BY LifeStep, StepIsLifeEffect, LifeEffectAges, RecordGrows, DepsDrop DEF LifeInv, TypedInv, GoodStep
<1>1. \A t \in Tasks : tasks'[t].status \notin {"draft", "absent"}
  BY <1>0 DEF GraphInv, TasksAge, TaskAges
<1>2. \A t \in Tasks : deps'[t] \subseteq DependsOn[t]
  BY <1>0, DepsShrink DEF GraphInv
<1>3. ASSUME NEW q \in Supervisors PROVE Sound(sup'[q], tasks', deps', overruled')
  <2>1. CASE sup'[q] = sup[q]
    <3>1. sup[q].snap \in [Tasks -> TaskRow] /\ Sound(sup[q], tasks, deps, overruled)
      BY <1>0 DEF TypedInv, ProgramTypes, SupTypeOK, GraphInv
    <3>2. sup[q].pc \in Ticking => Faithful(sup[q].snap, sup[q].deps, tasks', deps', overruled')
      BY <1>0, <3>1, ListingAges DEF Sound
    <3> QED  BY <2>1, <3>1, <3>2 DEF Sound
  <2>2. ASSUME NEW s \in Supervisors, SupervisorStep(s) \/ SupervisorCrash(s) PROVE q = s \/ sup'[q] = sup[q]
    BY <1>0, <2>2, SupervisorSteps, RecoveryMoves, CollectionMoves, QuietMoves, DispatchMoves, RestMoves
       DEF SupervisorCrash, GoodMove
  <2>3. (\E s \in Supervisors : SupervisorStep(s) \/ SupervisorCrash(s)) \/ sup' = sup
    BY DEF Next, Supervises, Resolves, RunProcess, Works, Time, RunnerCrash, Kill, RetryTask, ClearTask,
           DeadlinePasses, Reassess, vars, supVars, hostVars
  <2> QED  BY <1>0, <2>1, <2>2, <2>3, SoundMoves
<1>4. \A q \in Supervisors : SoundResolution(resolver'[q], tasks', deps', overruled')
  BY <1>0, SoundResolutions
<1>5. \A t \in Tasks : tasks'[t].status = "deleted" => t \in Clearable
  BY <1>0 DEF GraphInv, TasksAge, TaskAges
<1> QED  BY <1>0, <1>1, <1>2, <1>3, <1>4, <1>5 DEF GraphInv

LEMMA GraphHolds == Spec => [](LifeInv /\ GraphInv)
<1>1. Init => LifeInv /\ GraphInv
  BY LifeInit, GraphInit
<1>2. LifeInv /\ GraphInv /\ [Next]_vars => (LifeInv /\ GraphInv)'
  BY LifeStep, GraphKept
<1> QED  BY <1>1, <1>2, PTL DEF Spec

\* Work is skipped only where it failed, by a Task that is not running.
THEOREM OnlyFailedIsAbsorbed == Spec => AbsorbedWorkFailed
<1>1. LifeInv /\ GraphInv /\ [Next]_vars =>
        [\A t \in Tasks : \A d \in deps[t] \ deps'[t] :
           tasks[d].status = "failed" /\ RunningRunsOf(t) = {}]_vars
  <2> SUFFICES ASSUME LifeInv, GraphInv, [Next]_vars, NEW t \in Tasks, NEW d \in deps[t] \ deps'[t]
               PROVE  tasks[d].status = "failed" /\ RunningRunsOf(t) = {}
    OBVIOUS
  <2>1. DepsEffect
    BY GraphKept
  <2>2. tasks[d].status = "failed" /\ tasks[t].status = "pending"
    BY <2>1 DEF DepsEffect, LifeInv, TypedInv, ProgramTypes, ResolverTypeOK
  <2>3. \A r \in Runs : runs[r].task = t => runs[r].status # "running"
    BY <2>2 DEF LifeInv, TypedInv, StoreInv, RunningIsOwned, PendingIsUnowned
  <2> QED  BY <2>2, <2>3 DEF RunningRunsOf, RunsOf
<1> QED  BY <1>1, GraphHolds, PTL DEF Spec, AbsorbedWorkFailed

-----------------------------------------------------------------------------
(* Tasks execute on top of finished dependencies.                          *)

\* A dependency of a Task that executes is done, or was done and then deleted
\* by a user or taken back by a deadline or a reassessment.
Finished(d) == tasks[d].status \in {"done", "deleted"} \/ TakenBack(d, overruled)

OnFinishedWork ==
  \A r \in Runs : IsRunning(r) => \A d \in deps[runs[r].task] : Finished(d)

\* A Run starts only in a dispatch, from the listing of the tick.
LEMMA StartedByDispatch ==
  ASSUME TypedInv, [Next]_vars, NEW r \in Runs, runs[r].status # "running", runs'[r].status = "running"
  PROVE  \E s \in Supervisors : \E t \in Tasks :
           sup[s].pc = "spawning" /\ t \in sup[s].todo /\ Claim(t, RefOf(sup[s].snap[t]), r)
<1> USE DEF TypedInv
<1>1. ASSUME NEW t \in Tasks, NEW status, NEW retries, EndAttempt(t, status, retries) PROVE FALSE
  BY <1>1, EndedAttempt
<1>2. ASSUME NEW q \in Runs, NEW outcome \in RunOutcome, OutcomeWrite(q, outcome) PROVE FALSE
  BY <1>2, OutcomeWritten DEF OutcomeWrite, RunOutcome
<1>3. ASSUME NEW q \in Runs, MarkRunCollected(q) PROVE FALSE
  BY <1>3, Marked
<1>4. ASSUME NEW s \in Supervisors, NEW t \in Tasks, NEW q \in Runs, Claim(t, RefOf(sup[s].snap[t]), q), q # r PROVE FALSE
  BY <1>4, Claimed
<1> QED
  BY <1>1, <1>2, <1>3, <1>4, StepIsLifeEffect
     DEF LifeEffect, storeVars, Reviews, Suspends, Cancels, Concludes, Reruns, Imposes, DeleteTask

LEMMA FinishedWorkKept ==
  ASSUME LifeInv, GraphInv, OnFinishedWork, [Next]_vars PROVE OnFinishedWork'
<1> SUFFICES ASSUME NEW r \in Runs, runs'[r].status = "running", NEW d \in deps'[runs'[r].task]
             PROVE  Finished(d)'
  BY DEF OnFinishedWork, IsRunning
<1> DEFINE t == runs'[r].task
<1> USE DEF LifeInv
<1>0. LifeInv' /\ RunsAge /\ DepsEffect /\ TasksAge /\ overruled \subseteq overruled'
  BY LifeStep, GraphKept
<1>1. t \in Tasks /\ deps'[t] \subseteq deps[t] /\ deps[t] \subseteq Tasks
  <2>1. t \in Tasks
    BY <1>0 DEF TypedInv, StoreInv, RowsAreRooted
  <2> QED  BY <1>0, <2>1, DepsShrink
<1>2. d \in deps[t] /\ d \in Tasks
  BY <1>1
<1>3. Finished(d) => Finished(d)'
  BY <1>0, <1>2, TakenStaysBack DEF Finished, TasksAge, TaskAges
<1>4. CASE runs[r].status = "running"
  <2>1. runs[r].task = t
    BY <1>0, <1>4 DEF RunsAge
  <2> QED  BY <1>2, <1>3, <1>4, <2>1 DEF OnFinishedWork, IsRunning
<1>5. CASE runs[r].status # "running"
  <2>1. PICK s \in Supervisors, u \in Tasks :
          sup[s].pc = "spawning" /\ u \in sup[s].todo /\ Claim(u, RefOf(sup[s].snap[u]), r)
    BY <1>5, StartedByDispatch
  <2>2. u = t /\ RefOf(tasks[t]) = RefOf(sup[s].snap[t])
    BY <2>1, Claimed DEF TypedInv
  <2>3. tasks[t].revision = sup[s].snap[t].revision
    BY <2>2 DEF RefOf
  <2>4. Faithful(sup[s].snap, sup[s].deps, tasks, deps, overruled) /\ Planned(sup[s])
    BY <2>1 DEF GraphInv, Sound, Ticking, Phase
  <2>5. sup[s].snap[d].status = "done"
    BY <1>1, <1>2, <2>1, <2>2, <2>3, <2>4 DEF Faithful, Planned, Spawns
  <2>6. Finished(d)
    BY <1>2, <2>4, <2>5 DEF Faithful, Finished
  <2> QED  BY <1>3, <2>6
<1> QED  BY <1>4, <1>5

\* No interleaving of dispatches, retries, take-overs, deletions, deadlines and
\* reassessments starts or leaves a Task executing on a dependency that was not
\* finished once.
THEOREM FinishedWorkBelow == Spec => []OnFinishedWork
<1>1. Init => OnFinishedWork
  BY DEF Init, AbsentRun, OnFinishedWork, IsRunning
<1>2. LifeInv /\ GraphInv /\ OnFinishedWork /\ [Next]_vars => OnFinishedWork'
  BY FinishedWorkKept
<1> QED  BY <1>1, <1>2, GraphHolds, PTL DEF Spec

\* Where nobody deletes what another Task depends on, the dependencies are done,
\* but for those whose completion a deadline or a reassessment took back.
THEOREM DependenciesFinished ==
  ASSUME \A t \in Tasks : DependsOn[t] \cap Clearable = {} PROVE Spec => []DependenciesDone
<1>1. LifeInv /\ GraphInv /\ OnFinishedWork => DependenciesDone
  <2> SUFFICES ASSUME LifeInv, GraphInv, OnFinishedWork, NEW r \in Runs, IsRunning(r), NEW d \in deps[runs[r].task]
               PROVE  tasks[d].status = "done" \/ Revoked(d)
    BY DEF DependenciesDone
  <2>1. runs[r].task \in Tasks /\ d \in Tasks
    BY DEF LifeInv, TypedInv, StoreInv, RowsAreRooted, IsRunning, ProgramTypes, ResolverTypeOK
  <2>2. d \in DependsOn[runs[r].task] /\ d \notin Clearable
    BY <2>1 DEF GraphInv
  <2> QED  BY <2>1, <2>2 DEF OnFinishedWork, Finished, TakenBack, Revoked, GraphInv
<1> QED  BY <1>1, GraphHolds, FinishedWorkBelow, PTL

-----------------------------------------------------------------------------
(* A deadlock that is handled is real.                                     *)

\* Where the captured graph still holds, what was waiting for it is stuck: the
\* pending Tasks of the graph all wait for one another, or one waits for work
\* that failed or is gone.
LEMMA QuietIsStuck ==
  ASSUME TypedInv, NEW snap \in [Tasks -> TaskRow], NEW on \in [Tasks -> SUBSET Tasks],
         Faithful(snap, on, tasks, deps, overruled), Quiet(snap, on),
         NEW t \in Tasks, snap[t].status = "pending", UnchangedSince(snap, on, t)
  PROVE  Stuck(t)
<1> DEFINE G == DependencyGraph(on, t)
           P == {d \in G : tasks[d].status = "pending"}
<1> USE DEF TypedInv, ProgramTypes, ResolverTypeOK
<1>1. G \subseteq Tasks /\ t \in G
  BY GraphInTasks, GraphHasRoot
<1>2. \A d \in G : tasks[d] = snap[d] /\ deps[d] = on[d]
  BY <1>1 DEF UnchangedSince, Faithful
<1>3. deps \in [Tasks -> SUBSET Tasks]
  OBVIOUS
<1>4. \A d \in G : deps[d] \subseteq G
  BY <1>1, <1>2, GraphIsClosed
<1>5. G \subseteq DependencyGraph(deps, t)
  BY <1>2, <1>3, GraphAgrees
<1> HIDE DEF G
<1>6. \A d \in P : \E e \in deps[d] : e \in G /\ tasks[e].status # "done"
  BY <1>1, <1>2, <1>4 DEF Quiet
<1>7. CASE \E d \in G : tasks[d].status \in {"failed"} \cup Missing
  BY <1>5, <1>7 DEF Stuck
<1>8. CASE \A d \in G : tasks[d].status \notin {"failed"} \cup Missing
  <2>1. \A e \in G : tasks[e].status \in {"pending", "done"}
    <3> SUFFICES ASSUME NEW e \in G PROVE tasks[e].status \in {"pending", "done"}
      OBVIOUS
    <3>1. tasks[e].status \notin OrphanStatus \cup {"awaiting_approval"} /\ tasks[e].status \notin {"draft", "absent"}
      BY <1>1, <1>2 DEF Quiet, Faithful
    <3>2. tasks[e].status \in TaskStatus \cup Missing
      BY <1>1 DEF StoreInv, StoreTypeOK, TaskRow
    <3> QED  BY <1>8, <3>1, <3>2 DEF OrphanStatus, TaskStatus, Missing
  <2>2. P \in SUBSET Tasks /\ t \in P
    BY <1>1, <1>2
  <2>3. \A d \in P : \E e \in deps[d] : e \in P
    BY <1>6, <2>1
  <2> HIDE DEF P
  <2>4. PICK d \in P : \E e \in deps[d] : d \in DependencyGraph(deps, e)
    BY <1>3, <2>2, <2>3, WaitingTasksCycle
  <2>5. d \in DependencyGraph(deps, t)
    BY <1>5, <2>4 DEF P
  <2> QED  BY <2>4, <2>5 DEF Stuck
<1> QED  BY <1>7, <1>8

LEMMA OthersStay ==
  ASSUME TypedInv, [Next]_vars, NEW s \in Supervisors, NEW q \in Supervisors, SupervisorStep(q), q # s
  PROVE  sup'[s] = sup[s]
<1>1. OwnerFenced /\ RunsAge
  BY StepIsGood DEF GoodStep
<1> QED
  BY <1>1, SupervisorSteps, RecoveryMoves, CollectionMoves, QuietMoves, DispatchMoves, RestMoves DEF GoodMove

\* A blocked Task leaves the work list with a write only if its captured graph
\* still holds.
LEMMA HandledHolds ==
  ASSUME TypedInv, GraphInv, [Next]_vars, NEW s \in Supervisors, NEW t \in Tasks, tasks' # tasks,
         \/ At(s, "deadlock") /\ t \in sup[s].todo \ sup'[s].todo
         \/ t \in resolver[s].todo \ resolver'[s].todo
  PROVE  Stuck(t)
<1>a. ASSUME NEW q \in Supervisors, SupervisorStep(q), q # s PROVE sup'[s] = sup[s]
  BY <1>a, OthersStay
<1> USE DEF TypedInv, ProgramTypes
<1>0. /\ sup \in [Supervisors -> SupRecord] /\ resolver \in [Supervisors -> ResolverRecord]
  BY DEF SupTypeOK, SupRecord, ResolverTypeOK, ResolverRecord
<1>1. ASSUME NEW q \in Supervisors, SupervisorStep(q), At(s, "deadlock"), t \in sup[s].todo \ sup'[s].todo
      PROVE  Stuck(t)
  <2>1. CASE q # s
    <3>1. sup'[s] = sup[s]
      BY <1>a, <1>1, <2>1
    <3> QED  BY <1>1, <3>1
  <2>2. CASE q = s
    <3>1. \E u \in Tasks : ForceFail(s, u)
      <4>0. sup[s].pc = "deadlock" /\ tasks' # tasks
        BY <1>1 DEF At
      <4>1. ~AwaitResolution(s) /\ ~Recovery(s)
        BY <4>0 DEF AwaitResolution, Deadlocked, Recovery, Restart, RecoverAck, ListOrphans, Recovered, RecoverRun,
           RecoverTask, At
      <4>2. ~Collects(s)
        BY <4>0 DEF Collects, Collection, TickStart, ListResults, Collected, Judge, RetryAfterFixes, AcknowledgeRun, CollectResult,
           SkipResult, At
      <4>3. ~Checks(s)
        BY <4>0 DEF Checks, HealthCheck, ListActive, Checked, CheckRun, At
      <4>4. ~Dispatches(s)
        BY <4>0 DEF Dispatches, PlanDispatch, Dispatched, PrepareAbandoned, PrepareVetoed, PrepareFails, Spawn, Register,
           SkipRunning, Dispatch, DispatchConflict, Dispatching, At
      <4>5. ~PlanDeadlock(s) /\ ~DeadlockHandled(s)
        BY <4>0 DEF PlanDeadlock, Deadlocked, DeadlockHandled, At, assessVars, storeVars
      <4> QED  BY <1>1, <2>2, <4>1, <4>2, <4>3, <4>4, <4>5, SupervisorSteps DEF Deadlock
    <3>2. PICK u \in Tasks : ForceFail(s, u)
      BY <3>1
    <3> DEFINE rec == [sup[s] EXCEPT !.todo = @ \ {u}]
    <3>3. sup'[s] = rec
      BY <3>2, Moves DEF ForceFail, Drops
    <3>4. rec.todo = sup[s].todo \ {u}
      BY <1>0 DEF SupRecord
    <3> HIDE DEF rec
    <3>5. u = t
      BY <1>1, <3>3, <3>4
    <3>6. UnchangedSince(sup[s].snap, sup[s].deps, t)
      BY <3>2, <3>5 DEF ForceFail, storeVars
    <3>7. /\ Faithful(sup[s].snap, sup[s].deps, tasks, deps, overruled) /\ Quiet(sup[s].snap, sup[s].deps)
          /\ sup[s].snap[t].status = "pending"
      BY <1>1 DEF GraphInv, Sound, Planned, Ticking, Phase, At
    <3>8. sup[s].snap \in [Tasks -> TaskRow] /\ sup[s].deps \in [Tasks -> SUBSET Tasks]
      BY <1>0 DEF SupRecord
    <3> QED  BY <3>6, <3>7, <3>8, QuietIsStuck
  <2> QED  BY <2>1, <2>2
<1>2. ASSUME NEW q \in Supervisors, Resolution(q), t \in resolver[s].todo \ resolver'[s].todo PROVE Stuck(t)
  <2>1. ASSUME Holds(s, t), resolver[s].pc # "idle" PROVE Stuck(t)
    <3>1. UnchangedSince(resolver[s].snap, resolver[s].deps, t) /\ resolver[s].snap[t].status = "pending"
      BY <1>2, <2>1 DEF Holds, ResolverShape, Listed
    <3>2. Faithful(resolver[s].snap, resolver[s].deps, tasks, deps, overruled) /\ Quiet(resolver[s].snap, resolver[s].deps)
      BY <2>1 DEF GraphInv, SoundResolution
    <3>3. resolver[s].snap \in [Tasks -> TaskRow] /\ resolver[s].deps \in [Tasks -> SUBSET Tasks]
      BY <1>0 DEF ResolverRecord
    <3> QED  BY <3>1, <3>2, <3>3, QuietIsStuck
  <2>2. ASSUME NEW rec, resolver' = [resolver EXCEPT ![q] = rec] PROVE q = s /\ t \notin rec.todo
    BY <1>0, <1>2, <2>2
  <2>3. ASSUME NEW u \in Tasks, Decided(q, u) PROVE q = s /\ u = t
    <3> DEFINE rec == [resolver[q] EXCEPT !.todo = @ \ {u}]
    <3>1. resolver' = [resolver EXCEPT ![q] = rec] /\ rec.todo = resolver[q].todo \ {u}
      BY <1>0, <2>3 DEF Decided, ResolverRecord
    <3> HIDE DEF rec
    <3>2. q = s /\ t \notin rec.todo
      BY <2>2, <3>1
    <3> QED  BY <1>2, <3>1, <3>2
  <2>4. ASSUME NEW u \in Tasks, NEW f \in Tasks, RetryDependency(q, u, f) PROVE Stuck(t)
    <3>1. Holds(q, u) /\ resolver[q].pc # "idle"
      BY <2>4 DEF RetryDependency, MayDecide, Considers, storeVars
    <3>2. q = s /\ u = t
      <4> DEFINE rec == [resolver[q] EXCEPT !.todo = @ \ {u}, !.retried = @ \cup {f}]
      <4>0. resolver' = [resolver EXCEPT ![q].todo = @ \ {u}, ![q].retried = @ \cup {f}]
        BY <2>4, <3>1 DEF RetryDependency
      <4>1. resolver' = [resolver EXCEPT ![q] = rec]
        BY <4>0
      <4>3. rec.todo = resolver[q].todo \ {u}
        BY <1>0 DEF ResolverRecord
      <4> HIDE DEF rec
      <4>2. q = s /\ t \notin rec.todo
        BY <2>2, <4>1
      <4> QED  BY <1>2, <4>2, <4>3
    <3> QED  BY <2>1, <3>1, <3>2
  <2>5. ASSUME NEW u \in Tasks, GiveUp(q, u) \/ FailCaptured(q, u) \/ \E f \in Tasks : Absorb(q, u, f) PROVE Stuck(t)
    <3>1. Holds(q, u) /\ resolver[q].pc # "idle" /\ Decided(q, u)
      BY <2>5 DEF GiveUp, FailCaptured, Absorb, MayDecide, Considers, storeVars
    <3> QED  BY <2>1, <2>3, <3>1
  <2> QED  BY <1>2, <2>4, <2>5 DEF Resolution, AlreadyRetried, ResolutionBreaks, ResolutionEnds, storeVars
<1>3. ASSUME NEW q \in Supervisors, SupervisorStep(q), t \in resolver[s].todo \ resolver'[s].todo PROVE FALSE
  <2>1. AwaitResolution(q)
    BY <1>3 DEF SupervisorStep, resolverVars
  <2> QED  BY <2>1 DEF AwaitResolution, assessVars, storeVars
<1>4. ASSUME NEW q \in Supervisors, Resolution(q), sup' = sup, At(s, "deadlock"), t \in sup[s].todo \ sup'[s].todo PROVE FALSE
  BY <1>4
<1> QED
  BY <1>1, <1>2, <1>3, <1>4
     DEF Next, Supervises, Resolves, SupervisorCrash, RunProcess, Works, Time, RunnerCrash, Kill, RetryTask, ClearTask,
         DeadlinePasses, Reassess, vars, supVars, hostVars, assessVars, storeVars, resolverVars

\* What a tick or a resolution decides about a blocked Task is written only
\* while the Task is stuck: whatever happened since the listing wins.
THEOREM DeadlocksAreReal == Spec => DeadlockIsReal
<1>1. LifeInv /\ GraphInv /\ [Next]_vars =>
        [\A s \in Supervisors, t \in Tasks :
           /\ \/ At(s, "deadlock") /\ t \in sup[s].todo \ sup'[s].todo
              \/ t \in resolver[s].todo \ resolver'[s].todo
           /\ tasks' # tasks
           => Stuck(t)]_vars
  BY HandledHolds DEF LifeInv
<1> QED  BY <1>1, GraphHolds, PTL DEF Spec, DeadlockIsReal

-----------------------------------------------------------------------------
(* The lifecycle implements exclusive attempts.                            *)

\* Whatever supervisors, runners and users do to the rows, and wherever they
\* crash, each generation of a Task has one attempt, and one at a time.
THEOREM LifecycleAttempts == Spec => Attempts!Spec
<1>1. Init => Attempts!Init
  BY DEF Init, AbsentTask, AbsentRun, Attempts!Init, genOf, liveOf, tokenOf, endedOf, RunningRunsOf, RunsOf, RunOutcome
<1>2. LifeInv /\ [Next]_vars => [Attempts!Next]_(Attempts!attemptVars)
  BY LifeStep DEF GoodStep
<1> QED  BY <1>1, <1>2, LifecycleKept, PTL DEF Spec, Attempts!Spec
=============================================================================
