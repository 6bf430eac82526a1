------------------------------ MODULE TaskStore ------------------------------
(***************************************************************************)
(* The durable Task and Run rows and the operations the task store offers  *)
(* on them (packages/drizzle/src/stores/task-store.ts and run-store.ts,    *)
(* over the pure state calculation of packages/core/src/task-execution.ts  *)
(* and the state machine of packages/core/src/state-machine.ts).           *)
(*                                                                         *)
(* Every operation is one transaction or one conditional UPDATE in the     *)
(* code, so it is one action here.  An operation is an operator over the   *)
(* rows: TaskClients composes them with arbitrary stale callers,           *)
(* TaskLifecycle with the supervisor, the runners and the users.           *)
(*                                                                         *)
(* A reference [revision, runId] is what a caller captured earlier; `seen' *)
(* is a whole captured row.  An operation whose guard is false is the      *)
(* rejection the code throws: it changes nothing.                          *)
(***************************************************************************)
EXTENDS Naturals

CONSTANTS
  Tasks,        \* identities of Tasks
  Runs,         \* identities of Runs
  NoTask,       \* the task of a Run row that does not exist
  NoRun,        \* an undefined activeRunId
  MaxRevision   \* 2147483647 in nextTaskExecutionRevision

ASSUME NoTaskAssumption == NoTask \notin Tasks
ASSUME NoRunAssumption == NoRun \notin Runs
ASSUME MaxRevisionAssumption == MaxRevision \in Nat

VARIABLES
  tasks,   \* Task rows
  runs     \* Run rows

storeVars == <<tasks, runs>>

TaskStatus == {"draft", "pending", "awaiting_approval", "assigned",
               "in_progress", "review", "done", "failed"}
TerminalStatus == {"done", "failed"}
RunOutcome == {"completed", "failed", "killed"}
Missing == {"absent", "deleted"}      \* a Task row not yet, or no longer, stored

TaskRow == [status   : TaskStatus \cup Missing,
            revision : 0..MaxRevision,
            active   : Runs \cup {NoRun},
            retries  : Nat]

RunRow == [status    : RunOutcome \cup {"absent", "running"},
           task      : Tasks \cup {NoTask},
           revision  : 0..MaxRevision,
           collected : BOOLEAN]

AbsentTask == [status |-> "absent", revision |-> 0, active |-> NoRun, retries |-> 0]
AbsentRun == [status |-> "absent", task |-> NoTask, revision |-> 0, collected |-> FALSE]

StoreTypeOK == /\ tasks \in [Tasks -> TaskRow]
               /\ runs \in [Runs -> RunRow]

-----------------------------------------------------------------------------
(* The state machine of a Task.                                            *)

VALID_TRANSITIONS(status) ==
  CASE status = "draft"             -> {"pending"}
    [] status = "pending"           -> {"assigned", "awaiting_approval"}
    [] status = "awaiting_approval" -> {"assigned", "failed", "done", "pending"}
    [] status = "assigned"          -> {"in_progress", "awaiting_approval"}
    [] status = "in_progress"       -> {"review", "failed", "awaiting_approval"}
    [] status = "review"            -> {"done", "failed", "awaiting_approval"}
    [] status = "failed"            -> {"pending"}
    [] OTHER                        -> {}

Exists(t) == tasks[t].status \notin Missing

RefOf(row) == [revision |-> row.revision, runId |-> row.active]

\* A Task that names an active Run and that Run agree with each other.
Consistent(t) ==
  tasks[t].active # NoRun =>
    /\ runs[tasks[t].active].status # "absent"
    /\ runs[tasks[t].active].task = t
    /\ runs[tasks[t].active].revision = tasks[t].revision

\* Mutant: a reference that only has to name an existing Task.
Current_AnyGeneration(t, ref) == Exists(t) /\ Consistent(t)

\* assertCurrent, and the Run that the transaction reads with the Task.
Current(t, ref) == Exists(t) /\ RefOf(tasks[t]) = ref /\ Consistent(t)

LiveRun(t) == tasks[t].active # NoRun /\ runs[tasks[t].active].status = "running"

\* Mutant: the boundary is off by one.
RevisionLeft_OffByOne(t) == tasks[t].revision <= MaxRevision

RevisionLeft(t) == tasks[t].revision < MaxRevision

RunsOf(t) == {r \in Runs : runs[r].task = t}

RunningRunsOf(t) == {r \in RunsOf(t) : runs[r].status = "running"}

-----------------------------------------------------------------------------
(* What the transactions write.                                            *)

SetTaskStatus(t, status) == tasks' = [tasks EXCEPT ![t].status = status]

\* The Task leaves its attempt behind: a new generation without an owner.
ReleaseTask(t, status, retries) ==
  tasks' = [tasks EXCEPT ![t] = [status   |-> status,
                                 revision |-> tasks[t].revision + 1,
                                 active   |-> NoRun,
                                 retries  |-> retries]]

KillActiveRun(t) ==
  runs' = IF LiveRun(t) THEN [runs EXCEPT ![tasks[t].active].status = "killed"]
                        ELSE runs

EndAttempt(t, status, retries) ==
  /\ RevisionLeft(t)
  /\ ReleaseTask(t, status, retries)
  /\ KillActiveRun(t)

RetriesAfter(row, counted) == IF counted THEN row.retries + 1 ELSE row.retries

-----------------------------------------------------------------------------
(* Operations fenced by a captured reference.                              *)

\* Mutant: the insert of the Run overwrites an existing row.
CanClaim_AnyRun(t, ref, r) ==
  /\ Current(t, ref)
  /\ tasks[t].status = "pending"
  /\ tasks[t].active = NoRun
  /\ RevisionLeft(t)

CanClaim(t, ref, r) ==
  /\ Current(t, ref)
  /\ tasks[t].status = "pending"
  /\ tasks[t].active = NoRun
  /\ runs[r].status = "absent"
  /\ RevisionLeft(t)

\* Mutant: the Run is written with the generation that was read.
Claim_OldRunRevision(t, ref, r) ==
  /\ CanClaim(t, ref, r)
  /\ tasks' = [tasks EXCEPT ![t].status = "in_progress",
                            ![t].revision = tasks[t].revision + 1,
                            ![t].active = r]
  /\ runs' = [runs EXCEPT ![r] = [status |-> "running", task |-> t, collected |-> FALSE,
                                  revision |-> tasks[t].revision]]

\* Mutant: the claim does not open a generation.
Claim_SameGeneration(t, ref, r) ==
  /\ CanClaim(t, ref, r)
  /\ tasks' = [tasks EXCEPT ![t].status = "in_progress", ![t].active = r]
  /\ runs' = [runs EXCEPT ![r] = [status |-> "running", task |-> t, collected |-> FALSE,
                                  revision |-> tasks[t].revision]]

Claim(t, ref, r) ==
  /\ CanClaim(t, ref, r)
  /\ tasks' = [tasks EXCEPT ![t].status = "in_progress",
                            ![t].revision = tasks[t].revision + 1,
                            ![t].active = r]
  /\ runs' = [runs EXCEPT ![r] = [status    |-> "running",
                                  task      |-> t,
                                  revision  |-> tasks[t].revision + 1,
                                  collected |-> FALSE]]

ReleasingStatus == {"pending", "awaiting_approval"}

CanMoveTo(t, ref, new) == Current(t, ref) /\ new \in VALID_TRANSITIONS(tasks[t].status)

MutateTransition(t, ref, new) ==
  /\ CanMoveTo(t, ref, new)
  /\ \/ /\ new \in ReleasingStatus
        /\ EndAttempt(t, new, RetriesAfter(tasks[t], new = "pending" /\ tasks[t].status = "failed"))
     \/ /\ new \notin ReleasingStatus
        /\ SetTaskStatus(t, new)
        /\ UNCHANGED runs

CanRequeue(t, ref, countRetry, onlyIfRunRunning) ==
  /\ Current(t, ref)
  /\ tasks[t].status \notin {"draft", "done"}
  /\ countRetry => tasks[t].status \in {"failed", "review", "in_progress", "assigned"}
  /\ onlyIfRunRunning => LiveRun(t)

Requeue(t, ref, countRetry, onlyIfRunRunning) ==
  /\ CanRequeue(t, ref, countRetry, onlyIfRunRunning)
  /\ EndAttempt(t, "pending", RetriesAfter(tasks[t], countRetry))

\* Mutant: the Task fails, its Run goes on.
Cancel_LeavesRun(t, ref) ==
  /\ Current(t, ref)
  /\ RevisionLeft(t)
  /\ ReleaseTask(t, "failed", tasks[t].retries)
  /\ UNCHANGED runs

Cancel(t, ref) ==
  /\ Current(t, ref)
  /\ IF tasks[t].status \in TerminalStatus
       THEN IF tasks[t].active = NoRun
              THEN UNCHANGED storeVars
              ELSE EndAttempt(t, tasks[t].status, tasks[t].retries)
       ELSE EndAttempt(t, "failed", tasks[t].retries)

-----------------------------------------------------------------------------
(* Operations that read a row and write it back conditionally.             *)

\* The UPDATE of transition matches status, retries and revision.
Transition(t, seen, new) ==
  IF new \in ReleasingStatus /\ seen.active # NoRun
    THEN MutateTransition(t, RefOf(seen), new)
    ELSE /\ new \in VALID_TRANSITIONS(seen.status)
         /\ Exists(t)
         /\ tasks[t].status = seen.status
         /\ tasks[t].retries = seen.retries
         /\ tasks[t].revision = seen.revision
         /\ IF new = "pending"
              THEN /\ RevisionLeft(t)
                   /\ ReleaseTask(t, new, RetriesAfter(seen, seen.status = "failed"))
              ELSE SetTaskStatus(t, new)
         /\ UNCHANGED runs

\* The UPDATE of unsafeSetStatus matches the revision alone.
UnsafeSetStatus(t, seen, new) ==
  IF new = "pending" /\ seen.active # NoRun
    THEN Requeue(t, RefOf(seen), FALSE, FALSE)
    ELSE /\ Exists(t)
         /\ tasks[t].revision = seen.revision
         /\ IF new = "pending"
              THEN RevisionLeft(t) /\ ReleaseTask(t, new, tasks[t].retries)
              ELSE SetTaskStatus(t, new)
         /\ UNCHANGED runs

-----------------------------------------------------------------------------
(* Rows come and go; Runs end and are acknowledged.                        *)

\* Identities are never reused (nanoid), so a deleted row stays deleted.
CreateTask(t, status) ==
  /\ tasks[t].status = "absent"
  /\ tasks' = [tasks EXCEPT ![t].status = status]
  /\ UNCHANGED runs

DeleteTask(t) ==
  /\ Exists(t)
  /\ tasks' = [tasks EXCEPT ![t].status = "deleted"]
  /\ UNCHANGED runs

CompleteRun(r, outcome) ==
  /\ runs' = IF runs[r].status = "running" THEN [runs EXCEPT ![r].status = outcome] ELSE runs
  /\ UNCHANGED tasks

MarkRunCollected(r) ==
  /\ runs[r].status # "absent"
  /\ runs' = [runs EXCEPT ![r].collected = TRUE]
  /\ UNCHANGED tasks

-----------------------------------------------------------------------------
(* What the operations maintain, whoever calls them.                       *)

\* The transaction never meets a Task and a Run that disagree: the "Invalid
\* Task execution state" of prepareTaskExecutionMutation (task-execution.ts:324)
\* is not reachable by any order of the operations above.
OwnerAgrees == \A t \in Tasks : Consistent(t)

\* A running Run is the one its Task names as active, so a Task never has two
\* executions at once, whoever claims, retries, cancels or deletes it.
RunningIsOwned ==
  \A r \in Runs : runs[r].status = "running" => tasks[runs[r].task].active = r

AtMostOneRunning ==
  \A r1, r2 \in Runs :
    /\ runs[r1].status = "running"
    /\ runs[r2].status = "running"
    /\ runs[r1].task = runs[r2].task
    => r1 = r2

\* A queued Task has no owner: a scheduler that sees "pending" can claim it,
\* and no Run is left running behind a Task that waits for its next attempt.
PendingIsUnowned ==
  \A t \in Tasks : tasks[t].status = "pending" => tasks[t].active = NoRun

\* A Run row names the Task it was claimed for; a row never written has no owner.
RowsAreRooted ==
  /\ \A r \in Runs : runs[r].status # "absent" => runs[r].task \in Tasks
  /\ \A t \in Tasks : tasks[t].status = "absent" => tasks[t].active = NoRun

\* What the operations need to go on maintaining all of it.
StoreInv == StoreTypeOK /\ OwnerAgrees /\ RunningIsOwned /\ PendingIsUnowned /\ RowsAreRooted

\* A Run with an outcome keeps it.
OutcomesKept ==
  \A r \in Runs : runs[r].status \in RunOutcome => runs'[r].status = runs[r].status

\* Generations only grow, and the owner of a Task changes with them.
OwnerFenced ==
  \A t \in Tasks :
    /\ tasks'[t].revision >= tasks[t].revision
    /\ tasks'[t].active # tasks[t].active =>
         /\ tasks'[t].revision = tasks[t].revision + 1
         /\ tasks[t].active # NoRun => runs'[tasks[t].active].status # "running"

\* The exclusive attempts of TaskAttempts, read off the rows.
genOf == [t \in Tasks |-> tasks[t].revision]
liveOf == [t \in Tasks |-> RunningRunsOf(t)]
tokenOf == [r \in Runs |-> runs[r].revision]
endedOf == {r \in Runs : runs[r].status \in RunOutcome}

Attempts == INSTANCE TaskAttempts
              WITH gen <- genOf, live <- liveOf, token <- tokenOf, ended <- endedOf
=============================================================================
