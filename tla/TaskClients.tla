----------------------------- MODULE TaskClients -----------------------------
(***************************************************************************)
(* The store under arbitrary concurrent callers.  A client reads a Task    *)
(* row, keeps the copy for as long as it likes (an await, an assessment, a *)
(* human decision, another host) and then applies any operation the store  *)
(* offers with that copy.  Supervisors, assessors, HTTP handlers, monitors *)
(* and resolvers of the code are all such clients.                         *)
(***************************************************************************)
EXTENDS TaskStore

CONSTANTS Clients

VARIABLES held   \* the Task row each client captured last

vars == <<tasks, runs, held>>

Captured == [task : Tasks \cup {NoTask}, row : TaskRow]
NothingHeld == [task |-> NoTask, row |-> AbsentTask]

Init ==
  /\ tasks = [t \in Tasks |-> AbsentTask]
  /\ runs = [r \in Runs |-> AbsentRun]
  /\ held = [c \in Clients |-> NothingHeld]

\* getTask / listTasks: the row is captured, not locked.
Read(c, t) ==
  /\ Exists(t)
  /\ held' = [held EXCEPT ![c] = [task |-> t, row |-> tasks[t]]]
  /\ UNCHANGED storeVars

Holds(c, t) == held[c].task = t

Create(t) ==
  /\ \E status \in {"draft", "pending"} : CreateTask(t, status)
  /\ UNCHANGED held

Delete(t) == DeleteTask(t) /\ UNCHANGED held

ClientClaim(c, t) ==
  /\ Holds(c, t)
  /\ \E r \in Runs : Claim(t, RefOf(held[c].row), r)
  /\ UNCHANGED held

ClientMutate(c, t) ==
  /\ Holds(c, t)
  /\ \/ \E new \in TaskStatus : MutateTransition(t, RefOf(held[c].row), new)
     \/ \E countRetry, onlyIfRunRunning \in BOOLEAN :
          Requeue(t, RefOf(held[c].row), countRetry, onlyIfRunRunning)
     \/ Cancel(t, RefOf(held[c].row))
  /\ UNCHANGED held

ClientTransition(c, t) ==
  /\ Holds(c, t)
  /\ \E new \in TaskStatus : Transition(t, held[c].row, new)
  /\ UNCHANGED held

ClientSetStatus(c, t) ==
  /\ Holds(c, t)
  /\ \E new \in TaskStatus : UnsafeSetStatus(t, held[c].row, new)
  /\ UNCHANGED held

\* A runner, a health check or recovery reports an outcome, however late.
Report(r) ==
  /\ runs[r].status # "absent"
  /\ \E outcome \in RunOutcome : CompleteRun(r, outcome)
  /\ UNCHANGED held

Acknowledge(r) == MarkRunCollected(r) /\ UNCHANGED held

ClientStep(c, t) ==
  \/ Read(c, t)
  \/ ClientClaim(c, t)
  \/ ClientMutate(c, t)
  \/ ClientTransition(c, t)
  \/ ClientSetStatus(c, t)

Next ==
  \/ \E t \in Tasks : Create(t) \/ Delete(t)
  \/ \E c \in Clients, t \in Tasks : ClientStep(c, t)
  \/ \E r \in Runs : Report(r) \/ Acknowledge(r)

Spec == Init /\ [][Next]_vars

-----------------------------------------------------------------------------

\* The rows and the captured copies are well formed.
TypeOK ==
  /\ StoreTypeOK
  /\ held \in [Clients -> Captured]

\* No reference is ever reused: a copy that carries the current revision
\* carries the current owner, so a stale holder can never pass for a current
\* one (no ABA), even though transition() does not compare the owner.
NoReferenceReuse ==
  \A c \in Clients : \A t \in Tasks : Holds(c, t) =>
    /\ held[c].row.revision <= tasks[t].revision
    /\ held[c].row.revision = tasks[t].revision => held[c].row.active = tasks[t].active

\* Terminal Run identities never reopen and never change their outcome
\* (run-store.ts completeRun): cancellation is not overwritten by a late
\* completion, nor completion by a late cancellation.
OutcomeIsFinal == [][OutcomesKept]_vars

\* A Task changes owner only together with a new generation, and the Run that
\* loses its Task does not go on running.
GenerationFence == [][OwnerFenced]_vars

\* Every behaviour of the store, seen through its Runs, is one of TaskAttempts.
ImplementsAttempts == Attempts!Spec
=============================================================================
