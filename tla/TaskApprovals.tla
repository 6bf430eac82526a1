---------------------------- MODULE TaskApprovals ----------------------------
(***************************************************************************)
(* Human gates on task:spawn and task:complete                             *)
(* (packages/core/src/task-approval-coordinator.ts, approval-manager.ts,   *)
(* task-dispatch.ts, over commitTaskApprovalDecision of the task store).   *)
(*                                                                         *)
(* A batch is the set of requests of one invocation.  Whoever decides      *)
(* reads the request, the Task and the batch first and commits later: the  *)
(* transaction compares everything that was read with the rows.            *)
(***************************************************************************)
EXTENDS TaskStore, Functions

CONSTANTS
  Batches,        \* identities of batches (nanoid)
  SpawnGates, CompleteGates,  \* human gates on each hook
  Timed,          \* gates with a timeout
  Lenient,        \* gates whose timeout approves
  MaxRevisions,   \* gate.maxRevisions
  Users,          \* requests of the approval API
  MaxEdits,       \* bound: edits of a Task, besides the rejections
  MaxReloads,     \* bound: changes of agents or gates
  MaxCrashes,     \* bound: crashes of the host
  NoBatch

Gates == SpawnGates \cup CompleteGates
Timers == Batches \X Timed

ASSUME ApprovalAssumption ==
  /\ NoBatch \notin Batches
  /\ Users \cap Timers = {}
  /\ MaxRevisions \in Nat /\ MaxEdits \in Nat /\ MaxReloads \in Nat /\ MaxCrashes \in Nat

VARIABLES
  authority,   \* Task.approvalState
  input,       \* version of everything in a Task but its lifecycle
  rejections,  \* Task.revisionCount
  world,       \* version of the agents and the gates
  requests,    \* the batch rows
  dispatch,    \* what the host does with each claimed Run, and the input it claimed
  consent,     \* history: the batch a Run was started on, and what it runs with
  timers,      \* timers of the ApprovalManager
  mind,        \* what each decider has read
  up,          \* the host with its ApprovalManager runs
  bounds       \* edits and crashes so far

approvalVars == <<authority, requests>>
hostVars == <<dispatch, consent>>
vars == <<storeVars, approvalVars, input, rejections, world, hostVars, timers, mind, up, bounds>>

Phase == {"waiting", "ready", "claimed"}
Answer == {"pending", "approved", "rejected", "timeout"}

NoAuthority == [batch |-> NoBatch, phase |-> "none", revision |-> 0, run |-> NoRun]
NoRequests == [hook |-> "none", task |-> NoTask, input |-> 0, world |-> 0, answer |-> << >>]
NotRead == [batch |-> NoBatch]
NoConsent == [batch |-> NoBatch, input |-> 0, world |-> 0]

GatesOf(hook) == IF hook = "task:spawn" THEN SpawnGates ELSE CompleteGates

Init ==
  /\ tasks = [t \in Tasks |-> [AbsentTask EXCEPT !.status = "pending"]]
  /\ runs = [r \in Runs |-> AbsentRun]
  /\ authority = [t \in Tasks |-> NoAuthority]
  /\ input = [t \in Tasks |-> 0]
  /\ rejections = [t \in Tasks |-> 0]
  /\ world = 0
  /\ requests = [b \in Batches |-> NoRequests]
  /\ dispatch = [r \in Runs |-> [pc |-> "idle", input |-> 0]]
  /\ consent = [r \in Runs |-> NoConsent]
  /\ timers = {}
  /\ mind = [d \in Users \cup Timers |-> NotRead]
  /\ up = TRUE
  /\ bounds = [edits |-> 0, crashes |-> 0]

-----------------------------------------------------------------------------
(* Batches                                                                 *)

Accepted(g, answer) == answer = "approved" \/ (answer = "timeout" /\ g \in Lenient)
AllAccepted(answers) == \A g \in DOMAIN answers : Accepted(g, answers[g])

StatusIn(phase) ==
  CASE phase = "waiting" -> "awaiting_approval" [] phase = "ready" -> "pending" [] OTHER -> "in_progress"

\* Identities are fresh (nanoid): which of the unused ones it is makes no difference.
NewBatch == CHOOSE b \in Batches : requests[b].hook = "none"
NewRun == CHOOSE r \in Runs : runs[r].status = "absent"

\* batch(): the authority of the Task is that of its present attempt.
Valid(t) ==
  /\ authority[t].phase \in Phase
  /\ authority[t].revision = tasks[t].revision /\ authority[t].run = tasks[t].active
  /\ tasks[t].status = StatusIn(authority[t].phase)

SameInput(t) == requests[authority[t].batch].input = input[t]

Grants(t, b, phase, run) ==
  authority' = [authority EXCEPT
    ![t] = [batch |-> b, phase |-> phase, revision |-> tasks[t].revision + 1, run |-> run]]

\* Everything that ends an attempt takes the authority with it.
Revokes(t) == authority' = [authority EXCEPT ![t] = NoAuthority]

\* The batch is written with the suspension of the Task, in one transaction.
Suspend(t, b, hook, read) ==
  /\ requests[b].hook = "none" /\ b = NewBatch
  /\ MutateTransition(t, RefOf(tasks[t]), "awaiting_approval")
  /\ Grants(t, b, "waiting", NoRun)
  /\ requests' = [requests EXCEPT ![b] =
       [hook |-> hook, task |-> t, input |-> read, world |-> world,
        answer |-> [g \in GatesOf(hook) |-> "pending"]]]
  /\ timers' = timers \cup ({b} \X (GatesOf(hook) \cap Timed))

-----------------------------------------------------------------------------
(* Dispatch: claim, then the task:spawn gates                              *)

decisionsKept == <<rejections, world, mind, up, bounds>>

\* A ready batch is bound to one Run; an edited Task drops it.
ClaimTask(t, r) ==
  /\ up
  /\ Claim(t, RefOf(tasks[t]), r) /\ r = NewRun
  /\ IF authority[t] = NoAuthority
       THEN UNCHANGED authority
       ELSE /\ Valid(t) /\ authority[t].phase = "ready"
            /\ AllAccepted(requests[authority[t].batch].answer)
            /\ IF SameInput(t) THEN Grants(t, authority[t].batch, "claimed", r) ELSE Revokes(t)
  /\ dispatch' = [dispatch EXCEPT ![r] = [pc |-> "checking", input |-> input[t]]]
  /\ UNCHANGED <<requests, input, consent, timers, decisionsKept>>

Checking(r) == up /\ dispatch[r].pc = "checking"
TaskOf(r) == runs[r].task
StillActive(r) == tasks[TaskOf(r)].active = r /\ runs[r].status = "running"
Dispatches(r, pc) == dispatch' = [dispatch EXCEPT ![r].pc = pc]

\* The claimed batch is about this hook, these gates, this agent and this input.
Authorized(r) ==
  LET a == authority[TaskOf(r)]
  IN  /\ a.phase = "claimed" /\ Valid(TaskOf(r))
      /\ requests[a.batch].hook = "task:spawn"
      /\ requests[a.batch].world = world
      /\ requests[a.batch].input = dispatch[r].input
      /\ AllAccepted(requests[a.batch].answer)

Starts(r) ==
  /\ Dispatches(r, "started")
  /\ consent' = [consent EXCEPT
       ![r] = [batch |-> authority[TaskOf(r)].batch, input |-> dispatch[r].input, world |-> world]]

\* The task:spawn gates of a Run that is still active and unedited.
CheckSpawn(r) ==
  /\ Checking(r) /\ StillActive(r)
  /\ input[TaskOf(r)] = dispatch[r].input
  /\ \/ /\ SpawnGates = {} \/ Authorized(r)
        /\ Starts(r)
        /\ UNCHANGED <<storeVars, approvalVars, timers>>
     \/ /\ SpawnGates # {} /\ ~Authorized(r)
        /\ \E b \in Batches : Suspend(TaskOf(r), b, "task:spawn", dispatch[r].input)
        /\ Dispatches(r, "over")
        /\ UNCHANGED consent
  /\ UNCHANGED <<input, decisionsKept>>

\* An edit since the claim: the transaction refuses, the Run is failed.
SpawnConflict(r) ==
  /\ Checking(r) /\ StillActive(r)
  /\ input[TaskOf(r)] # dispatch[r].input
  /\ CompleteRun(r, "failed")
  /\ Dispatches(r, "over")
  /\ UNCHANGED <<approvalVars, input, consent, timers, decisionsKept>>

\* isTaskDispatchActive: the attempt was taken away.
SpawnAbandoned(r) ==
  /\ Checking(r) /\ ~StillActive(r)
  /\ Dispatches(r, "over")
  /\ UNCHANGED <<storeVars, approvalVars, input, consent, timers, decisionsKept>>

-----------------------------------------------------------------------------
(* The agent, and the task:complete gates                                  *)

RunEnds(r, outcome) ==
  /\ dispatch[r].pc = "started"
  /\ runs[r].status = "running"
  /\ CompleteRun(r, outcome)
  /\ Dispatches(r, "over")
  /\ UNCHANGED <<approvalVars, input, consent, timers, decisionsKept>>

\* The supervisor's collection, reduced to the status it leads to.
Collect(t) ==
  LET r == tasks[t].active
  IN  /\ up
      /\ tasks[t].status = "in_progress"
      /\ runs[r].status \in {"completed", "failed"}
      /\ MutateTransition(t, RefOf(tasks[t]), IF runs[r].status = "completed" THEN "review" ELSE "failed")
      /\ UNCHANGED <<approvalVars, input, hostVars, timers, decisionsKept>>

\* transitionToDone of an accepted Task.
CheckComplete(t) ==
  /\ up
  /\ tasks[t].status = "review"
  /\ IF CompleteGates = {}
       THEN /\ MutateTransition(t, RefOf(tasks[t]), "done")
            /\ UNCHANGED <<approvalVars, timers>>
       ELSE \E b \in Batches : Suspend(t, b, "task:complete", input[t])
  /\ UNCHANGED <<input, hostVars, decisionsKept>>

-----------------------------------------------------------------------------
(* Decisions: a user or a timer                                            *)

\* What resolve reads: the Task with its authority, and the batch.
Read(t, b, g) ==
  [batch |-> b, gate |-> g, task |-> t, row |-> tasks[t], authority |-> authority[t],
   input |-> input[t], rejections |-> rejections[t], answer |-> requests[b].answer]

Obsolete(b) ==
  LET t == requests[b].task
  IN  ~(Valid(t) /\ authority[t].phase = "waiting" /\ authority[t].batch = b /\ SameInput(t))

Waits(b) == requests[b].hook # "none" /\ ~Obsolete(b)

\* The open request of a batch the Task waits for.
Open(b, g) ==
  /\ Waits(b)
  /\ g \in DOMAIN requests[b].answer /\ requests[b].answer[g] = "pending"

Looks(d, b, g) == mind' = [mind EXCEPT ![d] = Read(requests[b].task, b, g)]

UserLooks(u, b, g) ==
  /\ mind[u] = NotRead
  /\ Open(b, g)
  /\ Looks(u, b, g)
  /\ UNCHANGED <<storeVars, approvalVars, input, rejections, world, hostVars, timers, up, bounds>>

Has(d) == mind[d] # NotRead
Forgets(d) == mind' = [mind EXCEPT ![d] = NotRead]

\* Mutant: the transaction compares the reference and the request decided alone.
Fresh_OwnRequest(d) ==
  LET m == mind[d]
  IN  RefOf(tasks[m.task]) = RefOf(m.row) /\ requests[m.batch].answer[m.gate] = m.answer[m.gate]

\* The rows are those that were read.
Fresh(d) == mind[d] = Read(mind[d].task, mind[d].batch, mind[d].gate)

\* The batch with one answer more; a rejection closes the open requests.
AnswersWith(m, new, rejecting) ==
  [g \in DOMAIN m.answer |->
     IF g = m.gate THEN new
     ELSE IF rejecting /\ m.answer[g] = "pending" THEN "rejected" ELSE m.answer[g]]

Answers(m, new, rejecting) ==
  requests' = [requests EXCEPT ![m.batch].answer = AnswersWith(m, new, rejecting)]

\* Mutant: the last approval is stored, the Task is left for a later step.
Grant_Unfinished(m, new) ==
  /\ Answers(m, new, FALSE)
  /\ UNCHANGED <<storeVars, authority, input>>

\* An acceptance; the last one moves the Task in the same transaction.
Grant(m, new) ==
  LET t == m.task
  IN  /\ Answers(m, new, FALSE)
      /\ UNCHANGED input
      /\ IF ~AllAccepted(AnswersWith(m, new, FALSE))
           THEN UNCHANGED <<storeVars, authority>>
           ELSE IF requests[m.batch].hook = "task:complete"
             THEN MutateTransition(t, RefOf(m.row), "done") /\ Revokes(t)
             ELSE /\ Requeue(t, RefOf(m.row), FALSE, FALSE)
                  /\ Grants(t, m.batch, "ready", NoRun)

MayDecide(d) == Has(d) /\ Fresh(d)

Approve(u) ==
  /\ MayDecide(u)
  /\ Grant(mind[u], "approved")
  /\ timers' = timers \ {<<mind[u].batch, mind[u].gate>>}
  /\ Forgets(u)
  /\ UNCHANGED <<rejections, world, hostVars, up, bounds>>

MayReject(m) == m.rejections < MaxRevisions

\* Feedback, revision count and requeue together; every timer of the batch ends.
Reject(u) ==
  LET m == mind[u]
  IN  /\ MayDecide(u)
      /\ MayReject(m)
      /\ Answers(m, "rejected", TRUE)
      /\ Requeue(m.task, RefOf(m.row), FALSE, FALSE)
      /\ Revokes(m.task)
      /\ input' = [input EXCEPT ![m.task] = @ + 1]
      /\ rejections' = [rejections EXCEPT ![m.task] = @ + 1]
      /\ timers' = timers \ ({m.batch} \X Timed)
      /\ Forgets(u)
      /\ UNCHANGED <<world, hostVars, up, bounds>>

\* A conflict is reported to the user; a rejection too many changes nothing.
UserGivesUp(u) ==
  /\ Has(u)
  /\ Forgets(u)
  /\ UNCHANGED <<storeVars, approvalVars, input, rejections, world, hostVars, timers, up, bounds>>

timerKept == <<rejections, world, hostVars, up, bounds>>

\* A timer fires and reads; the timer of an obsolete or decided request is dropped.
TimerFires(b, g) ==
  /\ up
  /\ <<b, g>> \in timers /\ mind[<<b, g>>] = NotRead
  /\ IF Open(b, g) THEN Looks(<<b, g>>, b, g) /\ UNCHANGED timers
                   ELSE timers' = timers \ {<<b, g>>} /\ UNCHANGED mind
  /\ UNCHANGED <<storeVars, approvalVars, input, timerKept>>

\* The captured action of the gate; a rejection by timeout cancels the Task.
TimerDecides(d) ==
  LET m == mind[d]
  IN  /\ MayDecide(d)
      /\ IF m.gate \in Lenient
           THEN Grant(m, "timeout")
           ELSE /\ Answers(m, "timeout", TRUE)
                /\ Cancel(m.task, RefOf(m.row)) /\ Revokes(m.task)
                /\ UNCHANGED input
      /\ timers' = timers \ {d}
      /\ Forgets(d)
      /\ UNCHANGED timerKept

\* Mutant: a timer whose decision conflicts is over.
TimerConflicts_Dropped(d) ==
  /\ Has(d) /\ ~Fresh(d)
  /\ timers' = timers \ {d}
  /\ Forgets(d)
  /\ UNCHANGED <<storeVars, approvalVars, input, timerKept>>

\* A conflict is retried while the request is open in the present batch.
TimerConflicts(d) ==
  /\ Has(d) /\ ~Fresh(d)
  /\ timers' = IF Open(mind[d].batch, mind[d].gate) THEN timers ELSE timers \ {d}
  /\ Forgets(d)
  /\ UNCHANGED <<storeVars, approvalVars, input, timerKept>>

-----------------------------------------------------------------------------
(* Users and operators beside the approvals                                *)

\* PATCH /tasks: no condition on the Task's state.
Edit(t) ==
  /\ bounds.edits < MaxEdits
  /\ Exists(t)
  /\ input' = [input EXCEPT ![t] = @ + 1]
  /\ bounds' = [bounds EXCEPT !.edits = @ + 1]
  /\ UNCHANGED <<storeVars, approvalVars, rejections, world, hostVars, timers, mind, up>>

Reload ==
  /\ world < MaxReloads
  /\ world' = world + 1
  /\ UNCHANGED <<storeVars, approvalVars, input, rejections, hostVars, timers, mind, up, bounds>>

Kill(t) ==
  /\ tasks[t].status \notin TerminalStatus
  /\ Cancel(t, RefOf(tasks[t]))
  /\ Revokes(t)
  /\ UNCHANGED <<requests, input, hostVars, timers, decisionsKept>>

\* The host dies with its timers, its decisions under way and its dispatches;
\* the recovery requeues what was claimed and not started.
Crash ==
  /\ up /\ bounds.crashes < MaxCrashes
  /\ bounds' = [bounds EXCEPT !.crashes = @ + 1]
  /\ up' = FALSE
  /\ timers' = {}
  /\ mind' = [d \in Users \cup Timers |-> NotRead]
  /\ UNCHANGED <<storeVars, approvalVars, input, rejections, world, hostVars>>

\* init: a timer for every pending request.
Restart ==
  /\ ~up /\ up' = TRUE
  /\ timers' = {d \in Timers : LET answer == requests[d[1]].answer
                                IN  d[2] \in DOMAIN answer /\ answer[d[2]] = "pending"}
  /\ UNCHANGED <<storeVars, approvalVars, input, rejections, world, hostVars, mind, bounds>>

\* Mutant: the next attempt inherits the consent given to the one that is recovered.
Recover_KeepsConsent(t) ==
  LET r == tasks[t].active
  IN  /\ up /\ bounds.crashes > 0
      /\ tasks[t].status = "in_progress" /\ dispatch[r].pc \in {"checking", "started"}
      /\ Requeue(t, RefOf(tasks[t]), FALSE, TRUE)
      /\ IF authority[t].batch # NoBatch
           THEN Grants(t, authority[t].batch, "ready", NoRun) ELSE Revokes(t)
      /\ Dispatches(r, "over")
      /\ UNCHANGED <<requests, input, consent, timers, decisionsKept>>

\* Orphan recovery of an attempt whose host died.
Recover(t) ==
  LET r == tasks[t].active
  IN  /\ up /\ bounds.crashes > 0
      /\ tasks[t].status = "in_progress" /\ dispatch[r].pc \in {"checking", "started"}
      /\ Requeue(t, RefOf(tasks[t]), FALSE, TRUE)
      /\ Revokes(t)
      /\ Dispatches(r, "over")
      /\ UNCHANGED <<requests, input, consent, timers, decisionsKept>>

-----------------------------------------------------------------------------

Timer(d) == TimerFires(d[1], d[2]) \/ TimerDecides(d) \/ TimerConflicts(d)

Host ==
  \/ \E t \in Tasks, r \in Runs : ClaimTask(t, r)
  \/ \E r \in Runs : CheckSpawn(r) \/ SpawnConflict(r) \/ SpawnAbandoned(r)
  \/ \E r \in Runs, o \in {"completed", "failed"} : RunEnds(r, o)
  \/ \E t \in Tasks : Collect(t) \/ CheckComplete(t) \/ Recover(t)
  \/ \E d \in Timers : Timer(d)
  \/ Crash \/ Restart \/ Reload

People ==
  \/ \E u \in Users : Approve(u) \/ Reject(u) \/ UserGivesUp(u)
  \/ \E u \in Users, b \in Batches, g \in Gates : UserLooks(u, b, g)
  \/ \E t \in Tasks : Edit(t) \/ Kill(t)

Next == Host \/ People

Spec == Init /\ [][Next]_vars

\* Timers run and a host that died is restarted; nobody has to decide.
FairSpec == Spec /\ WF_vars(Restart) /\ \A d \in Timers : WF_vars(Timer(d))

-----------------------------------------------------------------------------

TypeOK ==
  /\ StoreTypeOK
  /\ \A t \in Tasks : /\ authority[t].batch \in Batches \cup {NoBatch}
                      /\ authority[t].phase \in Phase \cup {"none"}
                      /\ authority[t].run \in Runs \cup {NoRun}
                      /\ rejections[t] \in 0..MaxRevisions
                      /\ input[t] \in 0..MaxEdits + rejections[t]
  /\ \A b \in Batches : Range(requests[b].answer) \subseteq Answer
  /\ timers \subseteq Timers

\* Consent is for one piece of work: a Run only starts on a batch in which every
\* gate accepted exactly the input, the agent and the gates it runs with, and no
\* batch starts two Runs.
ConsentIsForThisRun ==
  \A r \in Runs : SpawnGates # {} /\ consent[r] # NoConsent =>
    LET b == consent[r].batch
    IN  /\ requests[b].hook = "task:spawn" /\ requests[b].task = runs[r].task
        /\ requests[b].input = consent[r].input /\ requests[b].world = consent[r].world
        /\ AllAccepted(requests[b].answer)
        /\ \A q \in Runs \ {r} : consent[q].batch # b

\* A Task is only completed by a batch in which every gate accepted the content
\* it has at that moment: an edit between the last approval's reads and its
\* commit does not slip through.
DoneIsApproved ==
  [][\A t \in Tasks : tasks[t].status # "done" /\ tasks'[t].status = "done" /\ CompleteGates # {} =>
       \E b \in Batches : /\ requests[b].hook = "task:complete" /\ requests[b].task = t
                          /\ requests[b].input = input[t]
                          /\ AllAccepted(requests'[b].answer)]_vars

\* A Task that waits, and is still what its gates were asked about, can be
\* answered: it has an open request that a decider who looks now may decide, and
\* none of the answers given so far stands in the way of the others. Two approvals
\* that each saw the other missing, or a rejection beside an approval, would leave
\* it in a batch nobody can end. Of a Task edited while it waits this is not true:
\* every answer conflicts, and it waits until a person takes it out (Kill).
WaitingIsAnswerable ==
  \A t \in Tasks : tasks[t].status = "awaiting_approval" =>
    LET b == authority[t].batch
        answers == requests[b].answer
    IN  /\ SameInput(t) => \E g \in DOMAIN answers : Open(b, g)
        /\ \A g \in DOMAIN answers : answers[g] = "pending" \/ Accepted(g, answers[g])

\* What every state satisfies: well-typed requests and programs, and nobody
\* waits in vain for an answer about a Task that was not edited.
ApprovalsInv == TypeOK /\ WaitingIsAnswerable

\* A batch whose open requests all have a timeout ends, across crashes and
\* conflicting decisions, unless the Task is edited meanwhile.
AllTimed(b) == \A g \in DOMAIN requests[b].answer : requests[b].answer[g] = "pending" => g \in Timed

TimeoutsDecide == \A b \in Batches : Waits(b) /\ AllTimed(b) ~> ~Waits(b)
=============================================================================
