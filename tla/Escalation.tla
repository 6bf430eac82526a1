------------------------------ MODULE Escalation ------------------------------
(***************************************************************************)
(* What happens to a Task whose retries are spent: the levels of the       *)
(* escalation policy, their timeouts and the people they end with          *)
(* (packages/core/src/escalation-manager.ts, reached through the task:fail *)
(* hook of retryOrFail in assessment-orchestrator.ts).                     *)
(*                                                                         *)
(* Everything the manager knows - the level of each Task, the timers, the  *)
(* calls of escalate under way - lives in the host's process.  Each wait   *)
(* of escalate (the store, a model) ends a step: users, the SLA monitor,   *)
(* a reassessment and the timer of the same Task act in between.           *)
(***************************************************************************)
EXTENDS TaskMonitors, Sequences

CONSTANTS
  Policies,      \* escalation policies to start with: levels in order
  MaxCalls,      \* bound: calls of escalate at a time
  MaxPeople,     \* bound: decisions of users
  MaxCrashes     \* bound: crashes of the host

Level == [handler : {"agent", "orchestrator", "human"}, timed : BOOLEAN]

ASSUME EscalationAssumption ==
  /\ \A p \in Policies : p \in Seq(Level) /\ p # <<>>
  /\ MaxCalls \in Nat /\ MaxPeople \in Nat /\ MaxCrashes \in Nat

VARIABLES
  sla,       \* the SLA monitor of the host
  policy,    \* settings.escalationPolicy
  level,     \* taskLevels: the level a Task was escalated to, 0 if none
  timer,     \* the timeout of a level, with the reference the level published
  call,      \* calls of escalate and advanceLevel under way
  loop,      \* the supervisor: the result it handles and how far it is
  up,        \* the host runs
  held,      \* history: Tasks whose last word was a person's
  people,    \* decisions of users so far
  crashes    \* crashes so far

monitorVars == <<sla, reassess>>
managerVars == <<level, timer, call>>
worldVars == <<policy, up, held, people, crashes>>
vars == <<storeVars, monitorVars, managerVars, loop, worldVars>>

Calls == 1..MaxCalls
Reference == [revision : 0..MaxRevision, runId : Runs \cup {NoRun}]
NoTimer == [ref |-> [revision |-> 0, runId |-> NoRun], level |-> 0]
NoCall == [pc |-> "none", task |-> NoTask, ref |-> NoTimer.ref, level |-> 0,
           hook |-> FALSE, nested |-> FALSE]
Idle == [pc |-> "idle", run |-> NoRun]

Init ==
  /\ tasks = [t \in Tasks |-> [AbsentTask EXCEPT !.status = "pending"]]
  /\ runs = [r \in Runs |-> AbsentRun]
  /\ sla = NoMonitor
  /\ ReassessInit
  /\ policy \in Policies
  /\ level = [t \in Tasks |-> 0]
  /\ timer = [t \in Tasks |-> NoTimer]
  /\ call = [c \in Calls |-> NoCall]
  /\ loop = Idle
  /\ up = TRUE
  /\ held = [t \in Tasks |-> FALSE]
  /\ people = 0 /\ crashes = 0

-----------------------------------------------------------------------------
(* The supervisor, reduced to the dispatch and the result that fails after *)
(* the last retry (Supervisor and Assessment have the rest).               *)

\* A fresh identity (nanoid): which of the unused ones it is makes no difference.
Fresh == {r \in Runs : runs[r].status = "absent"}

ClaimTask(t) ==
  /\ up /\ loop = Idle /\ Fresh # {}
  /\ Claim(t, RefOf(tasks[t]), CHOOSE r \in Fresh : TRUE)
  /\ UNCHANGED <<monitorVars, managerVars, loop, worldVars>>

\* The agent works in a process of its own.
RunEnds(r, outcome) ==
  /\ runs[r].status = "running"
  /\ CompleteRun(r, outcome)
  /\ UNCHANGED <<monitorVars, managerVars, loop, worldVars>>

RunRef(r) == [revision |-> runs[r].revision, runId |-> r]
TaskOf(r) == runs[r].task

Collect(r) ==
  /\ up /\ loop = Idle
  /\ runs[r].status \in RunOutcome /\ ~runs[r].collected
  /\ IF Current(TaskOf(r), RunRef(r)) /\ tasks[TaskOf(r)].status \notin TerminalStatus
       THEN /\ IF tasks[TaskOf(r)].status = "in_progress"
                 THEN SetTaskStatus(TaskOf(r), "review") ELSE UNCHANGED tasks
            /\ loop' = [pc |-> "judge", run |-> r]
       ELSE loop' = [pc |-> "ack", run |-> r] /\ UNCHANGED tasks
  /\ UNCHANGED <<runs, monitorVars, managerVars, worldVars>>

Free == {c \in Calls : call[c] = NoCall}
Begin(record) ==
  /\ Free # {}
  /\ call' = [call EXCEPT ![CHOOSE c \in Free : \A d \in Free : c <= d] = record]

\* getStartLevel: the first level that is not another agent, or the last one.
StartLevel ==
  LET own == {l \in DOMAIN policy : policy[l].handler # "agent"}
  IN  IF own = {} THEN Len(policy) ELSE CHOOSE l \in own : \A k \in own : l <= k

LevelFor(t) == IF level[t] = 0 THEN StartLevel ELSE level[t]

JudgeAccepts ==
  LET r == loop.run
  IN  /\ loop.pc = "judge"
      /\ runs[r].status = "completed"
      /\ IF CanMoveTo(TaskOf(r), RunRef(r), "done")
           THEN MutateTransition(TaskOf(r), RunRef(r), "done") ELSE UNCHANGED storeVars
      /\ loop' = IF Current(TaskOf(r), RunRef(r)) /\ ~CanMoveTo(TaskOf(r), RunRef(r), "done")
                   THEN Idle                      \* refused: the tick ends in an error
                   ELSE [loop EXCEPT !.pc = "ack"]
      /\ sla' = IF tasks' # tasks THEN SlaForgets(sla, TaskOf(r)) ELSE sla
      /\ UNCHANGED <<reassess, managerVars, worldVars>>

\* retryOrFail with no retry left: the hook blocks the failure and escalates.
JudgeExhausted ==
  LET r == loop.run
  IN  /\ loop.pc = "judge"
      /\ IF Current(TaskOf(r), RunRef(r))
           THEN /\ Begin([pc |-> "enter", task |-> TaskOf(r), ref |-> RunRef(r),
                          level |-> LevelFor(TaskOf(r)), hook |-> TRUE, nested |-> FALSE])
                /\ loop' = [loop EXCEPT !.pc = "hook"]
           ELSE loop' = [loop EXCEPT !.pc = "ack"] /\ UNCHANGED call
      /\ UNCHANGED <<storeVars, monitorVars, level, timer, worldVars>>

Acknowledge ==
  /\ loop.pc = "ack"
  /\ MarkRunCollected(loop.run)
  /\ loop' = Idle
  /\ UNCHANGED <<monitorVars, managerVars, worldVars>>

-----------------------------------------------------------------------------
(* escalate, advanceLevel, finalFail                                       *)

At(c, pc) == call[c].pc = pc
Owns(c) == Exists(call[c].task) /\ RefOf(tasks[call[c].task]) = call[c].ref

Goes(c, pc) == call' = [call EXCEPT ![c].pc = pc] /\ UNCHANGED loop

\* The hook's handler returns to the assessment, which acknowledges the Run.
Returns(c) ==
  /\ call' = [call EXCEPT ![c] = NoCall]
  /\ loop' = IF call[c].hook THEN [loop EXCEPT !.pc = "ack"] ELSE loop

\* Mutant: the level that was left is found again.
Advanced_SameLevel(record) == [record EXCEPT !.pc = "enter", !.nested = TRUE]

Advanced(record) ==
  IF record.level < Len(policy)
    THEN [record EXCEPT !.pc = "enter", !.level = @ + 1, !.nested = TRUE]
    ELSE [record EXCEPT !.pc = "final"]

Advances(c) == call' = [call EXCEPT ![c] = Advanced(call[c])] /\ UNCHANGED loop

Handler(c) == policy[call[c].level].handler

\* currentAttempt, then the level's handler; an agent that is missing or a
\* model that is not configured passes on to the next level.
Enter(c) ==
  LET t == call[c].task
  IN  /\ At(c, "enter")
      /\ \/ ~Owns(c) /\ Returns(c) /\ UNCHANGED level
         \/ /\ Owns(c)
            /\ level' = [level EXCEPT ![t] = call[c].level]
            /\ Goes(c, "act") \/ (Handler(c) # "human" /\ Advances(c))
      /\ UNCHANGED <<storeVars, timer, monitorVars, worldVars>>

\* escalateToAgent and escalateToOrchestrator queue the Task again.
Reassign(c) ==
  LET t == call[c].task
  IN  /\ At(c, "act") /\ Handler(c) # "human"
      /\ \/ /\ ~CanRequeue(t, call[c].ref, FALSE, FALSE)
            /\ Returns(c) /\ UNCHANGED storeVars
         \/ /\ Requeue(t, call[c].ref, FALSE, FALSE)
            /\ IF policy[call[c].level].timed
                 THEN /\ call' = [call EXCEPT ![c].pc = "arm",
                                    ![c].ref = [revision |-> tasks[t].revision + 1, runId |-> NoRun]]
                      /\ UNCHANGED loop
                 ELSE Returns(c)
      /\ UNCHANGED <<level, timer, monitorVars, worldVars>>

\* The model fails or its answer is too short.
NoReformulation(c) ==
  /\ At(c, "act") /\ Handler(c) = "orchestrator"
  /\ Advances(c)
  /\ UNCHANGED <<storeVars, level, timer, monitorVars, worldVars>>

\* startTimer, after the requeue returned.
Arm(c) ==
  /\ At(c, "arm")
  /\ timer' = [timer EXCEPT ![call[c].task] = [ref |-> call[c].ref, level |-> call[c].level]]
  /\ Returns(c)
  /\ UNCHANGED <<storeVars, level, monitorVars, worldVars>>

\* escalateToHuman.  A refused transition is final for advanceLevel, and only
\* logged by the hook.
AskHuman(c) ==
  LET t == call[c].task
  IN  /\ At(c, "act") /\ Handler(c) = "human"
      /\ \/ /\ MutateTransition(t, call[c].ref, "awaiting_approval")
            /\ held' = [held EXCEPT ![t] = TRUE]
            /\ Returns(c)
         \/ /\ ~CanMoveTo(t, call[c].ref, "awaiting_approval")
            /\ IF Owns(c) /\ call[c].nested THEN Goes(c, "final") ELSE Returns(c)
            /\ UNCHANGED <<storeVars, held>>
      /\ UNCHANGED <<level, timer, monitorVars, policy, up, people, crashes>>

\* Mutant: a result in review counts as settled.
Settled_Review(row) == row.status \in TerminalStatus \cup {"awaiting_approval", "review"}

Settled(row) == row.status \in TerminalStatus \cup {"awaiting_approval"}

\* finalFail: read, forget the Task, then cancel what is not settled.
FinalRead(c) ==
  LET t == call[c].task
  IN  /\ At(c, "final")
      /\ IF Owns(c)
           THEN /\ level' = [level EXCEPT ![t] = 0]
                /\ timer' = [timer EXCEPT ![t] = NoTimer]
                /\ IF Settled(tasks[t]) THEN Returns(c) ELSE Goes(c, "cancel")
           ELSE Returns(c) /\ UNCHANGED <<level, timer>>
      /\ UNCHANGED <<storeVars, monitorVars, worldVars>>

FinalCancel(c) ==
  /\ At(c, "cancel")
  /\ IF Current(call[c].task, call[c].ref)
       THEN Cancel(call[c].task, call[c].ref) ELSE UNCHANGED storeVars
  /\ Returns(c)
  /\ UNCHANGED <<level, timer, monitorVars, worldVars>>

-----------------------------------------------------------------------------
(* The timeout of a level                                                  *)

TimerFires(t) ==
  /\ timer[t] # NoTimer
  /\ timer' = [timer EXCEPT ![t] = NoTimer]
  /\ Begin([pc |-> "wake", task |-> t, ref |-> timer[t].ref, level |-> timer[t].level,
            hook |-> FALSE, nested |-> FALSE])
  /\ UNCHANGED <<storeVars, monitorVars, level, loop, worldVars>>

\* Mutant: any next generation counts as the claim of the one published.
Follows_AnyNext(row, ref) ==
  RefOf(row) = ref \/ row.revision = ref.revision + 1

\* currentAttempt with allowClaim: the generation published, or its claim.
Follows(row, ref) ==
  RefOf(row) = ref \/ (row.revision = ref.revision + 1 /\ row.active # NoRun)

\* Mutant: a timeout is only for Tasks nobody has claimed.
Unfinished_Queued(row) == row.status \in {"pending", "failed"}

Unfinished(row) == row.status \in {"pending", "in_progress", "failed"}

Wake(c) ==
  LET row == tasks[call[c].task]
  IN  /\ At(c, "wake")
      /\ IF Exists(call[c].task) /\ Follows(row, call[c].ref) /\ Unfinished(row)
           THEN /\ call' = [call EXCEPT ![c] = Advanced([call[c] EXCEPT !.ref = RefOf(row)])]
                /\ UNCHANGED loop
           ELSE Returns(c)
      /\ UNCHANGED <<storeVars, level, timer, monitorVars, worldVars>>

-----------------------------------------------------------------------------
(* People, monitors, the host                                              *)

Decides(t, kept) ==
  /\ up /\ people < MaxPeople
  /\ people' = people + 1
  /\ held' = [held EXCEPT ![t] = kept]
  /\ UNCHANGED <<monitorVars, managerVars, loop, policy, up, crashes>>

Kill(t) ==
  /\ Cancel(t, RefOf(tasks[t]))
  /\ tasks' # tasks
  /\ Decides(t, TRUE)

RetryTask(t) ==
  /\ tasks[t].status = "failed"
  /\ Transition(t, tasks[t], "pending")
  /\ Decides(t, FALSE)

\* PATCH with a status, the answer to a Task that waits for a person.
Answer(t, new) ==
  /\ tasks[t].status = "awaiting_approval"
  /\ UnsafeSetStatus(t, tasks[t], new)
  /\ Decides(t, new # "pending")

SlaList ==
  /\ sla.todo = {} /\ SlaDue(sla) # {}
  /\ sla' = SlaListed(sla)
  /\ UNCHANGED storeVars

SlaFail(t) ==
  /\ t \in sla.todo
  /\ sla' = SlaTaken(sla, t)
  /\ SlaWrite(t)

\* The check that a tick calls; each of its waits lets the others in.
Monitoring ==
  /\ up
  /\ SlaList \/ \E t \in Tasks : SlaFail(t)
  /\ UNCHANGED <<reassess, managerVars, loop, worldVars>>

\* A reassessment is a person's decision to take a failed Task up again.
Reassessing(q) ==
  /\ up
  /\ Reassessment(q, Tasks)
  /\ held' = [t \in Tasks |-> held[t] /\ tasks'[t] = tasks[t]]
  /\ people' = IF reassess[q].pc = "idle" THEN people + 1 ELSE people
  /\ people' <= MaxPeople
  /\ UNCHANGED <<sla, managerVars, loop, policy, up, crashes>>

Crash ==
  /\ up /\ crashes < MaxCrashes
  /\ up' = FALSE /\ crashes' = crashes + 1
  /\ level' = [t \in Tasks |-> 0]
  /\ timer' = [t \in Tasks |-> NoTimer]
  /\ call' = [c \in Calls |-> NoCall]
  /\ loop' = Idle
  /\ sla' = NoMonitor
  /\ RequestsLost(Reassessors)
  /\ UNCHANGED <<storeVars, policy, held, people>>

Restart ==
  /\ ~up /\ up' = TRUE
  /\ UNCHANGED <<storeVars, monitorVars, managerVars, loop, policy, held, people, crashes>>

-----------------------------------------------------------------------------

CallStep(c) ==
  Enter(c) \/ Reassign(c) \/ NoReformulation(c) \/ Arm(c) \/ AskHuman(c)
    \/ FinalRead(c) \/ FinalCancel(c) \/ Wake(c)

Supervise ==
  \/ \E t \in Tasks : ClaimTask(t)
  \/ \E r \in Runs : Collect(r)
  \/ JudgeAccepts \/ JudgeExhausted \/ Acknowledge

Next ==
  \/ Supervise
  \/ \E r \in Runs, outcome \in {"completed", "failed"} : RunEnds(r, outcome)
  \/ \E c \in Calls : CallStep(c)
  \/ \E t \in Tasks : TimerFires(t) \/ Kill(t) \/ RetryTask(t)
  \/ \E t \in Tasks, new \in {"pending", "done", "failed"} : Answer(t, new)
  \/ Monitoring
  \/ \E q \in Reassessors : Reassessing(q)
  \/ Crash \/ Restart

Spec == Init /\ [][Next]_vars

\* The host is restarted, its loop goes on, the store and the models answer
\* every call and timers fire.  Agents may hang and nobody has to decide.
FairSpec ==
  /\ Spec
  /\ WF_vars(Restart) /\ WF_vars(Supervise)
  /\ \A c \in Calls : WF_vars(CallStep(c))
  /\ \A t \in Tasks : WF_vars(TimerFires(t))

-----------------------------------------------------------------------------

MonitorsTypeOK == sla \in Monitor /\ reassess \in [Reassessors -> Request]

TypeOK ==
  /\ StoreTypeOK
  /\ MonitorsTypeOK
  /\ policy \in Policies
  /\ level \in [Tasks -> 0..Len(policy)]
  /\ timer \in [Tasks -> [ref : Reference, level : 0..Len(policy)]]
  /\ call \in [Calls -> [pc : {"none", "enter", "act", "arm", "final", "cancel", "wake"},
                         task : Tasks \cup {NoTask}, ref : Reference, level : 0..Len(policy),
                         hook : BOOLEAN, nested : BOOLEAN]]
  /\ loop \in [pc : {"idle", "judge", "hook", "ack"}, run : Runs \cup {NoRun}]
  /\ up \in BOOLEAN
  /\ held \in [Tasks -> BOOLEAN]
  /\ people \in 0..MaxPeople /\ crashes \in 0..MaxCrashes

\* An acknowledged result is not looked at again, so its Task has been decided:
\* requeued, handed to a person, or failed for good.
HandledIsDecided ==
  \A t \in Tasks :
    tasks[t].active # NoRun /\ runs[tasks[t].active].collected
      => tasks[t].status \in TerminalStatus

\* What every state satisfies: well-typed levels, timers and calls, and no Task
\* stranded by an escalation that the supervisor believes to be over.
EscalationInv == TypeOK /\ HandledIsDecided

\* Whatever a call of escalate learned before it waited - for the store, for a
\* model, for its timeout - it does not move a Task that a person has killed
\* meanwhile, or that waits for a person.
PeopleDecide ==
  [][\A t \in Tasks : held[t] /\ tasks'[t] # tasks[t] => call' = call]_vars

\* The hook has blocked the failure of the Task, so the escalation must decide
\* it: no result stays in review behind an escalation that conflicted, ran out
\* of levels or died with the host.
UnderReview(r) ==
  /\ runs[r].status \in {"completed", "failed"}
  /\ tasks[TaskOf(r)].active = r
  /\ tasks[TaskOf(r)].status \in {"in_progress", "review"}

ResultsAreDecided == \A r \in Runs : UnderReview(r) ~> ~UnderReview(r)

\* An agent that hangs on a Task queued by a timed level is stopped, unless the
\* host dies with the timer.
Watched(r) ==
  LET t == TaskOf(r)
  IN  /\ runs[r].status = "running" /\ tasks[t].status = "in_progress"
      /\ timer[t] # NoTimer /\ timer[t].ref = [revision |-> runs[r].revision - 1, runId |-> NoRun]

HangIsCutShort ==
  \A r \in Runs :
    Watched(r) ~> \/ runs[r].status # "running" \/ ~up
                  \/ tasks[TaskOf(r)].status # "in_progress"
=============================================================================
