---------------------------- MODULE MissionsProofs ----------------------------
(***************************************************************************)
(* What executions of a Mission preserve, for every plan, every number of  *)
(* calls, Tasks, requests of people and crashes.  The invariants come in   *)
(* layers: types, admission, the age of the tick's listing, the two        *)
(* invariants of settlement and cancellation, and the gates.               *)
(***************************************************************************)
EXTENDS Missions, FiniteSetTheorems, TLAPS

Gate == {"none", "active", "lifted"}
Gating == [defined : SUBSET Calls, gate : [Calls -> Gate]]
Cleaning == {"cleanup", "finalizing", "forgetting", "forgotten"}
Settling == {"finalizing", "forgetting", "forgotten"}
Pausing == {"pausing", "paused"}
PCs == Cleaning \cup Pausing \cup {"idle", "down", "scan", "failing", "dispatch"}
Places == {<< >>} \cup Tasks \cup {<<e>> : e \in Calls}
Tick == [pc : PCs, snap : [Tasks -> TaskRow], todo : SUBSET (Tasks \cup Calls),
         ready : SUBSET Tasks, at : Places, next : Gating]
Resumption == [pc : {"idle", "retrying", "over"}, failed : BOOLEAN, todo : SUBSET Tasks, waiting : SUBSET Calls]
CallRecord == [pc : {"idle", "planned", "admitted", "over"},
               expected : [status : MissionStatus, executionCount : 0..MaxCalls]]

Shapes ==
  /\ StoreTypeOK
  /\ plan \in Plan
  /\ mission \in [status : MissionStatus, executionCount : 0..MaxCalls]
  /\ receipts \in [Calls -> [sequence : 0..MaxCalls, origin : Executable]]
  /\ call \in [Calls -> CallRecord]
  /\ prepared \subseteq Calls /\ cleaned \subseteq Calls
  /\ gating \in Gating
  /\ saved \in [Calls -> Gate]
  /\ tick \in Tick
  /\ unpause \in [Calls -> {"idle", "reading", "writing"}]
  /\ resumption \in Resumption

\* What the tick is busy with, by the step it is at.
TickShape ==
  /\ tick.pc \in Pausing \cup {"scan"} =>
       tick.todo \subseteq Tasks /\ \A t \in tick.todo : tick.snap[t].status = "pending"
  /\ At("failing") => tick.todo \subseteq Tasks
  /\ tick.pc \in Cleaning => tick.todo \subseteq Admitted
  /\ tick.pc \in Settling => \E e \in Admitted : tick.at = <<e>>
  /\ tick.pc \in Pausing => tick.at \in Tasks /\ tick.snap[tick.at].status = "pending"
  /\ tick.pc \in Pausing => plan.gate = "checkpoint"
  /\ \A t \in tick.ready : tick.snap[t].status = "pending"
  /\ tick.pc \in Cleaning \cup {"idle", "down"} => tick.ready = {}

\* Everything names executions that were admitted.
Rooted ==
  /\ prepared \subseteq Admitted /\ cleaned \subseteq Admitted
  /\ gating.defined \subseteq Admitted /\ tick.next.defined \subseteq Admitted
  /\ abort.pc = "captured" => \E e \in Admitted : abort.execution = <<e>>
  /\ \A t \in resumption.todo : t[1] \in Admitted
  /\ resumption.waiting \subseteq Admitted
  /\ \A q \in Calls : call[q].pc = "admitted" => q \in Admitted

\* Without a gate there is nothing to reach or to release.
Ungated ==
  /\ plan.gate = "none" => gating.gate = NoGates /\ saved = NoGates /\ tick.next.gate = NoGates
  /\ plan.gate # "checkpoint" => \A e \in Calls : unpause[e] = "idle"

\* A call that is not admitted has left nothing behind; sequence numbers are given in order.
Admission ==
  /\ AdmittedOnce
  /\ \A e \in Admitted : receipts[e].sequence <= mission.executionCount
  /\ \A q \in Calls : call[q].pc \in {"idle", "planned"} => q \notin Admitted
  /\ \A q \in Calls : call[q].pc = "planned" => call[q].expected.status \in Executable
  /\ \A t \in Tasks : t[1] \notin Admitted => tasks[t] = AbsentTask
  /\ \A t \in Tasks : tick.snap[t].status # "absent" => t[1] \in Admitted

\* What the tick has listed is a past of the rows, and a row that is still in the
\* listed generation is still queued if it was.
SnapAge ==
  \A t \in Tasks :
    /\ tick.snap[t].revision <= tasks[t].revision
    /\ tick.snap[t].status = "done" => tasks[t].status = "done"
    /\ tick.snap[t].status = "pending" /\ tick.snap[t].revision = tasks[t].revision
         => tasks[t].status = "pending"

\* The Tasks a tick has selected, or may still select without asking for the
\* Mission again, have left the listed generation when the Mission is cancelled.
Selected == tick.ready \cup (IF tick.pc \in Pausing THEN {tick.at} ELSE {})
Outdated ==
  mission.status = "cancelled" =>
    \A t \in Selected : IsCurrent(t[1]) => tick.snap[t].revision < tasks[t].revision

TypedInv == Shapes /\ TickShape /\ Rooted /\ Ungated
IInv == TypedInv /\ Admission /\ SnapAge /\ CompletedMeansDone /\ CancelledIsIdle /\ Outdated

\* The gates are in the engine's state whenever the engine believes so.
GateInv ==
  /\ \A e \in prepared : e \in gating.defined \/ (At("forgotten") /\ tick.at = <<e>>)
  /\ tick.pc \in Pausing => gating.gate[tick.at[1]] # "none"
  /\ At("failing") => \A e \in Calls : gating.gate[e] # "active"
  /\ plan.gate # "none" => \A t \in tick.ready : t[2] \in Blocks => gating.gate[t[1]] = "lifted"

-----------------------------------------------------------------------------
(* Tuples and updates.                                                     *)

\* A Task is an execution and a title of the plan.
LEMMA TaskParts ==
  /\ \A t \in Tasks : t[1] \in Calls /\ t[2] \in Titles /\ t \in Of(t[1])
  /\ \A e \in Calls : Of(e) \subseteq Tasks /\ \A t \in Of(e) : t[1] = e
BY MissionsAssumption DEF Of

\* The values that stand for nothing have their types.
LEMMA AbsentIsRow == AbsentTask \in TaskRow /\ NoSnap \in [Tasks -> TaskRow] /\ NoGating \in Gating
BY MaxRevisionAssumption DEF AbsentTask, TaskRow, Missing, NoSnap, NoGating, NoGates, Gating, Gate

\* How the rows of Tasks age in every step.
RowsAge ==
  \A t \in Tasks :
    t[1] \in Admitted =>
    /\ tasks'[t].revision >= tasks[t].revision
    /\ tasks[t].status = "done" => tasks'[t].status = "done"
    /\ tasks[t].status = "pending" /\ tasks'[t].revision = tasks[t].revision => tasks'[t].status = "pending"

\* The store's operations on one Task.
OneTask(t) ==
  /\ tasks'[t] \in TaskRow
  /\ tasks' = [tasks EXCEPT ![t] = tasks'[t]]
  /\ runs' \in [Runs -> RunRow]
  /\ Exists(t)
  /\ tasks'[t].revision >= tasks[t].revision
  /\ tasks[t].status = "done" => tasks'[t].status = "done"
  /\ tasks[t].status = "pending" => tasks'[t].revision > tasks[t].revision

\* Killing the active Run keeps the type of the Runs.
LEMMA KillKeepsRuns ==
  ASSUME StoreTypeOK, NEW t \in Tasks, KillActiveRun(t)
  PROVE  runs' \in [Runs -> RunRow]
BY DEF KillActiveRun, StoreTypeOK, RunRow, RunOutcome, TaskRow, LiveRun

\* Ending an attempt, and with it cancelling, claiming and retrying, writes one row and ages it.
LEMMA EndIsOneTask ==
  ASSUME StoreTypeOK, NEW t \in Tasks, NEW status \in TaskStatus, NEW retries \in Nat,
         EndAttempt(t, status, retries), Exists(t), tasks[t].status = "done" => status = "done"
  PROVE  OneTask(t) /\ tasks'[t].status = status
<1>1. /\ tasks' = [tasks EXCEPT ![t] = [status |-> status, revision |-> tasks[t].revision + 1,
                                       active |-> NoRun, retries |-> retries]]
      /\ tasks[t].revision < MaxRevision
  BY DEF EndAttempt, ReleaseTask, RevisionLeft
<1>2. tasks[t].revision \in 0..MaxRevision /\ tasks[t].revision + 1 \in 0..MaxRevision
  BY <1>1, MaxRevisionAssumption DEF StoreTypeOK, TaskRow
<1>3. tasks'[t] = [status |-> status, revision |-> tasks[t].revision + 1, active |-> NoRun, retries |-> retries]
  BY <1>1 DEF StoreTypeOK
<1>4. runs' \in [Runs -> RunRow]
  BY KillKeepsRuns DEF EndAttempt
<1>5. tasks' = [tasks EXCEPT ![t] = tasks'[t]]
  BY <1>1, <1>3
<1>6. tasks'[t] \in TaskRow
  BY <1>2, <1>3 DEF TaskRow
<1>7. /\ tasks'[t].revision > tasks[t].revision /\ tasks'[t].revision >= tasks[t].revision
      /\ tasks'[t].status = status
  BY <1>2, <1>3, MaxRevisionAssumption
<1> QED  BY <1>2, <1>4, <1>5, <1>6, <1>7, MaxRevisionAssumption DEF OneTask

\* forceFailCapturedTask: nothing, or one row that keeps its status or fails.
LEMMA CancelIsOneTask ==
  ASSUME StoreTypeOK, NEW t \in Tasks, NEW ref, Cancel(t, ref)
  PROVE  UNCHANGED storeVars \/ (OneTask(t) /\ tasks'[t].status \in {tasks[t].status, "failed"})
<1>1. tasks[t].status \in TaskStatus /\ tasks[t].retries \in Nat /\ Exists(t)
  BY DEF Cancel, Current, Exists, StoreTypeOK, TaskRow
<1>2. CASE EndAttempt(t, tasks[t].status, tasks[t].retries)
  BY <1>1, <1>2, EndIsOneTask
<1>3. CASE tasks[t].status \notin TerminalStatus /\ EndAttempt(t, "failed", tasks[t].retries)
  <2>1. "failed" \in TaskStatus /\ tasks[t].status # "done"
    BY <1>3 DEF TaskStatus, TerminalStatus
  <2> QED  BY <1>1, <1>3, <2>1, EndIsOneTask
<1> QED  BY <1>2, <1>3 DEF Cancel

\* A claim starts work on one row, in the generation that its reference names.
LEMMA ClaimIsOneTask ==
  ASSUME StoreTypeOK, NEW t \in Tasks, NEW ref, NEW r \in Runs, Claim(t, ref, r)
  PROVE  OneTask(t) /\ tasks'[t].status = "in_progress" /\ RefOf(tasks[t]) = ref
<1>1. tasks[t] \in TaskRow /\ tasks[t].revision < MaxRevision /\ tasks[t].status = "pending" /\ Exists(t)
      /\ RefOf(tasks[t]) = ref
  BY DEF Claim, CanClaim, Current, RevisionLeft, StoreTypeOK
<1>2. tasks' = [tasks EXCEPT ![t] = [@ EXCEPT !.status = "in_progress", !.revision = tasks[t].revision + 1,
                                             !.active = r]]
  BY DEF Claim, StoreTypeOK, TaskRow
<1>3. tasks[t].revision + 1 \in 0..MaxRevision
  BY <1>1, MaxRevisionAssumption DEF TaskRow
<1>4. /\ tasks'[t] \in TaskRow /\ tasks'[t].status = "in_progress"
      /\ tasks'[t].revision = tasks[t].revision + 1
  BY <1>1, <1>2, <1>3 DEF StoreTypeOK, TaskRow, TaskStatus
<1>5. runs' \in [Runs -> RunRow]
  <2>1. runs' = [runs EXCEPT ![r] = [status |-> "running", task |-> t, revision |-> tasks[t].revision + 1,
                                    collected |-> FALSE]]
    BY DEF Claim
  <2> QED  BY <1>3, <2>1 DEF StoreTypeOK, RunRow
<1>6. tasks' = [tasks EXCEPT ![t] = tasks'[t]]
  BY <1>2, <1>4 DEF StoreTypeOK
<1> QED  BY <1>1, <1>4, <1>5, <1>6 DEF OneTask, TaskRow

\* A retry of a failed Task, with the row that was just read.
LEMMA RetryIsOneTask ==
  ASSUME StoreTypeOK, NEW t \in Tasks, tasks[t].status = "failed", Transition(t, tasks[t], "pending")
  PROVE  OneTask(t) /\ tasks'[t].status = "pending"
<1>1. tasks[t] \in TaskRow /\ Exists(t)
  BY DEF StoreTypeOK, Exists, Missing
<1>2. PICK retries \in Nat : EndAttempt(t, "pending", retries)
                              \/ (RevisionLeft(t) /\ ReleaseTask(t, "pending", retries) /\ UNCHANGED runs)
  BY <1>1 DEF Transition, MutateTransition, ReleasingStatus, RetriesAfter, TaskRow
<1>3. tasks' = [tasks EXCEPT ![t] = [status |-> "pending", revision |-> tasks[t].revision + 1,
                                     active |-> NoRun, retries |-> retries]]
      /\ tasks[t].revision < MaxRevision
  BY <1>2 DEF EndAttempt, RevisionLeft, ReleaseTask
<1>4. tasks'[t].status = "pending"
  BY <1>3 DEF StoreTypeOK
<1>5. CASE EndAttempt(t, "pending", retries)
  <2>1. "pending" \in TaskStatus
    BY DEF TaskStatus
  <2> QED  BY <1>1, <1>4, <1>5, <2>1, EndIsOneTask
<1>6. CASE UNCHANGED runs
  <2>1. tasks[t].revision + 1 \in 0..MaxRevision
    BY <1>1, <1>3, MaxRevisionAssumption DEF TaskRow
  <2>2. tasks'[t] = [status |-> "pending", revision |-> tasks[t].revision + 1, active |-> NoRun, retries |-> retries]
    BY <1>3 DEF StoreTypeOK
  <2>3. tasks'[t] \in TaskRow
    BY <2>1, <2>2 DEF TaskRow, TaskStatus
  <2> QED  BY <1>1, <1>3, <1>4, <1>6, <2>1, <2>2, <2>3 DEF OneTask, StoreTypeOK, TaskRow
<1> QED  BY <1>2, <1>5, <1>6

\* Such a write keeps the types and every other row.
LEMMA OneTaskTypes ==
  ASSUME StoreTypeOK, NEW t \in Tasks, OneTask(t)
  PROVE  StoreTypeOK' /\ \A u \in Tasks : u # t => tasks'[u] = tasks[u]
BY DEF OneTask, StoreTypeOK

-----------------------------------------------------------------------------
(* Types.                                                                  *)

\* What is left of the tick once t is judged.
LEMMA JudgedTick ==
  ASSUME tick \in Tick, tick.todo \subseteq Tasks, NEW t \in Tasks, NEW verdict, NEW g, Judged(t, verdict, g)
  PROVE  /\ tick' \in Tick
         /\ tick'.snap = tick.snap /\ tick'.next = tick.next
         /\ tick'.pc \in {"scan", "failing", "dispatch"}
         /\ tick'.pc = "scan" => tick'.todo = tick.todo \ {t}
         /\ tick'.pc = "failing" => /\ tick'.todo = Queued(tick.snap) /\ tick'.ready = {}
                                    /\ \A e \in Calls : g.gate[e] # "active"
         /\ tick'.ready \subseteq tick.ready \cup {t}
         /\ t \in tick'.ready /\ t \notin tick.ready => verdict
<1> DEFINE ready == IF verdict THEN tick.ready \cup {t} ELSE tick.ready
           rest == tick.todo \ {t}
<1>1. ready \subseteq Tasks /\ ready \subseteq tick.ready \cup {t} /\ (t \in ready /\ t \notin tick.ready => verdict)
  BY DEF Tick
<1>2. rest \subseteq Tasks \cup Calls /\ Queued(tick.snap) \subseteq Tasks \cup Calls
  BY DEF Queued
<1>3. << >> \in Places
  BY DEF Places
<1> HIDE DEF ready, rest
<1>4. CASE rest # {}
  <2>1. tick' = [tick EXCEPT !.pc = "scan", !.todo = rest, !.ready = ready, !.at = << >>]
    BY <1>4 DEF Judged, ready, rest
  <2> QED  BY <2>1, <1>1, <1>2, <1>3 DEF Tick, PCs, rest
<1>5. CASE rest = {} /\ Deadlocked(ready, g)
  <2>1. tick' = [tick EXCEPT !.pc = "failing", !.todo = Queued(tick.snap), !.at = << >>]
    BY <1>5 DEF Judged, ready, rest
  <2>2. ready = {} /\ \A e \in Calls : g.gate[e] # "active"
    BY <1>5 DEF Deadlocked
  <2>3. tick.ready = {}
    BY <2>2 DEF ready
  <2> QED  BY <2>1, <2>2, <2>3, <1>2, <1>3 DEF Tick, PCs
<1>6. CASE rest = {} /\ ~Deadlocked(ready, g)
  <2>1. tick' = [tick EXCEPT !.pc = "dispatch", !.todo = {}, !.ready = ready, !.at = << >>]
    BY <1>6 DEF Judged, ready, rest
  <2> QED  BY <2>1, <1>1, <1>3 DEF Tick, PCs
<1> QED  BY <1>4, <1>5, <1>6

\* A step that leaves the rows of the store alone or writes them in one of four ways.
LEMMA StoreStep ==
  ASSUME IInv, Next
  PROVE  \/ UNCHANGED storeVars
         \/ \E t \in Tasks : OneTask(t)
         \/ \E q \in Calls : Commit(q)
         \/ AbortCommits
<1> USE DEF IInv, TypedInv, Shapes
<1>1. ASSUME NEW q \in Calls, Execute(q) \/ Refuse(q) \/ PrepareCall(q) PROVE UNCHANGED storeVars
  BY <1>1 DEF Execute, Refuse, PrepareCall, storeVars
<1>2. ASSUME NEW t \in Tasks, Scan(t) PROVE UNCHANGED storeVars
  BY <1>2 DEF Scan, Scanning
<1>3. ASSUME NEW t \in Tasks, ForceFail(t) PROVE UNCHANGED storeVars \/ OneTask(t)
  BY <1>3, CancelIsOneTask DEF ForceFail
<1>4. ASSUME NEW t \in Tasks, Dispatch(t) PROVE UNCHANGED storeVars \/ OneTask(t)
  <2>1. RunsLeft => NewRun \in Runs
    BY DEF RunsLeft, NewRun
  <2> QED  BY <1>4, <2>1, ClaimIsOneTask DEF Dispatch
<1>5. ASSUME NEW e \in Calls, CleanupSkips(e) \/ CleanupReads(e) \/ Elapse(e) \/ Release(e) \/ UnpauseReads(e)
                             \/ UnpauseWrites(e) \/ AbortCaptures(e)
      PROVE  UNCHANGED storeVars
  BY <1>5 DEF CleanupSkips, CleanupReads, Elapse, Release, UnpauseReads, UnpauseWrites, AbortCaptures, storeVars
<1>6. ASSUME TickLists \/ PauseReads \/ PauseWrites \/ Dispatched \/ Finalize \/ ForgetSaves \/ ForgetAssigns
             \/ TickEnds \/ Restart \/ ResumeCaptures \/ ResumeActivates \/ Crash
      PROVE  UNCHANGED storeVars
  BY <1>6 DEF TickLists, PauseReads, PauseWrites, Dispatched, Finalize, ForgetSaves, ForgetAssigns, TickEnds,
              Restart, ResumeCaptures, ResumeActivates, Crash, storeVars
<1>7. ASSUME NEW t \in Tasks, Work(t) PROVE OneTask(t) \/ UNCHANGED storeVars
  <2>1. PICK outcome \in TerminalStatus : SetTaskStatus(t, outcome)
    BY <1>7 DEF Work
  <2>2. tasks[t].status = "in_progress" /\ tasks' = [tasks EXCEPT ![t] = [@ EXCEPT !.status = outcome]]
    BY <1>7, <2>1 DEF Work, SetTaskStatus
  <2>3. /\ tasks'[t] \in TaskRow /\ tasks'[t] = [tasks[t] EXCEPT !.status = outcome]
    BY <2>2 DEF StoreTypeOK, TaskRow, TaskStatus, TerminalStatus
  <2>4. runs' \in [Runs -> RunRow]
    BY <1>7 DEF Work, StoreTypeOK, RunRow, RunOutcome, TaskRow
  <2>5. tasks' = [tasks EXCEPT ![t] = tasks'[t]]
    BY <2>2, <2>3
  <2>6. tasks'[t].revision >= tasks[t].revision
    BY <2>3, MaxRevisionAssumption DEF StoreTypeOK, TaskRow
  <2> QED  BY <2>2, <2>3, <2>4, <2>5, <2>6 DEF OneTask, Exists, Missing
<1>8. ASSUME NEW t \in Tasks, Retry(t) \/ ResumeRetries(t) PROVE OneTask(t) \/ UNCHANGED storeVars
  BY <1>8, RetryIsOneTask DEF Retry, ResumeRetries
<1> QED  BY <1>1, <1>2, <1>3, <1>4, <1>5, <1>6, <1>7, <1>8 DEF Next, Ticks

\* A cancellation ends the Tasks that had not ended, and starts a new generation.
LEMMA AbortRows ==
  ASSUME IInv, AbortCommits, ~UNCHANGED <<storeVars, mission>>
  PROVE  \E e \in Admitted :
           /\ StoreTypeOK'
           /\ \A t \in Tasks : t \notin Of(e) => tasks'[t] = tasks[t]
           /\ \A t \in Of(e) :
                /\ tasks'[t].status \in TerminalStatus
                /\ tasks[t].status = "done" => tasks'[t].status = "done"
                /\ tasks'[t] = tasks[t] \/ tasks'[t].revision = tasks[t].revision + 1
                /\ tasks[t].status \notin TerminalStatus => tasks'[t].revision = tasks[t].revision + 1
           /\ IF IsCurrent(e) /\ mission.status \in Cancellable
                THEN Marks("cancelled") ELSE UNCHANGED mission
<1> USE DEF IInv, TypedInv, Shapes
<1>1. PICK e \in Admitted : abort.execution = <<e>>
  BY DEF Rooted, AbortCommits
<1>2. e \in Calls
  BY DEF Admitted
<1>3. /\ \A t \in Of(e) : RevisionLeft(t)
      /\ tasks' = [t \in Tasks |-> IF t \in Of(e) THEN Stopped(tasks[t]) ELSE tasks[t]]
      /\ runs' = [r \in Runs |-> IF runs[r].status = "running" /\ \E t \in Of(e) : tasks[t].active = r
                                             /\ tasks'[t].active = NoRun
                                           THEN [runs[r] EXCEPT !.status = "killed"] ELSE runs[r]]
      /\ IF IsCurrent(e) /\ mission.status \in Cancellable THEN Marks("cancelled") ELSE UNCHANGED mission
  BY <1>1 DEF AbortCommits, storeVars
<1>4. ASSUME NEW t \in Of(e)
      PROVE  /\ Stopped(tasks[t]) \in TaskRow
             /\ Stopped(tasks[t]).status \in TerminalStatus
             /\ tasks[t].status = "done" => Stopped(tasks[t]).status = "done"
             /\ Stopped(tasks[t]) = tasks[t] \/ Stopped(tasks[t]).revision = tasks[t].revision + 1
             /\ tasks[t].status \notin TerminalStatus => Stopped(tasks[t]).revision = tasks[t].revision + 1
  <2>1. tasks[t] \in TaskRow /\ tasks[t].revision + 1 \in 0..MaxRevision
    BY <1>2, <1>3, TaskParts, MaxRevisionAssumption DEF RevisionLeft, StoreTypeOK, TaskRow
  <2> QED  BY <2>1 DEF Stopped, TaskRow, TaskStatus, TerminalStatus
<1>5. Of(e) \subseteq Tasks
  BY <1>2, TaskParts
<1>6. tasks' \in [Tasks -> TaskRow]
  BY <1>3, <1>4 DEF StoreTypeOK
<1>7. runs' \in [Runs -> RunRow]
  <2>1. \A r \in Runs : [runs[r] EXCEPT !.status = "killed"] \in RunRow
    BY DEF StoreTypeOK, RunRow, RunOutcome
  <2> QED  BY <1>3, <2>1 DEF StoreTypeOK
<1>8. \A t \in Of(e) : tasks'[t] = Stopped(tasks[t])
  BY <1>3, <1>5
<1>9. \A t \in Tasks : t \notin Of(e) => tasks'[t] = tasks[t]
  BY <1>3
<1>10. StoreTypeOK'
  BY <1>6, <1>7 DEF StoreTypeOK
<1> QED  BY <1>3, <1>4, <1>8, <1>9, <1>10

\* The rows of the store keep their types in every step.
LEMMA StoreTypes == ASSUME IInv, Next PROVE StoreTypeOK'
<1> USE DEF IInv, TypedInv, Shapes
<1>1. CASE UNCHANGED storeVars
  BY <1>1 DEF storeVars, StoreTypeOK
<1>2. ASSUME NEW t \in Tasks, OneTask(t) PROVE StoreTypeOK'
  BY <1>2, OneTaskTypes
<1>3. ASSUME NEW q \in Calls, Commit(q) PROVE StoreTypeOK'
  <2>1. [AbsentTask EXCEPT !.status = "pending"] \in TaskRow
    BY AbsentIsRow DEF TaskRow, TaskStatus
  <2> QED  BY <1>3, <2>1 DEF Commit, StoreTypeOK
<1>4. ASSUME AbortCommits PROVE StoreTypeOK'
  BY <1>1, <1>4, AbortRows
<1> QED  BY <1>1, <1>2, <1>3, <1>4, StoreStep

\* Rows of admitted executions age forwards, in every step.
LEMMA RowsAgeAlways == ASSUME IInv, Next PROVE RowsAge
<1> USE DEF IInv, TypedInv, Shapes
<1>0. \A t \in Tasks : tasks[t].revision \in Nat
  BY MaxRevisionAssumption DEF StoreTypeOK, TaskRow
<1>1. CASE UNCHANGED storeVars
  BY <1>0, <1>1 DEF storeVars, RowsAge
<1>2. ASSUME NEW t \in Tasks, OneTask(t) PROVE RowsAge
  <2>1. tasks'[t].revision \in Nat
    BY <1>2, MaxRevisionAssumption DEF OneTask, TaskRow
  <2> QED  BY <1>0, <1>2, <2>1, OneTaskTypes DEF RowsAge, OneTask
<1>3. ASSUME NEW q \in Calls, Commit(q) PROVE RowsAge
  <2>1. q \notin Admitted
    BY <1>3 DEF Admission, Commit
  <2>2. \A t \in Tasks : t[1] \in Admitted => tasks'[t] = tasks[t]
    BY <1>3, <2>1, TaskParts DEF Commit
  <2> QED  BY <1>0, <2>2 DEF RowsAge
<1>4. ASSUME AbortCommits, ~UNCHANGED storeVars PROVE RowsAge
  <2>1. PICK e \in Admitted :
           /\ \A t \in Tasks : t \notin Of(e) => tasks'[t] = tasks[t]
           /\ \A t \in Of(e) :
                /\ tasks'[t].status \in TerminalStatus
                /\ tasks[t].status = "done" => tasks'[t].status = "done"
                /\ tasks'[t] = tasks[t] \/ tasks'[t].revision = tasks[t].revision + 1
                /\ tasks[t].status \notin TerminalStatus => tasks'[t].revision = tasks[t].revision + 1
    BY <1>4, AbortRows
  <2>2. ASSUME NEW t \in Tasks
        PROVE  /\ tasks'[t].revision >= tasks[t].revision
               /\ tasks[t].status = "done" => tasks'[t].status = "done"
               /\ tasks[t].status = "pending" /\ tasks'[t].revision = tasks[t].revision => tasks'[t].status = "pending"
    BY <1>0, <2>1 DEF TerminalStatus
  <2> QED  BY <2>2 DEF RowsAge
<1> QED  BY <1>1, <1>2, <1>3, <1>4, StoreStep

\* Every part of TypedInv and Admission except the rows of the store.
LEMMA ConstantShapes ==
  /\ Between \in Tick /\ Down \in Tick /\ NoCall \in CallRecord
  /\ \A g \in Gating, E \in SUBSET Calls : [g EXCEPT !.defined = @ \cup E] \in Gating
  /\ \A g \in Gating, e \in Calls : Without(g, e) \in Gating
  /\ \A g \in Gating, e \in Calls, x \in Gate : [g EXCEPT !.gate[e] = x] \in Gating
<1>1. NoSnap \in [Tasks -> TaskRow] /\ NoGating \in Gating
  BY AbsentIsRow
<1>2. Between \in Tick /\ Down \in Tick
  BY <1>1 DEF Between, Down, Tick, PCs, Places
<1>3. NoCall \in CallRecord
  BY MissionsAssumption DEF NoCall, Captured, CallRecord, MissionStatus
<1>4. \A g \in Gating, e \in Calls : Without(g, e) \in Gating
  BY DEF Without, Gating, Gate
<1>5. \A g \in Gating, E \in SUBSET Calls : [g EXCEPT !.defined = @ \cup E] \in Gating
  BY DEF Gating
<1>6. \A g \in Gating, e \in Calls, x \in Gate : [g EXCEPT !.gate[e] = x] \in Gating
  BY DEF Gating
<1> QED  BY <1>2, <1>3, <1>4, <1>5, <1>6

\* Recovering definitions adds those that were not prepared and leaves the gates alone.
LEMMA RecoveredIsGating ==
  ASSUME Shapes, NEW E \in SUBSET Calls
  PROVE  Recovered(E) \in Gating /\ Recovered(E).gate = gating.gate
         /\ Recovered(E).defined = gating.defined \cup (E \ prepared)
BY DEF Shapes, Recovered, Gating

TickUnchanged == UNCHANGED <<receipts, plan, tick>>

\* Admission adds the call to those admitted and counts it.
LEMMA CommitCounts ==
  ASSUME IInv, NEW q \in Calls, Commit(q)
  PROVE  /\ q \notin Admitted /\ Admitted' = Admitted \cup {q}
         /\ IsFiniteSet(Admitted) /\ Cardinality(Admitted') = Cardinality(Admitted) + 1
         /\ mission'.executionCount = mission.executionCount + 1
         /\ mission.executionCount + 1 \in 0..MaxCalls
<1> USE DEF IInv, TypedInv, Shapes
<1>1. Admitted \subseteq Calls /\ q \in Calls \ Admitted
  BY DEF Commit, Admission, Admitted
<1>2. IsFiniteSet(Calls) /\ Cardinality(Calls) = MaxCalls
  BY FS_Interval, MissionsAssumption DEF Calls
<1>3. /\ IsFiniteSet(Admitted) /\ IsFiniteSet(Admitted \cup {q})
      /\ Cardinality(Admitted \cup {q}) = Cardinality(Admitted) + 1
  BY <1>1, <1>2, FS_Subset, FS_AddElement
<1>4. Cardinality(Admitted \cup {q}) <= MaxCalls
  BY <1>1, <1>2, FS_Subset, Admitted \cup {q} \subseteq Calls
<1>5. mission.executionCount + 1 \in 0..MaxCalls
  BY <1>3, <1>4, MissionsAssumption, FS_CardinalityType DEF Admission, AdmittedOnce
<1>6. mission'.executionCount = mission.executionCount + 1
  BY DEF Commit
<1>7. Admitted' = Admitted \cup {q}
  <2>1. receipts'[q].sequence > 0 /\ \A p \in Calls : p # q => receipts'[p] = receipts[p]
    BY <1>5, MissionsAssumption DEF Commit
  <2> QED  BY <1>1, <2>1 DEF Admitted
<1> QED  BY <1>1, <1>3, <1>5, <1>6, <1>7

\* The calls of executeMission.
LEMMA CallShapes ==
  ASSUME IInv, NEW q \in Calls, Execute(q) \/ Commit(q) \/ Refuse(q) \/ PrepareCall(q), StoreTypeOK'
  PROVE  Shapes'
<1> USE DEF IInv, TypedInv, Shapes
<1>1. \A pc \in {"idle", "planned", "admitted", "over"} : [NoCall EXCEPT !.pc = pc] \in CallRecord
  BY ConstantShapes DEF CallRecord
<1>2. CASE Execute(q)
  <2>1. [pc |-> "planned", expected |-> mission] \in CallRecord
    BY DEF CallRecord
  <2>2. call' \in [Calls -> CallRecord]
    BY <1>1, <1>2, <2>1 DEF Execute, CallGoes
  <2> QED  BY <1>2, <2>2 DEF Execute, peopleVars, engineVars, storeVars
<1>3. CASE Commit(q)
  <2>1. mission.executionCount + 1 \in 0..MaxCalls
    BY <1>3, CommitCounts
  <2>2. mission.status \in Executable
    BY <1>3 DEF Commit, CanCommit, Admission
  <2>3. mission' \in [status : MissionStatus, executionCount : 0..MaxCalls]
    BY <1>3, <2>1 DEF Commit, MissionStatus
  <2>4. receipts' \in [Calls -> [sequence : 0..MaxCalls, origin : Executable]]
    BY <1>3, <2>1, <2>2 DEF Commit
  <2> QED  BY <1>1, <1>3, <2>3, <2>4 DEF Commit, CallGoes, peopleVars, engineVars
<1>4. CASE Refuse(q)
  BY <1>1, <1>4 DEF Refuse, CallGoes, peopleVars, engineVars, storeVars
<1>5. CASE PrepareCall(q)
  BY <1>1, <1>5, RecoveredIsGating DEF PrepareCall, Prepares, CallGoes, peopleVars, storeVars
<1> QED  BY <1>2, <1>3, <1>4, <1>5

\* The steps of the tick.
LEMMA TickShapes ==
  ASSUME IInv, Ticks, StoreTypeOK'
  PROVE  Shapes'
<1> USE DEF IInv, TypedInv, Shapes
<1>0. ASSUME NEW e PROVE Passes(e) \in Tick
  <2>1. tick.todo \ {e} \in SUBSET (Tasks \cup Calls) /\ << >> \in Places /\ NoGating \in Gating
    BY AbsentIsRow DEF Tick, Places
  <2> QED  BY <2>1 DEF Passes, Tick, PCs, Cleaning
<1>1. CASE TickLists
  <2>1. Admitted \subseteq Calls /\ Queued(tasks) \subseteq Tasks
    BY DEF Admitted, Queued
  <2>2. \A pc \in {"cleanup", "scan"}, todo \in SUBSET (Tasks \cup Calls) :
          [Between EXCEPT !.pc = pc, !.snap = tasks, !.todo = todo] \in Tick
    BY ConstantShapes DEF Tick, PCs, Cleaning, StoreTypeOK
  <2>3. [Between EXCEPT !.pc = "dispatch"] \in Tick
    BY ConstantShapes DEF Tick, PCs
  <2>4. tick' \in Tick
    BY <1>1, <2>1, <2>2, <2>3 DEF TickLists
  <2> QED  BY <1>1, <2>4 DEF TickLists, peopleVars, engineVars, storeVars
<1>2. ASSUME NEW t \in Tasks, Scan(t) PROVE Shapes'
  <2>1. t[1] \in Calls /\ {t[1]} \in SUBSET Calls
    BY TaskParts
  <2>2. tick.todo \subseteq Tasks
    BY <1>2 DEF Scan, Scanning, TickShape, At
  <2>3. Recovered({t[1]}) \in Gating
    BY <2>1, RecoveredIsGating
  <2>4. \A x \in Gate : [Recovered({t[1]}) EXCEPT !.gate[t[1]] = x] \in Gating
    BY <2>1, <2>3, ConstantShapes
  <2>5. gating' \in Gating /\ saved' \in [Calls -> Gate]
    <3>1. CASE ScanBarred(t) \/ ScanOpen(t)
      BY <2>3, <3>1 DEF ScanBarred, ScanOpen
    <3>2. CASE ScanReaches(t)
      BY <2>4, <3>2 DEF ScanReaches, Gating, Gate
    <3>3. CASE ScanHeld(t)
      <4>1. gating' \in Gating
        BY <2>3, <2>4, <3>3 DEF ScanHeld, Gate
      <4> QED  BY <3>3, <4>1 DEF ScanHeld, Gating
    <3> QED  BY <1>2, <3>1, <3>2, <3>3 DEF Scan
  <2>6. tick' \in Tick
    <3>1. CASE \E verdict, g : Judged(t, verdict, g)
      BY <2>2, <3>1, JudgedTick
    <3>2. CASE tick' = [tick EXCEPT !.pc = "pausing", !.at = t]
      BY <3>2 DEF Tick, PCs, Pausing, Places
    <3> QED  BY <1>2, <3>1, <3>2 DEF Scan, ScanBarred, ScanOpen, ScanReaches, ScanHeld
  <2> QED  BY <1>2, <2>1, <2>5, <2>6 DEF Scan, Scanning, peopleVars, storeVars
<1>3. ASSUME NEW t \in Tasks, ForceFail(t) \/ Dispatch(t) PROVE Shapes'
  <2>1. [tick EXCEPT !.todo = @ \ {t}] \in Tick /\ [tick EXCEPT !.ready = @ \ {t}] \in Tick
    BY DEF Tick
  <2>2. tick' \in Tick
    BY <1>3, <2>1, ConstantShapes DEF ForceFail, Dispatch
  <2> QED  BY <1>3, <2>2 DEF ForceFail, Dispatch, peopleVars, engineVars
<1>4. CASE PauseReads \/ PauseWrites
  <2>1. tick.at \in Tasks /\ tick.todo \subseteq Tasks
    BY <1>4 DEF PauseReads, PauseWrites, TickShape, At, Pausing
  <2>2. tick' \in Tick
    <3>1. CASE Resumes
      BY <2>1, <3>1, JudgedTick DEF Resumes
    <3>2. CASE Goes("paused")
      BY <3>2 DEF Goes, Tick, PCs, Pausing
    <3> QED  BY <1>4, <3>1, <3>2 DEF PauseReads, PauseWrites
  <2>3. mission' \in [status : MissionStatus, executionCount : 0..MaxCalls]
    BY <1>4 DEF PauseReads, PauseWrites, Marks, MissionStatus
  <2> QED  BY <1>4, <2>2, <2>3 DEF PauseReads, PauseWrites, peopleVars, engineVars, storeVars
<1>5. CASE Dispatched
  BY <1>5, ConstantShapes DEF Dispatched, Tick, PCs, Cleaning, Admitted, StoreTypeOK, peopleVars, engineVars, storeVars
<1>6. ASSUME NEW e \in Calls, CleanupSkips(e) PROVE Shapes'
  BY <1>6, <1>0 DEF CleanupSkips, peopleVars, storeVars
<1>7. ASSUME NEW e \in Calls, CleanupReads(e) PROVE Shapes'
  BY <1>7, RecoveredIsGating DEF CleanupReads, Prepares, Tick, PCs, Cleaning, Places, peopleVars, storeVars
<1>8. CASE Finalize
  <2>1. \A o, passed : Final(o, passed) \in MissionStatus
    BY DEF Final, MissionStatus
  <2>2. (\E status \in MissionStatus : Marks(status)) \/ UNCHANGED mission
    BY <1>8, <2>1, Zenon DEF Finalize
  <2>5. mission' \in [status : MissionStatus, executionCount : 0..MaxCalls]
    BY <2>2 DEF Marks
  <2>6. [tick EXCEPT !.pc = "forgetting"] \in Tick
    BY DEF Tick, PCs, Cleaning
  <2>7. tick' \in Tick
    BY <1>0, <1>8, <2>6 DEF Finalize, Goes
  <2> QED  BY <1>8, <2>5, <2>7 DEF Finalize, peopleVars, engineVars, storeVars
<1>9. CASE ForgetSaves
  <2>1. PICK e \in Calls : tick.at = <<e>>
    BY <1>9 DEF ForgetSaves, TickShape, At, Settling, Admitted
  <2>2. Without(gating, e) \in Gating
    BY <2>1, ConstantShapes
  <2>3. \A g \in Gating : [tick EXCEPT !.pc = "forgotten", !.next = g] \in Tick
    BY DEF Tick, PCs, Cleaning
  <2>4. tick' \in Tick /\ gating' \in Gating
    <3>1. /\ tick' = [tick EXCEPT !.pc = "forgotten", !.next = IF SharedState THEN NoGating ELSE Without(gating, e)]
          /\ gating' = IF SharedState THEN Without(gating, e) ELSE gating
      BY <1>9, <2>1 DEF ForgetSaves
    <3> QED  BY <2>2, <2>3, <3>1, AbsentIsRow
  <2>5. saved' = Without(gating, e).gate
    BY <1>9, <2>1 DEF ForgetSaves
  <2>6. saved' \in [Calls -> Gate]
    BY <2>2, <2>5 DEF Gating
  <2> QED  BY <1>9, <2>4, <2>6 DEF ForgetSaves, peopleVars, storeVars
<1>10. CASE ForgetAssigns
  <2>1. PICK e \in Calls : tick.at = <<e>>
    BY <1>10 DEF ForgetAssigns, TickShape, At, Settling, Admitted
  <2>2. tick.next \in Gating
    BY DEF Tick
  <2> QED  BY <1>0, <1>10, <2>1, <2>2 DEF ForgetAssigns, peopleVars, storeVars
<1>11. CASE TickEnds
  BY <1>11, ConstantShapes DEF TickEnds, peopleVars, engineVars, storeVars
<1>12. CASE Restart
  BY <1>12, ConstantShapes DEF Restart, WasCleaned, Admitted, Gating, peopleVars, storeVars
<1> QED  BY <1>1, <1>2, <1>3, <1>4, <1>5, <1>6, <1>7, <1>8, <1>9, <1>10, <1>11, <1>12 DEF Ticks

\* People, agents, time and crashes.
People ==
  \/ \E t \in Tasks : Work(t) \/ Retry(t) \/ ResumeRetries(t)
  \/ \E e \in Calls : Elapse(e) \/ Release(e) \/ UnpauseReads(e) \/ UnpauseWrites(e) \/ AbortCaptures(e)
  \/ AbortCommits \/ ResumeCaptures \/ ResumeActivates
  \/ Crash

\* What people, agents, time and crashes do keeps every type.
LEMMA PeopleShapes ==
  ASSUME IInv, People, StoreTypeOK'
  PROVE  Shapes'
<1> USE DEF IInv, TypedInv, Shapes
<1>0. \A status \in MissionStatus :
        [mission EXCEPT !.status = status] \in [status : MissionStatus, executionCount : 0..MaxCalls]
  OBVIOUS
<1>1. ASSUME NEW t \in Tasks, Work(t) \/ Retry(t) PROVE Shapes'
  BY <1>1 DEF Work, Retry, peopleVars, engineVars
<1>2. ASSUME NEW t \in Tasks, ResumeRetries(t) PROVE Shapes'
  <2>1. {t[1]} \in SUBSET Calls
    BY TaskParts
  <2>2. gating' \in Gating /\ prepared' \subseteq Calls
    BY <1>2, <2>1, RecoveredIsGating DEF ResumeRetries, Prepares
  <2>3. resumption' \in Resumption
    BY <1>2 DEF ResumeRetries, Resumption
  <2> QED  BY <1>2, <2>2, <2>3 DEF ResumeRetries
<1>3. ASSUME NEW e \in Calls, Elapse(e) PROVE Shapes'
  BY <1>3 DEF Elapse, peopleVars, storeVars
<1>4. ASSUME NEW e \in Calls, Release(e) PROVE Shapes'
  <2>1. Recovered({e}) \in Gating /\ "lifted" \in Gate
    BY RecoveredIsGating DEF Gate
  <2>2. [Recovered({e}) EXCEPT !.gate[e] = "lifted"] \in Gating
    BY <2>1, ConstantShapes
  <2>3. gating' \in Gating /\ saved' \in [Calls -> Gate]
    BY <1>4, <2>2 DEF Release, Gating
  <2>4. prepared' \subseteq Calls /\ unpause' \in [Calls -> {"idle", "reading", "writing"}]
    BY <1>4 DEF Release
  <2> QED  BY <1>4, <2>3, <2>4 DEF Release, storeVars
<1>5. ASSUME NEW e \in Calls, UnpauseReads(e) PROVE Shapes'
  BY <1>5 DEF UnpauseReads, engineVars, storeVars
<1>6. ASSUME NEW e \in Calls, UnpauseWrites(e) PROVE Shapes'
  <2>1. mission' \in [status : MissionStatus, executionCount : 0..MaxCalls]
    BY <1>6, <1>0 DEF UnpauseWrites, Marks, MissionStatus
  <2> QED  BY <1>6, <2>1 DEF UnpauseWrites, engineVars, storeVars
<1>7. ASSUME NEW e \in Calls, AbortCaptures(e) PROVE Shapes'
  BY <1>7 DEF AbortCaptures, engineVars, storeVars
<1>8. CASE AbortCommits
  <2>1. mission' \in [status : MissionStatus, executionCount : 0..MaxCalls]
    BY <1>8, <1>0 DEF AbortCommits, Marks, MissionStatus
  <2> QED  BY <1>8, <2>1 DEF AbortCommits, engineVars
<1>9. CASE ResumeCaptures
  <2>1. resumption' \in Resumption
    BY <1>9 DEF ResumeCaptures, Resumption
  <2>2. cleaned' \subseteq Calls
    BY <1>9 DEF ResumeCaptures
  <2> QED  BY <1>9, <2>1, <2>2 DEF ResumeCaptures, storeVars
<1>10. CASE ResumeActivates
  <2>1. mission' \in [status : MissionStatus, executionCount : 0..MaxCalls]
    BY <1>10, <1>0 DEF ResumeActivates, Marks, MissionStatus
  <2>2. resumption.waiting \in SUBSET Calls
    BY DEF Resumption
  <2>3. gating' \in Gating /\ prepared' \subseteq Calls
    BY <1>10, <2>2, RecoveredIsGating DEF ResumeActivates, Prepares
  <2>4. resumption' \in Resumption
    BY <1>10 DEF ResumeActivates, Resumption
  <2> QED  BY <1>10, <2>1, <2>3, <2>4 DEF ResumeActivates, storeVars
<1>11. CASE Crash
  <2>1. call' \in [Calls -> CallRecord]
    <3>1. NoCall \in CallRecord /\ [NoCall EXCEPT !.pc = "over"] \in CallRecord
      BY ConstantShapes DEF CallRecord
    <3> QED  BY <1>11, <3>1 DEF Crash
  <2>2. resumption' \in Resumption
    BY <1>11 DEF Crash, Resumption
  <2>3. unpause' \in [Calls -> {"idle", "reading", "writing"}]
    BY <1>11 DEF Crash
  <2>4. tick' \in Tick /\ gating' \in Gating
    BY <1>11, ConstantShapes, AbsentIsRow DEF Crash
  <2> QED  BY <1>11, <2>1, <2>2, <2>3, <2>4 DEF Crash, storeVars
<1> QED  BY <1>1, <1>2, <1>3, <1>4, <1>5, <1>6, <1>7, <1>8, <1>9, <1>10, <1>11 DEF People

\* A step is one of a call, of the tick or of anybody else.
LEMMA ThreeParts ==
  ASSUME Next
  PROVE  \/ \E q \in Calls : Execute(q) \/ Commit(q) \/ Refuse(q) \/ PrepareCall(q)
         \/ Ticks
         \/ People
BY DEF Next, People

\* Every step keeps every type.
LEMMA ShapesKept == ASSUME IInv, Next PROVE Shapes'
BY StoreTypes, ThreeParts, CallShapes, TickShapes, PeopleShapes

-----------------------------------------------------------------------------
(* What the steps leave alone.                                             *)

\* The tick leaves receipts, calls and requests alone.
LEMMA TicksFrame == ASSUME Ticks PROVE UNCHANGED <<receipts, plan, call, unpause, abort, resumption, asked, faults>>
BY DEF Ticks, TickLists, Scan, Scanning, ForceFail, Dispatch, PauseReads, PauseWrites, Dispatched, CleanupSkips,
       CleanupReads, Finalize, ForgetSaves, ForgetAssigns, TickEnds, Restart, peopleVars

\* Nobody else admits, and nobody else moves the tick, except by a crash.
LEMMA PeopleFrame == ASSUME People PROVE UNCHANGED <<receipts, plan>> /\ (UNCHANGED tick \/ tick' = Down)
BY DEF People, Work, Retry, ResumeRetries, Elapse, Release, UnpauseReads, UnpauseWrites, AbortCaptures,
       AbortCommits, ResumeCaptures, ResumeActivates, Crash

\* A call leaves the tick and the requests alone; only admission writes a receipt.
LEMMA CallsFrame ==
  ASSUME NEW q \in Calls, Execute(q) \/ Commit(q) \/ Refuse(q) \/ PrepareCall(q)
  PROVE  /\ UNCHANGED <<plan, tick, unpause, abort, resumption>>
         /\ UNCHANGED receipts \/ Commit(q)
BY DEF Execute, Commit, Refuse, PrepareCall, peopleVars

\* Receipts are written by admission and never taken back.
LEMMA AdmittedGrows ==
  ASSUME IInv, Next
  PROVE  Admitted \subseteq Admitted'
<1> USE DEF IInv, TypedInv, Shapes
<1>1. CASE UNCHANGED receipts
  BY <1>1 DEF Admitted
<1>2. ASSUME NEW q \in Calls, Commit(q) PROVE Admitted \subseteq Admitted'
  <2>1. mission.executionCount + 1 > 0
    BY MissionsAssumption
  <2> QED  BY <1>2, <2>1 DEF Commit, Admitted
<1> QED  BY <1>1, <1>2, ThreeParts, TicksFrame, PeopleFrame, CallsFrame

\* The tick keeps its listing, lists anew or lets go of it.
LEMMA SnapStep ==
  ASSUME IInv, Next
  PROVE  \/ tick'.snap = tick.snap
         \/ tick'.snap = tasks /\ UNCHANGED tasks
         \/ tick'.snap = NoSnap
<1> USE DEF IInv, TypedInv, Shapes
<1> DEFINE Snapped == \/ tick'.snap = tick.snap
                      \/ tick'.snap = tasks /\ UNCHANGED tasks
                      \/ tick'.snap = NoSnap
<1>1. CASE UNCHANGED tick \/ tick' = Down \/ tick' = Between
  BY <1>1 DEF Down, Between
<1>2. \A e : Passes(e).snap = tick.snap
  BY DEF Passes, Tick
<1>3. CASE TickLists \/ Dispatched
  BY <1>3 DEF TickLists, Dispatched, Between, storeVars
<1>4. ASSUME NEW t \in Tasks, NEW v, NEW g, Judged(t, v, g), tick.pc \in Pausing \cup {"scan"} PROVE Snapped
  BY <1>4, JudgedTick DEF TickShape
<1>5. ASSUME NEW t \in Tasks, Scan(t) PROVE Snapped
  <2>1. CASE \E v, g : Judged(t, v, g)
    BY <1>4, <1>5, <2>1 DEF Scan, Scanning, At
  <2>2. CASE tick' = [tick EXCEPT !.pc = "pausing", !.at = t]
    BY <2>2 DEF Tick
  <2> QED  BY <1>5, <2>1, <2>2 DEF Scan, ScanBarred, ScanOpen, ScanReaches, ScanHeld
<1>6. CASE PauseReads \/ PauseWrites
  <2>1. tick.pc \in Pausing /\ tick.at \in Tasks
    BY <1>6 DEF PauseReads, PauseWrites, At, Pausing, TickShape
  <2> QED  BY <1>4, <1>6, <2>1 DEF PauseReads, PauseWrites, Resumes, Goes, Tick
<1>7. ASSUME NEW t \in Tasks, ForceFail(t) \/ Dispatch(t) PROVE Snapped
  BY <1>1, <1>7 DEF ForceFail, Dispatch, Tick
<1>8. ASSUME NEW e \in Calls, CleanupSkips(e) \/ CleanupReads(e) PROVE Snapped
  BY <1>2, <1>8 DEF CleanupSkips, CleanupReads, Tick
<1>9. CASE Finalize \/ ForgetSaves \/ ForgetAssigns
  BY <1>2, <1>9 DEF Finalize, Goes, ForgetSaves, ForgetAssigns, Tick
<1>10. CASE TickEnds \/ Restart
  BY <1>1, <1>10 DEF TickEnds, Restart
<1>11. CASE Ticks
  BY <1>3, <1>5, <1>6, <1>7, <1>8, <1>9, <1>10, <1>11 DEF Ticks
<1> QED  BY <1>1, <1>11, ThreeParts, PeopleFrame, CallsFrame

-----------------------------------------------------------------------------
(* What the tick is busy with.                                             *)

\* Judging a queued Task leaves a tick that is scanning, failing or dispatching queued Tasks.
LEMMA JudgedShape ==
  ASSUME Shapes, TickShape, tick.pc \in Pausing \cup {"scan"}, NEW t \in Tasks, tick.snap[t].status = "pending",
         NEW v, NEW g, Judged(t, v, g)
  PROVE  TickShape'
<1>1. tick \in Tick /\ tick.todo \subseteq Tasks
  BY DEF Shapes, TickShape
<1>2. /\ tick'.snap = tick.snap
      /\ tick'.pc \in {"scan", "failing", "dispatch"}
      /\ tick'.pc = "scan" => tick'.todo = tick.todo \ {t}
      /\ tick'.pc = "failing" => tick'.todo = Queued(tick.snap) /\ tick'.ready = {}
      /\ tick'.ready \subseteq tick.ready \cup {t}
  BY <1>1, JudgedTick
<1>3. Queued(tick.snap) \subseteq Tasks
  BY DEF Queued
<1> QED  BY <1>2, <1>3 DEF TickShape, At, Cleaning, Settling, Pausing

\* Every step leaves the tick with work of the kind that its place allows.
LEMMA TickShapeKept == ASSUME IInv, Next PROVE TickShape'
<1> USE DEF IInv, TypedInv
<1>0. Admitted \subseteq Admitted' /\ tick \in Tick
  BY AdmittedGrows DEF Shapes
<1>1. CASE UNCHANGED <<tick, plan>>
  BY <1>0, <1>1 DEF TickShape, At
<1>2. CASE tick' = Down \/ tick' = Between
  BY <1>2 DEF Down, Between, TickShape, At, Cleaning, Settling, Pausing
<1>3. CASE TickLists
  <2>1. Queued(tasks) \subseteq Tasks /\ \A t \in Queued(tasks) : tasks[t].status = "pending"
    BY DEF Queued
  <2> QED  BY <1>0, <1>3, <2>1 DEF TickLists, Between, TickShape, At, Cleaning, Settling, Pausing
<1>4. ASSUME NEW t \in Tasks, Scan(t) PROVE TickShape'
  <2>1. /\ tick.pc = "scan" /\ tick.todo \subseteq Tasks /\ tick.snap[t].status = "pending"
        /\ \A u \in tick.todo : tick.snap[u].status = "pending"
        /\ UNCHANGED plan
    BY <1>4 DEF Scan, Scanning, TickShape, At
  <2>2. CASE \E v, g : Judged(t, v, g)
    BY <2>1, <2>2, JudgedShape
  <2>3. CASE plan.gate = "checkpoint" /\ tick' = [tick EXCEPT !.pc = "pausing", !.at = t]
    BY <1>0, <2>1, <2>3 DEF Tick, TickShape, At, Cleaning, Settling, Pausing
  <2> QED  BY <1>4, <2>2, <2>3 DEF Scan, ScanBarred, ScanOpen, ScanReaches, ScanHeld
<1>5. CASE PauseReads \/ PauseWrites
  <2>1. /\ tick.pc \in Pausing /\ tick.at \in Tasks /\ tick.snap[tick.at].status = "pending"
        /\ plan.gate = "checkpoint" /\ UNCHANGED plan
    BY <1>5 DEF PauseReads, PauseWrites, At, Pausing, TickShape
  <2>2. CASE Resumes
    BY <2>1, <2>2, JudgedShape DEF Resumes
  <2>3. CASE Goes("paused")
    BY <1>0, <2>1, <2>3 DEF Goes, Tick, TickShape, At, Cleaning, Settling, Pausing
  <2> QED  BY <1>5, <2>2, <2>3 DEF PauseReads, PauseWrites
<1>6. ASSUME NEW t \in Tasks, ForceFail(t) PROVE TickShape'
  <2>1. CASE tick' = [tick EXCEPT !.todo = @ \ {t}] /\ tick.pc = "failing"
    BY <1>0, <2>1 DEF Tick, TickShape, At, Cleaning, Settling, Pausing
  <2> QED  BY <1>2, <1>6, <2>1 DEF ForceFail, At
<1>7. ASSUME NEW t \in Tasks, Dispatch(t) PROVE TickShape'
  <2>1. CASE tick' = [tick EXCEPT !.ready = @ \ {t}] /\ tick.pc = "dispatch"
    BY <1>0, <2>1 DEF Tick, TickShape, At, Cleaning, Settling, Pausing
  <2> QED  BY <1>2, <1>7, <2>1 DEF Dispatch, At
<1>8. CASE Dispatched
  BY <1>0, <1>8 DEF Dispatched, Between, TickShape, At, Cleaning, Settling, Pausing
<1>9. ASSUME tick.pc \in Cleaning, NEW e, tick' = Passes(e) PROVE TickShape'
  BY <1>0, <1>9 DEF Passes, Tick, TickShape, At, Cleaning, Settling, Pausing
<1>10. ASSUME tick.pc \in Cleaning, tick'.pc \in Settling, tick'.todo = tick.todo, tick'.ready = tick.ready,
              \E e \in Admitted : tick'.at = <<e>>
       PROVE  TickShape'
  BY <1>0, <1>10 DEF TickShape, At, Cleaning, Settling, Pausing
<1>11. ASSUME NEW e \in Calls, CleanupSkips(e) \/ CleanupReads(e) PROVE TickShape'
  <2>1. tick.pc \in Cleaning /\ e \in Admitted
    BY <1>11 DEF CleanupSkips, CleanupReads, At, Cleaning, TickShape
  <2>2. CASE CleanupReads(e)
    <3>1. tick'.pc \in Settling /\ tick'.todo = tick.todo /\ tick'.ready = tick.ready /\ tick'.at = <<e>>
      BY <1>0, <2>2 DEF CleanupReads, Tick, Settling
    <3> QED  BY <1>10, <2>1, <3>1
  <2> QED  BY <1>9, <1>11, <2>1, <2>2 DEF CleanupSkips
<1>12. CASE Finalize \/ ForgetSaves \/ ForgetAssigns
  <2>1. tick.pc \in Cleaning /\ \E e \in Admitted : tick.at = <<e>>
    BY <1>12 DEF Finalize, ForgetSaves, ForgetAssigns, At, Cleaning, Settling, TickShape
  <2>2. CASE \E pc \in Settling : \E next : tick' = [tick EXCEPT !.pc = pc, !.next = next]
    <3>1. tick'.pc \in Settling /\ tick'.todo = tick.todo /\ tick'.ready = tick.ready /\ tick'.at = tick.at
      BY <1>0, <2>2 DEF Tick
    <3> QED  BY <1>10, <2>1, <3>1
  <2>3. CASE Goes("forgetting")
    <3>1. tick'.pc \in Settling /\ tick'.todo = tick.todo /\ tick'.ready = tick.ready /\ tick'.at = tick.at
      BY <1>0, <2>3 DEF Goes, Tick, Settling
    <3> QED  BY <1>10, <2>1, <3>1
  <2> QED  BY <1>9, <1>12, <2>1, <2>2, <2>3 DEF Finalize, ForgetSaves, ForgetAssigns, Settling
<1>13. CASE TickEnds \/ Restart
  BY <1>2, <1>13 DEF TickEnds, Restart
<1>14. CASE Ticks
  BY <1>3, <1>4, <1>5, <1>6, <1>7, <1>8, <1>11, <1>12, <1>13, <1>14 DEF Ticks
<1> QED  BY <1>1, <1>2, <1>14, ThreeParts, PeopleFrame, CallsFrame

\* removeGroup's result is kept for one step.
LEMMA NextGating ==
  ASSUME IInv, Ticks
  PROVE  \/ tick'.next \in {tick.next, NoGating}
         \/ \E e : tick'.next = Without(gating, e)
<1> USE DEF IInv, TypedInv
<1>0. tick \in Tick
  BY DEF Shapes
<1>1. tick' = Between \/ tick' = Down \/ (\E e : tick' = Passes(e)) => tick'.next = NoGating
  <2>1. Between.next = NoGating /\ Down.next = NoGating
    BY DEF Between, Down
  <2>2. \A e : Passes(e).next = NoGating
    BY <1>0 DEF Passes, Tick
  <2> QED  BY <2>1, <2>2
<1>2. CASE TickLists
  <2>1. (\E pc, snap, todo : tick' = [Between EXCEPT !.pc = pc, !.snap = snap, !.todo = todo])
        \/ tick' = [Between EXCEPT !.pc = "dispatch"]
    BY <1>2, Zenon DEF TickLists
  <2>2. ASSUME NEW pc, NEW snap, NEW todo, tick' = [Between EXCEPT !.pc = pc, !.snap = snap, !.todo = todo]
        PROVE  tick'.next = NoGating
    BY <2>2 DEF Between
  <2>3. [Between EXCEPT !.pc = "dispatch"].next = NoGating
    BY DEF Between
  <2> QED  BY <2>1, <2>2, <2>3
<1>3. CASE Dispatched
  BY <1>3 DEF Dispatched, Between
<1>4. CASE TickEnds \/ Restart
  BY <1>1, <1>4 DEF TickEnds, Restart
<1>5. ASSUME NEW t \in Tasks, Scan(t) PROVE tick'.next = tick.next
  <2>0. tick.todo \subseteq Tasks
    BY <1>5 DEF Scan, Scanning, At, TickShape
  <2>1. CASE \E v, g : Judged(t, v, g)
    BY <1>0, <2>0, <2>1, JudgedTick
  <2>2. CASE tick' = [tick EXCEPT !.pc = "pausing", !.at = t]
    BY <1>0, <2>2 DEF Tick
  <2> QED  BY <1>5, <2>1, <2>2 DEF Scan, ScanBarred, ScanOpen, ScanReaches, ScanHeld
<1>6. CASE PauseReads \/ PauseWrites
  <2>1. tick.at \in Tasks /\ tick.todo \subseteq Tasks
    BY <1>6 DEF PauseReads, PauseWrites, At, Pausing, TickShape
  <2>2. CASE Resumes
    BY <1>0, <2>1, <2>2, JudgedTick DEF Resumes
  <2>3. CASE Goes("paused")
    BY <1>0, <2>3 DEF Goes, Tick
  <2> QED  BY <1>6, <2>2, <2>3 DEF PauseReads, PauseWrites
<1>7. ASSUME NEW t \in Tasks, ForceFail(t) \/ Dispatch(t) PROVE tick'.next \in {tick.next, NoGating}
  BY <1>0, <1>1, <1>7 DEF ForceFail, Dispatch, Tick
<1>8. ASSUME NEW e \in Calls, CleanupSkips(e) \/ CleanupReads(e) PROVE tick'.next \in {tick.next, NoGating}
  BY <1>0, <1>1, <1>8 DEF CleanupSkips, CleanupReads, Tick
<1>9. CASE Finalize
  BY <1>0, <1>1, <1>9 DEF Finalize, Goes, Tick
<1>10. CASE ForgetSaves
  <2>1. tick'.next = IF SharedState THEN NoGating ELSE Without(gating, tick.at[1])
    BY <1>0, <1>10 DEF ForgetSaves, Tick
  <2> QED  BY <2>1
<1>11. CASE ForgetAssigns
  BY <1>1, <1>11 DEF ForgetAssigns
<1> QED  BY <1>2, <1>3, <1>4, <1>5, <1>6, <1>7, <1>8, <1>9, <1>10, <1>11 DEF Ticks

-----------------------------------------------------------------------------
(* Only what was admitted is prepared, gated, cleaned or cancelled.        *)

\* Preparing admitted executions names admitted executions only.
LEMMA PreparedRooted ==
  ASSUME Shapes, Rooted, NEW E \in SUBSET Admitted, Prepares(E)
  PROVE  prepared' \subseteq Admitted /\ gating'.defined \subseteq Admitted
<1>1. Admitted \subseteq Calls
  BY DEF Admitted
<1>2. Recovered(E).defined = gating.defined \cup (E \ prepared)
  BY <1>1, RecoveredIsGating
<1> QED  BY <1>2 DEF Prepares, Rooted

\* Every step keeps everything rooted in admission.
LEMMA RootedKept == ASSUME IInv, Next PROVE Rooted'
<1> USE DEF IInv, TypedInv
<1>0. Admitted \subseteq Admitted' /\ Admitted \subseteq Calls /\ tick \in Tick /\ gating \in Gating
      /\ NoGating.defined = {}
  BY AdmittedGrows DEF Shapes, Admitted, NoGating
<1>1. ASSUME NEW q \in Calls, Execute(q) \/ Commit(q) \/ Refuse(q) \/ PrepareCall(q) PROVE Rooted'
  <2>1. ASSUME NEW p \in Calls, call'[p].pc = "admitted" PROVE p \in Admitted'
    <3>1. CASE Commit(q)
      <4>1. q \in Admitted'
        <5>1. mission.executionCount + 1 > 0
          BY MissionsAssumption DEF Shapes
        <5> QED  BY <3>1, <5>1 DEF Commit, Admitted, Shapes
      <4>2. p # q => call'[p] = call[p]
        BY <3>1 DEF Commit, CallGoes, Shapes
      <4> QED  BY <1>0, <2>1, <4>1, <4>2 DEF Rooted
    <3>2. CASE Execute(q) \/ Refuse(q) \/ PrepareCall(q)
      <4>1. call'[p] = call[p]
        BY <2>1, <3>2 DEF Execute, Refuse, PrepareCall, CallGoes, NoCall, Shapes
      <4> QED  BY <1>0, <2>1, <4>1 DEF Rooted
    <3> QED  BY <1>1, <3>1, <3>2
  <2>2. prepared' \subseteq Admitted /\ gating'.defined \subseteq Admitted /\ UNCHANGED cleaned
    <3>1. CASE PrepareCall(q)
      <4>1. {q} \in SUBSET Admitted
        BY <3>1 DEF PrepareCall, Rooted
      <4> QED  BY <3>1, <4>1, PreparedRooted DEF PrepareCall
    <3> QED  BY <1>1, <3>1 DEF Execute, Commit, Refuse, engineVars, Rooted
  <2> QED  BY <1>0, <1>1, <2>1, <2>2, CallsFrame DEF Rooted
<1>2. ASSUME UNCHANGED <<call, abort, resumption>>, prepared' \subseteq Admitted, cleaned' \subseteq Admitted,
             gating'.defined \subseteq Admitted, tick'.next.defined \subseteq Admitted
      PROVE  Rooted'
  BY <1>0, <1>2 DEF Rooted
<1>3. prepared \subseteq Admitted /\ cleaned \subseteq Admitted /\ gating.defined \subseteq Admitted
      /\ tick.next.defined \subseteq Admitted
  BY DEF Rooted
<1>4. ASSUME Ticks PROVE Rooted'
  <2>0. UNCHANGED <<call, abort, resumption>>
    BY <1>4, TicksFrame
  <2>1. \A e : Without(gating, e).defined \subseteq Admitted
    BY <1>3 DEF Without
  <2>2. tick'.next.defined \subseteq Admitted
    <3>1. tick'.next \in {tick.next, NoGating} \/ \E e : tick'.next = Without(gating, e)
      BY <1>4, NextGating
    <3> QED  BY <1>0, <1>3, <2>1, <3>1
  <2>3. CASE UNCHANGED <<prepared, gating, cleaned>>
    BY <1>2, <1>3, <2>0, <2>2, <2>3
  <2>4. CASE TickLists \/ Dispatched \/ TickEnds \/ PauseReads \/ PauseWrites \/ Finalize
    BY <2>3, <2>4 DEF TickLists, Dispatched, TickEnds, PauseReads, PauseWrites, Finalize, engineVars
  <2>5. ASSUME NEW t \in Tasks, ForceFail(t) \/ Dispatch(t) PROVE Rooted'
    BY <2>3, <2>5 DEF ForceFail, Dispatch, engineVars
  <2>6. ASSUME NEW t \in Tasks, Scan(t) PROVE Rooted'
    <3>1. {t[1]} \in SUBSET Admitted
      BY <2>6 DEF Scan, Scanning, At, TickShape, Admission
    <3>2. prepared' = prepared \cup {t[1]} /\ UNCHANGED cleaned
      BY <2>6 DEF Scan, Scanning
    <3>3. Recovered({t[1]}) \in Gating /\ Recovered({t[1]}).defined \subseteq Admitted
      BY <1>0, <1>3, <3>1, RecoveredIsGating
    <3>4. gating'.defined \subseteq Admitted
      BY <2>6, <3>3 DEF Scan, ScanBarred, ScanOpen, ScanReaches, ScanHeld, Gating
    <3> QED  BY <1>2, <1>3, <2>0, <2>2, <3>1, <3>2, <3>4
  <2>7. ASSUME NEW e \in Calls, CleanupSkips(e) PROVE Rooted'
    BY <1>2, <1>3, <2>0, <2>2, <2>7 DEF CleanupSkips
  <2>8. ASSUME NEW e \in Calls, CleanupReads(e) PROVE Rooted'
    <3>1. {e} \in SUBSET Admitted
      BY <2>8 DEF CleanupReads, At, TickShape, Cleaning
    <3>2. prepared' \subseteq Admitted /\ gating'.defined \subseteq Admitted
      BY <2>8, <3>1, PreparedRooted DEF CleanupReads
    <3> QED  BY <1>2, <1>3, <2>0, <2>2, <2>8, <3>2 DEF CleanupReads
  <2>9. CASE ForgetSaves
    <3>1. UNCHANGED <<prepared, cleaned>> /\ gating'.defined \subseteq Admitted
      BY <1>3, <2>1, <2>9 DEF ForgetSaves
    <3> QED  BY <1>2, <1>3, <2>0, <2>2, <3>1
  <2>10. CASE ForgetAssigns
    <3>1. PICK e \in Admitted : tick.at = <<e>>
      BY <2>10 DEF ForgetAssigns, At, TickShape, Settling
    <3> QED  BY <1>2, <1>3, <2>0, <2>2, <2>10, <3>1 DEF ForgetAssigns
  <2>11. CASE Restart
    BY <1>2, <2>0, <2>2, <2>11 DEF Restart, WasCleaned
  <2> QED  BY <1>4, <2>4, <2>5, <2>6, <2>7, <2>8, <2>9, <2>10, <2>11 DEF Ticks
<1>5. ASSUME NEW t \in Tasks, Work(t) \/ Retry(t) PROVE Rooted'
  BY <1>2, <1>3, <1>5 DEF Work, Retry, peopleVars, engineVars
<1>6. ASSUME NEW t \in Tasks, ResumeRetries(t) PROVE Rooted'
  <2>1. {t[1]} \in SUBSET Admitted
    BY <1>6 DEF ResumeRetries, Rooted
  <2>2. prepared' \subseteq Admitted /\ gating'.defined \subseteq Admitted
    BY <1>6, <2>1, PreparedRooted DEF ResumeRetries
  <2>3. resumption'.todo \subseteq resumption.todo /\ resumption'.waiting = resumption.waiting
    BY <1>6 DEF ResumeRetries, Shapes, Resumption
  <2> QED  BY <1>0, <1>6, <2>2, <2>3 DEF ResumeRetries, Rooted
<1>7. ASSUME NEW e \in Calls, Elapse(e) \/ UnpauseReads(e) \/ UnpauseWrites(e) PROVE Rooted'
  BY <1>2, <1>3, <1>7 DEF Elapse, UnpauseReads, UnpauseWrites, peopleVars, engineVars
<1>8. ASSUME NEW e \in Calls, Release(e) PROVE Rooted'
  <2>1. {e} \in SUBSET Admitted
    BY <1>8 DEF Release, IsCurrent
  <2>2. Recovered({e}) \in Gating /\ Recovered({e}).defined \subseteq Admitted
    BY <1>0, <1>3, <2>1, RecoveredIsGating
  <2>3. gating'.defined \subseteq Admitted /\ prepared' \subseteq Admitted
    BY <1>3, <1>8, <2>1, <2>2 DEF Release, Gating
  <2> QED  BY <1>2, <1>3, <1>8, <2>3 DEF Release
<1>9. ASSUME NEW e \in Calls, AbortCaptures(e) PROVE Rooted'
  BY <1>0, <1>3, <1>9 DEF AbortCaptures, engineVars, Rooted
<1>10. CASE AbortCommits
  BY <1>0, <1>3, <1>10 DEF AbortCommits, NoAbort, engineVars, Rooted
<1>11. CASE ResumeCaptures
  <2>1. cleaned' \subseteq cleaned
    BY <1>11 DEF ResumeCaptures
  <2>2. (\A t \in resumption'.todo : t[1] \in Admitted) /\ resumption'.waiting \subseteq Admitted
    BY <1>11 DEF ResumeCaptures, IsCurrent
  <2> QED  BY <1>0, <1>3, <1>11, <2>1, <2>2 DEF ResumeCaptures, Rooted
<1>12. CASE ResumeActivates
  <2>1. resumption.waiting \in SUBSET Admitted
    BY DEF Rooted
  <2>2. prepared' \subseteq Admitted /\ gating'.defined \subseteq Admitted
    BY <1>12, <2>1, PreparedRooted DEF ResumeActivates
  <2>3. resumption'.todo = resumption.todo /\ resumption'.waiting = resumption.waiting
    BY <1>12 DEF ResumeActivates, Shapes, Resumption
  <2> QED  BY <1>0, <1>12, <2>2, <2>3 DEF ResumeActivates, Rooted
<1>13. CASE Crash
  <2>1. resumption'.todo \subseteq resumption.todo /\ resumption'.waiting = resumption.waiting
    BY <1>13 DEF Crash, Shapes, Resumption
  <2>2. tick'.next = NoGating /\ gating' = NoGating
    BY <1>13 DEF Crash, Down, Between
  <2>3. prepared' = {} /\ cleaned' = {} /\ abort'.pc # "captured" /\ \A q \in Calls : call'[q].pc # "admitted"
    BY <1>13 DEF Crash, NoAbort, NoCall
  <2> QED  BY <1>0, <2>1, <2>2, <2>3 DEF Rooted
<1>14. CASE People
  BY <1>5, <1>6, <1>7, <1>8, <1>9, <1>10, <1>11, <1>12, <1>13, <1>14 DEF People
<1> QED  BY <1>1, <1>4, <1>14, ThreeParts

\* Without a gate no step makes one.
LEMMA UngatedKept == ASSUME IInv, Next PROVE Ungated'
<1> USE DEF IInv, TypedInv
<1>0. /\ UNCHANGED plan
      /\ NoGates \in [Calls -> Gate] /\ NoGating.gate = NoGates
      /\ \A e : [NoGates EXCEPT ![e] = "none"] = NoGates
  <2>1. UNCHANGED plan
    BY ThreeParts, TicksFrame, PeopleFrame, CallsFrame
  <2> QED  BY <2>1 DEF NoGates, NoGating, Gate
<1>1. plan.gate # "checkpoint" => \A e \in Calls : unpause'[e] = "idle"
  <2>0. unpause \in [Calls -> {"idle", "reading", "writing"}]
    BY DEF Shapes
  <2>1. ASSUME NEW e \in Calls, Release(e) \/ UnpauseReads(e) \/ UnpauseWrites(e) PROVE plan.gate = "checkpoint"
    BY <2>1 DEF Release, UnpauseReads, UnpauseWrites, Ungated
  <2>2. CASE UNCHANGED unpause \/ unpause' = [e \in Calls |-> "idle"]
    BY <2>2 DEF Ungated
  <2>3. CASE People
    BY <2>1, <2>2, <2>3 DEF People, Work, Retry, ResumeRetries, Elapse, AbortCaptures, AbortCommits, ResumeCaptures,
                            ResumeActivates, Crash, peopleVars
  <2> QED  BY <2>2, <2>3, ThreeParts, TicksFrame, CallsFrame
<1>2. ASSUME plan.gate = "none" PROVE gating'.gate = NoGates /\ saved' = NoGates /\ tick'.next.gate = NoGates
  <2>0. /\ gating \in Gating /\ gating.gate = NoGates /\ saved = NoGates /\ tick.next.gate = NoGates /\ tick \in Tick
    BY <1>2 DEF Ungated, Shapes
  <2>1. \A E \in SUBSET Calls : Recovered(E).gate = NoGates
    BY <2>0, RecoveredIsGating
  <2>2. \A e : Without(gating, e).gate = NoGates
    BY <1>0, <2>0 DEF Without
  <2>4. ASSUME NEW q \in Calls, Execute(q) \/ Commit(q) \/ Refuse(q) \/ PrepareCall(q)
        PROVE  gating'.gate = NoGates /\ saved' = NoGates /\ tick'.next.gate = NoGates
    BY <2>0, <2>1, <2>4 DEF Execute, Commit, Refuse, PrepareCall, Prepares, engineVars
  <2>5. ASSUME NEW t \in Tasks, Work(t) \/ Retry(t) \/ ResumeRetries(t)
        PROVE  gating'.gate = NoGates /\ saved' = NoGates /\ tick'.next.gate = NoGates
    <3>1. {t[1]} \in SUBSET Calls
      BY TaskParts
    <3> QED  BY <2>0, <2>1, <2>5, <3>1 DEF Work, Retry, ResumeRetries, Prepares, engineVars
  <2>6. ASSUME NEW e \in Calls, Elapse(e) \/ Release(e) \/ UnpauseReads(e) \/ UnpauseWrites(e) \/ AbortCaptures(e)
        PROVE  gating'.gate = NoGates /\ saved' = NoGates /\ tick'.next.gate = NoGates
    BY <1>2, <2>0, <2>6 DEF Elapse, Release, UnpauseReads, UnpauseWrites, AbortCaptures, engineVars
  <2>7. ASSUME AbortCommits \/ ResumeCaptures \/ ResumeActivates \/ Crash
        PROVE  gating'.gate = NoGates /\ saved' = NoGates /\ tick'.next.gate = NoGates
    <3>1. resumption.waiting \in SUBSET Calls
      BY DEF Shapes, Resumption
    <3>2. Down.next = NoGating
      BY DEF Down, Between
    <3> QED  BY <1>0, <2>0, <2>1, <2>7, <3>1, <3>2
             DEF AbortCommits, ResumeCaptures, ResumeActivates, Crash, Prepares, engineVars
  <2>8. CASE Ticks
    <3>1. tick'.next \in {tick.next, NoGating} \/ \E e : tick'.next = Without(gating, e)
      BY <2>8, NextGating
    <3>2. tick'.next.gate = NoGates
      BY <1>0, <2>0, <2>2, <3>1
    <3>3. ASSUME NEW t \in Tasks, Scan(t) PROVE gating'.gate = NoGates /\ saved' = NoGates
      <4>1. Recovered({t[1]}).gate = NoGates
        BY <2>1, TaskParts
      <4>2. ~Gated(t)
        BY <1>2 DEF Gated
      <4> QED  BY <2>0, <3>3, <4>1, <4>2 DEF Scan, ScanBarred, ScanOpen, ScanReaches, ScanHeld
    <3>4. ASSUME NEW e \in Calls, CleanupSkips(e) \/ CleanupReads(e) PROVE gating'.gate = NoGates /\ saved' = NoGates
      <4>1. Recovered({e}).gate = NoGates
        BY <2>1
      <4> QED  BY <2>0, <3>4, <4>1 DEF CleanupSkips, CleanupReads, Prepares
    <3>5. CASE ForgetSaves \/ ForgetAssigns
      <4>1. gating' = gating \/ gating' = tick.next \/ gating' = Without(gating, tick.at[1])
        BY <3>5 DEF ForgetSaves, ForgetAssigns
      <4>2. saved' = saved \/ saved' = Without(gating, tick.at[1]).gate
        BY <3>5 DEF ForgetSaves, ForgetAssigns
      <4> QED  BY <2>0, <2>2, <3>2, <4>1, <4>2
    <3>6. CASE Restart
      BY <2>0, <3>2, <3>6 DEF Restart
    <3>7. CASE UNCHANGED <<gating, saved>>
      BY <2>0, <3>2, <3>7
    <3> QED  BY <2>8, <3>2, <3>3, <3>4, <3>5, <3>6, <3>7
             DEF Ticks, TickLists, ForceFail, Dispatch, PauseReads, PauseWrites, Dispatched, Finalize, TickEnds, engineVars
  <2> QED  BY <2>4, <2>5, <2>6, <2>7, <2>8, ThreeParts DEF People
<1> QED  BY <1>0, <1>1, <1>2 DEF Ungated

\* The first layer is inductive.
LEMMA TypedKept == ASSUME IInv, Next PROVE TypedInv'
BY ShapesKept, TickShapeKept, RootedKept, UngatedKept DEF TypedInv

-----------------------------------------------------------------------------
(* Admission.                                                              *)

\* Only admission counts.
LEMMA CountsFrame ==
  ASSUME IInv, Next, ~\E q \in Calls : Commit(q)
  PROVE  UNCHANGED receipts /\ mission'.executionCount = mission.executionCount
<1>1. UNCHANGED receipts
  BY ThreeParts, TicksFrame, PeopleFrame, CallsFrame
<1>2. UNCHANGED mission \/ \E status : Marks(status)
  <2>1. ASSUME NEW q \in Calls, Execute(q) \/ Refuse(q) \/ PrepareCall(q) PROVE UNCHANGED mission
    BY <2>1 DEF Execute, Refuse, PrepareCall
  <2>2. CASE Ticks
    <3>1. CASE Finalize
      BY <3>1, Zenon DEF Finalize
    <3> QED  BY <2>2, <3>1 DEF Ticks, TickLists, Scan, Scanning, ForceFail, Dispatch, PauseReads, PauseWrites,
               Dispatched, CleanupSkips, CleanupReads, ForgetSaves, ForgetAssigns, TickEnds, Restart
  <2>3. CASE People
    <3>1. CASE AbortCommits
      BY <3>1 DEF AbortCommits
    <3> QED  BY <2>3, <3>1 DEF People, Work, Retry, ResumeRetries, Elapse, Release, UnpauseReads, UnpauseWrites,
               AbortCaptures, ResumeCaptures, ResumeActivates, Crash
  <2> QED  BY <2>1, <2>2, <2>3, ThreeParts
<1> QED  BY <1>1, <1>2 DEF Marks, IInv, TypedInv, Shapes

\* Every step keeps what admission promises.
LEMMA AdmissionKept == ASSUME IInv, Next PROVE Admission'
<1> USE DEF IInv, TypedInv
<1>0. /\ Admitted \subseteq Admitted' /\ UNCHANGED plan
      /\ mission.executionCount \in Nat /\ \A e \in Calls : receipts[e].sequence \in Nat
  BY AdmittedGrows, ThreeParts, TicksFrame, PeopleFrame, CallsFrame, MissionsAssumption DEF Shapes
<1>1. ASSUME NEW q \in Calls, Commit(q)
      PROVE  AdmittedOnce' /\ \A e \in Admitted' : receipts'[e].sequence <= mission'.executionCount
  <2>1. /\ q \notin Admitted /\ Admitted' = Admitted \cup {q} /\ Admitted \subseteq Calls
        /\ IsFiniteSet(Admitted) /\ Cardinality(Admitted') = Cardinality(Admitted) + 1
        /\ mission'.executionCount = mission.executionCount + 1
    BY <1>1, CommitCounts DEF Admitted
  <2>2. receipts'[q].sequence = mission.executionCount + 1 /\ \A p \in Calls : p # q => receipts'[p] = receipts[p]
    BY <1>1 DEF Commit, Shapes
  <2>3. \A e \in Admitted : receipts[e].sequence <= mission.executionCount
    BY DEF Admission
  <2>4. \A e \in Admitted' : receipts'[e].sequence <= mission'.executionCount
    BY <1>0, <2>1, <2>2, <2>3
  <2>5. \A p, r \in Admitted' : p # r => receipts'[p].sequence # receipts'[r].sequence
    BY <1>0, <2>1, <2>2, <2>3 DEF Admission, AdmittedOnce
  <2>6. plan.keyed => Cardinality(Admitted') <= 1
    <3>1. plan.keyed => Admitted = {}
      BY <1>1 DEF Commit, CanCommit, Accepted
    <3> QED  BY <2>1, <3>1, FS_EmptySet
  <2> QED  BY <1>0, <2>1, <2>4, <2>5, <2>6 DEF Admission, AdmittedOnce
<1>2. ASSUME ~\E q \in Calls : Commit(q)
      PROVE  AdmittedOnce' /\ \A e \in Admitted' : receipts'[e].sequence <= mission'.executionCount
  <2>1. UNCHANGED receipts /\ mission'.executionCount = mission.executionCount /\ Admitted' = Admitted
    BY <1>2, CountsFrame DEF Admitted
  <2> QED  BY <1>0, <2>1 DEF Admission, AdmittedOnce
<1>3. /\ \A q \in Calls : call'[q].pc \in {"idle", "planned"} => q \notin Admitted'
      /\ \A q \in Calls : call'[q].pc = "planned" => call'[q].expected.status \in Executable
  <2> USE DEF Shapes
  <2>0. (\A q \in Calls : ~Commit(q)) => Admitted' = Admitted
    BY CountsFrame DEF Admitted
  <2>1. ASSUME NEW q \in Calls, Commit(q), NEW p \in Calls, call'[p].pc \in {"idle", "planned"}
        PROVE  p \notin Admitted' /\ (call'[p].pc = "planned" => call'[p].expected.status \in Executable)
    <3>1. p # q /\ call'[p] = call[p]
      BY <2>1 DEF Commit, CallGoes, NoCall
    <3> QED  BY <2>1, <3>1, CommitCounts DEF Admission
  <2>2. ASSUME NEW q \in Calls, Execute(q), ~\E p \in Calls : Commit(p), NEW p \in Calls,
               call'[p].pc \in {"idle", "planned"}
        PROVE  p \notin Admitted' /\ (call'[p].pc = "planned" => call'[p].expected.status \in Executable)
    <3>1. CASE p # q
      <4>1. call'[p] = call[p]
        BY <2>2, <3>1 DEF Execute, CallGoes
      <4> QED  BY <2>0, <2>2, <4>1 DEF Admission
    <3>2. CASE p = q
      <4>1. call[p].pc = "idle"
        BY <2>2, <3>2 DEF Execute
      <4>2. call' = [call EXCEPT ![q] = [pc |-> "planned", expected |-> mission]] /\ mission.status \in Executable
        BY <2>2, <3>2 DEF Execute, CallGoes, NoCall
      <4> QED  BY <2>0, <2>2, <3>2, <4>1, <4>2 DEF Admission
    <3> QED  BY <3>1, <3>2
  <2>3. ASSUME NEW q \in Calls, Refuse(q) \/ PrepareCall(q), ~\E p \in Calls : Commit(p), NEW p \in Calls,
               call'[p].pc \in {"idle", "planned"}
        PROVE  p \notin Admitted' /\ (call'[p].pc = "planned" => call'[p].expected.status \in Executable)
    <3>1. call'[p] = call[p]
      BY <2>3 DEF Refuse, PrepareCall, CallGoes, NoCall
    <3> QED  BY <2>0, <2>3, <3>1 DEF Admission
  <2>4. ASSUME \/ UNCHANGED call
               \/ call' = [q \in Calls |-> IF call[q].pc = "idle" THEN NoCall ELSE [NoCall EXCEPT !.pc = "over"]],
               ~\E p \in Calls : Commit(p), NEW p \in Calls, call'[p].pc \in {"idle", "planned"}
        PROVE  p \notin Admitted' /\ (call'[p].pc = "planned" => call'[p].expected.status \in Executable)
    <3>1. call'[p] = call[p] \/ (call[p].pc = "idle" /\ call'[p] = NoCall)
      BY <2>4 DEF NoCall
    <3> QED  BY <2>0, <2>4, <3>1 DEF Admission, NoCall
  <2>5. CASE People \/ Ticks
    <3>1. UNCHANGED call \/ Crash
      BY <2>5, TicksFrame DEF People, Work, Retry, ResumeRetries, Elapse, Release, UnpauseReads, UnpauseWrites,
           AbortCaptures, AbortCommits, ResumeCaptures, ResumeActivates
    <3>2. UNCHANGED receipts
      BY <2>5, TicksFrame, PeopleFrame
    <3>3. ~\E p \in Calls : Commit(p)
      BY <1>0, <3>2, CommitCounts DEF Admitted
    <3> QED  BY <2>4, <3>1, <3>3 DEF Crash
  <2> QED  BY <2>1, <2>2, <2>3, <2>5, ThreeParts
<1>4. ASSUME NEW t \in Tasks, t[1] \notin Admitted' PROVE tasks'[t] = AbsentTask
  <2>1. t[1] \notin Admitted /\ tasks[t] = AbsentTask /\ t[1] \in Calls
    BY <1>0, <1>4, TaskParts DEF Admission
  <2>2. ASSUME NEW u \in Tasks, OneTask(u) PROVE tasks'[t] = AbsentTask
    <3>1. u # t
      BY <2>1, <2>2 DEF OneTask, Exists, AbsentTask, Missing
    <3> QED  BY <2>1, <2>2, <3>1, OneTaskTypes DEF Shapes
  <2>3. ASSUME NEW q \in Calls, Commit(q) PROVE tasks'[t] = AbsentTask
    <3>1. t \notin Of(q)
      BY <1>4, <2>1, <2>3, CommitCounts, TaskParts
    <3> QED  BY <2>1, <2>3, <3>1 DEF Commit
  <2>4. ASSUME AbortCommits, ~UNCHANGED storeVars PROVE tasks'[t] = AbsentTask
    <3>1. PICK e \in Admitted : \A u \in Tasks : u \notin Of(e) => tasks'[u] = tasks[u]
      BY <2>4, AbortRows
    <3>2. t \notin Of(e)
      BY <2>1, <3>1, TaskParts DEF Admitted
    <3> QED  BY <2>1, <3>1, <3>2
  <2>5. CASE UNCHANGED storeVars
    BY <2>1, <2>5 DEF storeVars
  <2> QED  BY <2>2, <2>3, <2>4, <2>5, StoreStep
<1>5. ASSUME NEW t \in Tasks, tick'.snap[t].status # "absent" PROVE t[1] \in Admitted'
  <2>1. \A u \in Tasks : NoSnap[u].status = "absent"
    BY DEF NoSnap, AbsentTask
  <2>2. tasks[t].status # "absent" => t[1] \in Admitted
    BY DEF Admission, AbsentTask
  <2> QED  BY <1>0, <1>5, <2>1, <2>2, SnapStep DEF Admission
<1> QED  BY <1>1, <1>2, <1>3, <1>4, <1>5 DEF Admission

-----------------------------------------------------------------------------
(* Settlement and cancellation.                                            *)

\* Every step leaves the listing a past of the rows.
LEMMA SnapAgeKept == ASSUME IInv, Next PROVE SnapAge'
<1> USE DEF IInv, TypedInv
<1> SUFFICES ASSUME NEW t \in Tasks
             PROVE  /\ tick'.snap[t].revision <= tasks'[t].revision
                    /\ tick'.snap[t].status = "done" => tasks'[t].status = "done"
                    /\ tick'.snap[t].status = "pending" /\ tick'.snap[t].revision = tasks'[t].revision
                         => tasks'[t].status = "pending"
  BY DEF SnapAge
<1>1. /\ tasks[t].revision \in Nat /\ tasks'[t].revision \in Nat /\ tick.snap[t].revision \in Nat
      /\ AbsentTask.revision = 0 /\ AbsentTask.status = "absent" /\ NoSnap[t] = AbsentTask
  BY StoreTypes, MaxRevisionAssumption DEF Shapes, StoreTypeOK, Tick, TaskRow, AbsentTask, NoSnap
<1>2. CASE tick'.snap = tick.snap
  <2>1. CASE t[1] \in Admitted
    <3>1. /\ tasks'[t].revision >= tasks[t].revision
          /\ tasks[t].status = "done" => tasks'[t].status = "done"
          /\ tasks[t].status = "pending" /\ tasks'[t].revision = tasks[t].revision => tasks'[t].status = "pending"
      BY <2>1, RowsAgeAlways DEF RowsAge
    <3>2. /\ tick.snap[t].revision <= tasks[t].revision
          /\ tick.snap[t].status = "done" => tasks[t].status = "done"
          /\ tick.snap[t].status = "pending" /\ tick.snap[t].revision = tasks[t].revision
                 => tasks[t].status = "pending"
      BY DEF SnapAge
    <3> QED  BY <1>1, <1>2, <3>1, <3>2
  <2>2. CASE t[1] \notin Admitted
    <3>1. tasks[t] = AbsentTask /\ tick.snap[t].status = "absent" /\ tick.snap[t].revision <= tasks[t].revision
      BY <2>2 DEF Admission, SnapAge
    <3> QED  BY <1>1, <1>2, <3>1
  <2> QED  BY <2>1, <2>2
<1>3. CASE tick'.snap = tasks /\ UNCHANGED tasks
  BY <1>1, <1>3
<1>4. CASE tick'.snap = NoSnap
  BY <1>1, <1>4
<1> QED  BY <1>2, <1>3, <1>4, SnapStep

\* At most one execution is the latest.
LEMMA OneIsCurrent ==
  ASSUME Admission, NEW e, NEW f, IsCurrent(e), IsCurrent(f)
  PROVE  e = f
BY DEF Admission, AdmittedOnce, IsCurrent

\* Work on a Task starts with a claim in the generation that the tick has listed.
LEMMA WorkStarts ==
  ASSUME IInv, Next, NEW t \in Tasks, tasks'[t].status = "in_progress", tasks[t].status # "in_progress"
  PROVE  At("dispatch") /\ t \in tick.ready /\ tick.snap[t].revision = tasks[t].revision /\ UNCHANGED mission
<1> USE DEF IInv, TypedInv, Shapes
<1>0. tasks'[t] # tasks[t]
  OBVIOUS
<1>1. ASSUME UNCHANGED storeVars PROVE FALSE
  BY <1>0, <1>1 DEF storeVars
<1>2. ASSUME NEW u \in Tasks, OneTask(u), tasks'[u].status # "in_progress" \/ tasks[u].status = "in_progress" PROVE FALSE
  <2>1. u = t
    BY <1>0, <1>2, OneTaskTypes
  <2> QED  BY <1>2, <2>1
<1>3. ASSUME NEW q \in Calls, Execute(q) \/ Refuse(q) \/ PrepareCall(q) PROVE FALSE
  BY <1>1, <1>3 DEF Execute, Refuse, PrepareCall, storeVars
<1>4. ASSUME NEW q \in Calls, Commit(q) PROVE FALSE
  BY <1>0, <1>4 DEF Commit, AbsentTask
<1>5. ASSUME NEW u \in Tasks, ForceFail(u) PROVE FALSE
  <2>1. UNCHANGED storeVars \/ (OneTask(u) /\ tasks'[u].status \in {tasks[u].status, "failed"})
    BY <1>5, CancelIsOneTask DEF ForceFail
  <2>2. tasks'[u].status # "in_progress" \/ tasks[u].status = "in_progress" \/ UNCHANGED storeVars
    BY <2>1
  <2> QED  BY <1>1, <1>2, <2>1, <2>2
<1>6. ASSUME NEW u \in Tasks, Retry(u) \/ ResumeRetries(u) PROVE FALSE
  <2>1. UNCHANGED storeVars \/ (OneTask(u) /\ tasks'[u].status = "pending")
    BY <1>6, RetryIsOneTask DEF Retry, ResumeRetries
  <2> QED  BY <1>1, <1>2, <2>1
<1>7. ASSUME NEW u \in Tasks, Work(u) PROVE FALSE
  <2>1. PICK outcome \in TerminalStatus : tasks' = [tasks EXCEPT ![u].status = outcome]
    BY <1>7 DEF Work, SetTaskStatus
  <2>2. tasks'[t] = tasks[t] \/ tasks'[t].status = outcome
    BY <2>1 DEF StoreTypeOK, TaskRow
  <2> QED  BY <1>0, <2>2 DEF TerminalStatus
<1>8. ASSUME AbortCommits PROVE FALSE
  <2>1. PICK e \in Admitted : /\ \A u \in Tasks : u \notin Of(e) => tasks'[u] = tasks[u]
                              /\ \A u \in Of(e) : tasks'[u].status \in TerminalStatus
    BY <1>1, <1>8, AbortRows
  <2> QED  BY <1>0, <2>1 DEF TerminalStatus
<1>9. ASSUME NEW u \in Tasks, Dispatch(u)
      PROVE  At("dispatch") /\ t \in tick.ready /\ tick.snap[t].revision = tasks[t].revision /\ UNCHANGED mission
  <2>1. RunsLeft => NewRun \in Runs
    BY DEF RunsLeft, NewRun
  <2>2. Claim(u, RefOf(tick.snap[u]), NewRun) /\ NewRun \in Runs
    BY <1>1, <1>9, <2>1 DEF Dispatch
  <2>3. OneTask(u) /\ RefOf(tasks[u]) = RefOf(tick.snap[u])
    BY <2>2, ClaimIsOneTask
  <2>4. u = t
    BY <1>0, <2>3, OneTaskTypes
  <2> QED  BY <1>9, <2>3, <2>4 DEF Dispatch, RefOf
<1>10. ASSUME Ticks, \A u \in Tasks : ~ForceFail(u) /\ ~Dispatch(u) PROVE FALSE
  BY <1>1, <1>10 DEF Ticks, TickLists, Scan, Scanning, PauseReads, PauseWrites, Dispatched, CleanupSkips, CleanupReads,
                     Finalize, ForgetSaves, ForgetAssigns, TickEnds, Restart, storeVars
<1>11. ASSUME People, \A u \in Tasks : ~Work(u) /\ ~Retry(u) /\ ~ResumeRetries(u), ~AbortCommits PROVE FALSE
  BY <1>1, <1>11 DEF People, Elapse, Release, UnpauseReads, UnpauseWrites, AbortCaptures, ResumeCaptures,
                     ResumeActivates, Crash, storeVars
<1> QED  BY <1>3, <1>4, <1>5, <1>6, <1>7, <1>8, <1>9, <1>10, <1>11, ThreeParts

\* How a Mission comes to be completed, and how it comes to be cancelled.
LEMMA Completes ==
  ASSUME IInv, Next, mission'.status = "completed", mission.status # "completed"
  PROVE  /\ At("finalizing") /\ UNCHANGED <<tasks, receipts>> /\ mission'.executionCount = mission.executionCount
         /\ IsCurrent(tick.at[1])
         /\ \A t \in Of(tick.at[1]) : tick.snap[t].status = "done"
<1> USE DEF IInv, TypedInv
<1>0. /\ mission' # mission
      /\ \A status : Marks(status) => status = "completed"
  BY DEF Marks, Shapes
<1>1. ASSUME NEW q \in Calls, Execute(q) \/ Commit(q) \/ Refuse(q) \/ PrepareCall(q) PROVE FALSE
  BY <1>0, <1>1 DEF Execute, Commit, Refuse, PrepareCall
<1>2. ASSUME People PROVE FALSE
  <2>1. ~AbortCommits
    BY <1>0 DEF AbortCommits
  <2> QED  BY <1>0, <1>2, <2>1 DEF People, Work, Retry, ResumeRetries, Elapse, Release, UnpauseReads, UnpauseWrites,
               AbortCaptures, ResumeCaptures, ResumeActivates, Crash
<1>3. CASE Ticks
  <2>1. Finalize
    BY <1>0, <1>3 DEF Ticks, TickLists, Scan, Scanning, ForceFail, Dispatch, PauseReads, PauseWrites,
               Dispatched, CleanupSkips, CleanupReads, ForgetSaves, ForgetAssigns, TickEnds, Restart
  <2> DEFINE e == tick.at[1]
             allDone == \A t \in Of(e) : tick.snap[t].status = "done"
  <2>2. /\ At("finalizing") /\ UNCHANGED <<tasks, receipts>> /\ CanFinalize(e)
        /\ \E passed \in {FALSE, allDone} : Marks(Final(receipts[e].origin, passed))
    BY <1>0, <2>1 DEF Finalize, storeVars
  <2>3. PICK passed \in {FALSE, allDone} : Marks(Final(receipts[e].origin, passed))
    BY <2>2
  <2>4. \A o : Final(o, FALSE) # "completed"
    BY DEF Final
  <2>5. allDone
    BY <1>0, <2>3, <2>4
  <2>6. mission'.executionCount = mission.executionCount
    BY <2>3 DEF Marks, Shapes
  <2> QED  BY <2>2, <2>5, <2>6 DEF CanFinalize
<1> QED  BY <1>1, <1>2, <1>3, ThreeParts

\* Only abortMissionExecution cancels.
LEMMA Cancels ==
  ASSUME IInv, Next, mission'.status = "cancelled", mission.status # "cancelled"
  PROVE  AbortCommits /\ ~UNCHANGED mission
<1> USE DEF IInv, TypedInv
<1>0. /\ mission' # mission
      /\ \A status : Marks(status) => status = "cancelled"
  BY DEF Marks, Shapes
<1>1. ASSUME NEW q \in Calls, Execute(q) \/ Commit(q) \/ Refuse(q) \/ PrepareCall(q) PROVE FALSE
  BY <1>0, <1>1 DEF Execute, Commit, Refuse, PrepareCall
<1>2. ASSUME People PROVE AbortCommits
  BY <1>0, <1>2 DEF People, Work, Retry, ResumeRetries, Elapse, Release, UnpauseReads, UnpauseWrites,
               AbortCaptures, ResumeCaptures, ResumeActivates, Crash
<1>3. ASSUME Ticks PROVE FALSE
  <2>1. Finalize
    BY <1>0, <1>3 DEF Ticks, TickLists, Scan, Scanning, ForceFail, Dispatch, PauseReads, PauseWrites,
               Dispatched, CleanupSkips, CleanupReads, ForgetSaves, ForgetAssigns, TickEnds, Restart
  <2>2. \E o, passed : Marks(Final(o, passed))
    BY <1>0, <2>1 DEF Finalize
  <2>3. \A o, passed : Final(o, passed) # "cancelled"
    BY DEF Final
  <2> QED  BY <1>0, <2>2, <2>3
<1> QED  BY <1>0, <1>1, <1>2, <1>3, ThreeParts

\* Without a new execution the latest one stays the latest.
LEMMA SameCurrent ==
  ASSUME IInv, Next, mission'.status \in {"completed", "cancelled"}
  PROVE  UNCHANGED receipts /\ mission'.executionCount = mission.executionCount /\ Admitted' = Admitted
         /\ \A e : IsCurrent(e)' <=> IsCurrent(e)
<1>1. ~\E q \in Calls : Commit(q)
  BY DEF Commit
<1>2. UNCHANGED receipts /\ mission'.executionCount = mission.executionCount
  BY <1>1, CountsFrame
<1>3. Admitted' = Admitted
  BY <1>2 DEF Admitted
<1> QED  BY <1>2, <1>3 DEF IsCurrent

\* Settlement over an old listing tells the truth, and what is done stays done.
LEMMA CompletedKept == ASSUME IInv, Next PROVE CompletedMeansDone'
<1> USE DEF IInv, TypedInv
<1> SUFFICES ASSUME mission'.status = "completed", NEW e \in Calls, IsCurrent(e)', NEW t \in Of(e)
             PROVE  tasks'[t].status = "done"
  BY DEF CompletedMeansDone, Of
<1>1. IsCurrent(e) /\ t \in Tasks /\ t[1] = e /\ e \in Admitted
  BY SameCurrent, TaskParts DEF IsCurrent
<1>2. CASE mission.status = "completed"
  <2>1. tasks[t].status = "done"
    BY <1>1, <1>2 DEF CompletedMeansDone
  <2> QED  BY <1>1, <2>1, RowsAgeAlways DEF RowsAge
<1>3. CASE mission.status # "completed"
  <2>1. /\ UNCHANGED tasks /\ IsCurrent(tick.at[1])
        /\ \A u \in Of(tick.at[1]) : tick.snap[u].status = "done"
    BY <1>3, Completes
  <2>2. tick.at[1] = e
    BY <1>1, <2>1, OneIsCurrent
  <2> QED  BY <1>1, <2>1, <2>2 DEF SnapAge
<1> QED  BY <1>2, <1>3

\* No claim of an old listing starts work for a cancelled Mission.
LEMMA CancelledKept == ASSUME IInv, Next PROVE CancelledIsIdle'
<1> USE DEF IInv, TypedInv
<1> SUFFICES ASSUME mission'.status = "cancelled", NEW e \in Calls, IsCurrent(e)', NEW t \in Of(e),
                    tasks'[t].status = "in_progress"
             PROVE  FALSE
  BY DEF CancelledIsIdle, Of
<1>1. IsCurrent(e) /\ t \in Tasks /\ t[1] = e
  BY SameCurrent, TaskParts
<1>2. CASE mission.status = "cancelled"
  <2>1. tasks[t].status # "in_progress"
    BY <1>1, <1>2 DEF CancelledIsIdle
  <2>2. t \in tick.ready /\ tick.snap[t].revision = tasks[t].revision
    BY <1>1, <2>1, WorkStarts
  <2>3. tick.snap[t].revision < tasks[t].revision
    BY <1>1, <1>2, <2>2 DEF Outdated, Selected
  <2>4. tasks[t].revision \in Nat
    BY <1>1, MaxRevisionAssumption DEF Shapes, StoreTypeOK, TaskRow
  <2> QED  BY <2>2, <2>3, <2>4
<1>3. CASE mission.status # "cancelled"
  <2>1. AbortCommits /\ ~UNCHANGED mission
    BY <1>3, Cancels
  <2>2. PICK f \in Admitted :
          /\ \A u \in Of(f) : tasks'[u].status \in TerminalStatus
          /\ IF IsCurrent(f) /\ mission.status \in Cancellable THEN Marks("cancelled") ELSE UNCHANGED mission
    BY <2>1, AbortRows
  <2>3. IsCurrent(f)
    BY <2>1, <2>2
  <2>4. f = e
    BY <1>1, <2>3, OneIsCurrent
  <2> QED  BY <2>2, <2>4 DEF TerminalStatus
<1> QED  BY <1>2, <1>3

\* While a Mission is cancelled a tick selects nothing more.
LEMMA NothingSelected ==
  ASSUME IInv, Next, mission.status = "cancelled", mission'.status = "cancelled", NEW t \in Selected'
  PROVE  t \in Selected /\ tick'.snap = tick.snap
<1> USE DEF IInv, TypedInv
<1>0. tick \in Tick /\ TickShape'
  BY TickShapeKept DEF Shapes
<1>1. CASE UNCHANGED tick
  BY <1>1 DEF Selected
<1>2. ASSUME tick'.pc \notin Pausing, tick'.ready \subseteq Selected, tick'.snap = tick.snap
      PROVE  t \in Selected /\ tick'.snap = tick.snap
  BY <1>2 DEF Selected
<1>3. ASSUME tick'.pc \notin Pausing, tick'.ready = {} PROVE FALSE
  BY <1>3 DEF Selected
<1>4. ASSUME tick'.pc \in Cleaning \cup {"idle", "down"} PROVE FALSE
  <2>1. tick'.ready = {} /\ tick'.pc \notin Pausing
    BY <1>0, <1>4 DEF TickShape, Cleaning, Pausing
  <2> QED  BY <1>3, <2>1
<1>5. ASSUME TickLists PROVE FALSE
  <2>1. tick'.pc \in {"cleanup", "dispatch", "scan"} /\ tick'.ready = {}
    BY <1>5 DEF TickLists, Between
  <2> QED  BY <1>3, <2>1 DEF Pausing
<1>6. ASSUME NEW u \in Tasks, Scan(u) PROVE t \in Selected /\ tick'.snap = tick.snap
  <2>1. Judged(u, FALSE, gating')
    BY <1>6 DEF Scan, ScanBarred, ScanOpen, ScanReaches, ScanHeld, Barring
  <2>2. tick.todo \subseteq Tasks
    BY <1>6 DEF Scan, Scanning, At, TickShape
  <2>3. /\ tick'.snap = tick.snap /\ tick'.pc \in {"scan", "failing", "dispatch"}
        /\ tick'.ready \subseteq tick.ready \cup {u} /\ (u \in tick'.ready => u \in tick.ready)
    BY <1>0, <2>1, <2>2, JudgedTick
  <2> QED  BY <1>2, <2>3 DEF Selected, Pausing
<1>7. ASSUME PauseReads \/ PauseWrites PROVE t \in Selected /\ tick'.snap = tick.snap
  <2>1. PauseReads /\ Resumes
    BY <1>7 DEF PauseReads, PauseWrites, Marks, Shapes
  <2>2. tick.pc \in Pausing /\ tick.at \in Tasks /\ tick.todo \subseteq Tasks
    BY <2>1 DEF PauseReads, At, Pausing, TickShape
  <2>3. tick'.snap = tick.snap /\ tick'.pc \in {"scan", "failing", "dispatch"} /\ tick'.ready \subseteq tick.ready \cup {tick.at}
    BY <1>0, <2>1, <2>2, JudgedTick DEF Resumes
  <2> QED  BY <1>2, <2>2, <2>3 DEF Selected, Pausing
<1>8. ASSUME NEW u \in Tasks, ForceFail(u) \/ Dispatch(u) PROVE t \in Selected /\ tick'.snap = tick.snap
  <2>1. CASE tick' = Between
    <3>1. tick'.pc = "idle"
      BY <2>1 DEF Between
    <3> QED  BY <1>4, <3>1
  <2>2. CASE tick' # Between
    <3>1. tick'.snap = tick.snap /\ tick'.pc = tick.pc /\ tick'.ready \subseteq tick.ready /\ tick.pc \notin Pausing
      BY <1>0, <1>8, <2>2 DEF ForceFail, Dispatch, Tick, At, Pausing
    <3> QED  BY <1>2, <3>1 DEF Selected
  <2> QED  BY <2>1, <2>2
<1>9. ASSUME Dispatched PROVE FALSE
  <2>1. tick'.pc = "cleanup"
    BY <1>9 DEF Dispatched, Between
  <2> QED  BY <1>4, <2>1 DEF Cleaning
<1>10. ASSUME NEW e, tick' = Passes(e) PROVE FALSE
  <2>1. tick'.pc = "cleanup"
    BY <1>0, <1>10 DEF Passes, Tick
  <2> QED  BY <1>4, <2>1 DEF Cleaning
<1>11. ASSUME NEW e \in Calls, CleanupSkips(e) \/ CleanupReads(e) PROVE FALSE
  <2>1. CASE CleanupReads(e)
    <3>1. tick'.pc \in Cleaning
      BY <1>0, <2>1 DEF CleanupReads, Tick, Cleaning
    <3> QED  BY <1>4, <3>1
  <2> QED  BY <1>10, <1>11, <2>1 DEF CleanupSkips
<1>12. ASSUME Finalize \/ ForgetSaves \/ ForgetAssigns PROVE FALSE
  <2>1. tick'.pc \in Cleaning \/ \E e : tick' = Passes(e)
    BY <1>0, <1>12 DEF Finalize, ForgetSaves, ForgetAssigns, Goes, Tick, Cleaning
  <2> QED  BY <1>4, <1>10, <2>1
<1>13. ASSUME tick' = Between \/ tick' = Down PROVE FALSE
  <2>1. tick'.pc \in {"idle", "down"}
    BY <1>13 DEF Between, Down
  <2> QED  BY <1>4, <2>1
<1>14. ASSUME Ticks PROVE t \in Selected /\ tick'.snap = tick.snap
  BY <1>5, <1>6, <1>7, <1>8, <1>9, <1>11, <1>12, <1>13, <1>14 DEF Ticks, TickEnds, Restart
<1> QED  BY <1>1, <1>13, <1>14, ThreeParts, PeopleFrame, CallsFrame

\* A cancellation outdates whatever the tick had selected.
LEMMA OutdatedKept == ASSUME IInv, Next PROVE Outdated'
<1> USE DEF IInv, TypedInv
<1> SUFFICES ASSUME mission'.status = "cancelled", NEW t \in Selected', IsCurrent(t[1])'
             PROVE  tick'.snap[t].revision < tasks'[t].revision
  BY DEF Outdated
<1>1. IsCurrent(t[1]) /\ t[1] \in Admitted
  BY SameCurrent DEF IsCurrent
<1>2. t \in Tasks /\ tasks[t].revision \in Nat /\ tasks'[t].revision \in Nat
  <2>1. t \in Tasks
    BY TypedKept DEF Selected, TickShape, Shapes, Tick
  <2> QED  BY <2>1, StoreTypes, MaxRevisionAssumption DEF Shapes, StoreTypeOK, TaskRow
<1>3. tasks'[t].revision >= tasks[t].revision
  BY <1>1, <1>2, RowsAgeAlways DEF RowsAge
<1>4. CASE mission.status = "cancelled"
  <2>1. t \in Selected /\ tick'.snap = tick.snap
    BY <1>4, NothingSelected
  <2>2. tick.snap[t].revision < tasks[t].revision /\ tick.snap[t].revision \in Nat
    BY <1>1, <1>2, <1>4, <2>1, MaxRevisionAssumption DEF Outdated, Shapes, Tick, TaskRow
  <2> QED  BY <1>2, <1>3, <2>1, <2>2
<1>5. CASE mission.status # "cancelled"
  <2>1. AbortCommits /\ ~UNCHANGED mission
    BY <1>5, Cancels
  <2>2. UNCHANGED tick
    BY <2>1 DEF AbortCommits
  <2>3. PICK f \in Admitted :
          /\ \A u \in Of(f) : tasks[u].status \notin TerminalStatus => tasks'[u].revision = tasks[u].revision + 1
          /\ IF IsCurrent(f) /\ mission.status \in Cancellable THEN Marks("cancelled") ELSE UNCHANGED mission
    BY <2>1, AbortRows
  <2>4. f = t[1]
    BY <1>1, <2>1, <2>3, OneIsCurrent
  <2>5. t \in Of(f)
    BY <1>2, <2>4, TaskParts
  <2>6. tick.snap[t].status = "pending" /\ tick.snap[t].revision \in Nat
    BY <1>2, <2>2, MaxRevisionAssumption DEF Selected, TickShape, Shapes, Tick, TaskRow
  <2>7. CASE tasks[t].status \notin TerminalStatus
    <3>1. tasks'[t].revision = tasks[t].revision + 1
      BY <2>3, <2>5, <2>7, Zenon
    <3>2. tick.snap[t].revision <= tasks[t].revision
      BY <1>2 DEF SnapAge
    <3> QED  BY <1>2, <2>2, <2>6, <3>1, <3>2
  <2>8. CASE tasks[t].status \in TerminalStatus
    <3>1. tick.snap[t].revision <= tasks[t].revision /\ tick.snap[t].revision # tasks[t].revision
      BY <1>2, <2>6, <2>8 DEF SnapAge, TerminalStatus
    <3> QED  BY <1>2, <1>3, <2>2, <2>6, <3>1
  <2> QED  BY <2>7, <2>8
<1> QED  BY <1>4, <1>5

\* The strengthened invariant is inductive.
LEMMA IInvKept == ASSUME IInv, [Next]_vars PROVE IInv'
<1>1. CASE Next
  BY <1>1, TypedKept, AdmissionKept, SnapAgeKept, CompletedKept, CancelledKept, OutdatedKept DEF IInv
<1>2. CASE UNCHANGED vars
  <2>1. UNCHANGED <<tasks, runs, plan, mission, receipts, call, prepared, gating, saved, elapsed, cleaned, tick,
                    unpause, abort, resumption, asked, faults>>
    BY <1>2 DEF vars, storeVars, engineVars, peopleVars
  <2>2. Admitted' = Admitted /\ \A e : IsCurrent(e)' <=> IsCurrent(e)
    BY <2>1 DEF Admitted, IsCurrent
  <2>3. TypedInv'
    BY <2>1, <2>2 DEF IInv, TypedInv, Shapes, StoreTypeOK, TickShape, Rooted, Ungated, At
  <2>4. Admission' /\ SnapAge'
    BY <2>1, <2>2 DEF IInv, Admission, AdmittedOnce, SnapAge
  <2>5. CompletedMeansDone' /\ CancelledIsIdle' /\ Outdated'
    BY <2>1, <2>2 DEF IInv, CompletedMeansDone, CancelledIsIdle, Outdated, Selected
  <2> QED  BY <2>3, <2>4, <2>5 DEF IInv
<1> QED  BY <1>1, <1>2

\* It holds, as the invariant of the gates, before the first call.
LEMMA InitIInv == ASSUME Init PROVE IInv /\ GateInv
<1>1. Admitted = {}
  BY DEF Init, Admitted
<1>2. plan \in Plan
  BY MissionsAssumption DEF Init
<1>3. /\ NoSnap \in [Tasks -> TaskRow] /\ Between \in Tick /\ NoCall \in CallRecord /\ NoGating \in Gating
      /\ NoGates \in [Calls -> Gate] /\ NoGating.defined = {} /\ NoGating.gate = NoGates
      /\ \A t \in Tasks : NoSnap[t] = AbsentTask
  BY AbsentIsRow, ConstantShapes DEF NoGates, Gate, NoGating, NoSnap
<1>4. tick = Between /\ tick.pc = "idle" /\ tick.snap = NoSnap /\ tick.ready = {} /\ tick.next = NoGating
  BY DEF Init, Between
<1>5. Shapes
  <2>1. runs \in [Runs -> RunRow]
    BY MaxRevisionAssumption DEF Init, AbsentRun, RunRow, RunOutcome
  <2>2. mission \in [status : MissionStatus, executionCount : 0..MaxCalls]
    BY <1>2, MissionsAssumption DEF Init, Plan, MissionStatus
  <2>3. receipts \in [Calls -> [sequence : 0..MaxCalls, origin : Executable]]
    BY MissionsAssumption DEF Init, Executable
  <2>4. resumption \in Resumption
    BY DEF Init, Resumption
  <2>5. unpause \in [Calls -> {"idle", "reading", "writing"}] /\ call \in [Calls -> CallRecord]
    BY <1>3 DEF Init
  <2> QED  BY <1>2, <1>3, <1>4, <2>1, <2>2, <2>3, <2>4, <2>5 DEF Init, Shapes, StoreTypeOK
<1>6. TickShape
  BY <1>4 DEF TickShape, At, Cleaning, Settling, Pausing
<1>7. Rooted /\ Ungated
  BY <1>3, <1>4 DEF Init, Rooted, Ungated, NoAbort, NoCall
<1>8. Admission
  <2>1. AdmittedOnce
    BY <1>1, FS_EmptySet DEF Init, AdmittedOnce
  <2> QED  BY <1>1, <1>3, <1>4, <2>1 DEF Init, Admission, NoCall, AbsentTask
<1>9. SnapAge
  <2>1. tasks = NoSnap /\ AbsentTask.revision = 0 /\ AbsentTask.status = "absent"
    BY DEF Init, AbsentTask
  <2>2. \A t \in Tasks : tasks[t] = AbsentTask /\ tick.snap[t] = AbsentTask
    BY <1>3, <1>4, <2>1
  <2>3. ASSUME NEW t \in Tasks
        PROVE  tick.snap[t].revision <= tasks[t].revision /\ tick.snap[t].status = "absent"
    <3>1. tick.snap[t].revision = 0 /\ tasks[t].revision = 0 /\ tick.snap[t].status = "absent"
      BY <2>1, <2>2
    <3> QED  BY <3>1
  <2> QED  BY <2>3 DEF SnapAge
<1>10. CompletedMeansDone /\ CancelledIsIdle /\ Outdated
  BY <1>2 DEF Init, CompletedMeansDone, CancelledIsIdle, Outdated, Plan
<1>11. GateInv
  BY <1>3, <1>4 DEF Init, GateInv, At, Pausing
<1> QED  BY <1>5, <1>6, <1>7, <1>8, <1>9, <1>10, <1>11 DEF IInv, TypedInv

\* The strengthened invariant of admission, settlement and cancellation.
THEOREM Inductive == Spec => []IInv
<1>1. Init => IInv
  BY InitIInv
<1>2. IInv /\ [Next]_vars => IInv'
  BY IInvKept
<1> QED  BY <1>1, <1>2, PTL DEF Spec

\* Every row, receipt and gate keeps its type, and what the engine holds in
\* memory names executions that were admitted (executeMission to cleanup).
THEOREM MissionsTyped == Spec => []TypeOK
<1>1. IInv => TypeOK
  <2> USE DEF IInv, TypedInv
  <2>1. IInv => StoreTypeOK /\ mission \in [status : MissionStatus, executionCount : 0..MaxCalls]
        /\ receipts \in [Calls -> [sequence : 0..MaxCalls, origin : Executable]]
    BY DEF Shapes
  <2>2. IInv => \A q \in Calls : call[q].pc \in {"idle", "planned", "admitted", "over"}
    BY DEF Shapes, CallRecord
  <2>3. IInv => \A e \in Calls : {gating.gate[e], saved[e]} \subseteq {"none", "active", "lifted"}
    BY DEF Shapes, Gating, Gate
  <2>4. IInv => tick.ready \cup (IF At("scan") \/ At("failing") THEN tick.todo ELSE {}) \subseteq Tasks
    BY DEF TickShape, Shapes, Tick, At, Pausing
  <2> QED  BY <2>1, <2>2, <2>3, <2>4 DEF TypeOK, Rooted, Ungated
<1> QED  BY <1>1, Inductive, PTL

\* A key is executed once, a completed Mission was completed by the Tasks of its
\* latest execution, and a cancelled one has no agent at work for it, whatever
\* the tick had listed and whatever people asked meanwhile (commitMissionExecution,
\* finalizeMissionExecution, abortMissionExecution).
THEOREM MissionsSettled == Spec => []MissionInv
<1>1. IInv => AdmittedOnce /\ CompletedMeansDone /\ CancelledIsIdle
  BY DEF IInv, Admission
<1>2. IInv /\ TypeOK => MissionInv
  BY <1>1 DEF MissionInv
<1> QED  BY <1>2, Inductive, MissionsTyped, PTL

-----------------------------------------------------------------------------
(* Cancellation without checkpoints, and the gates.                        *)

\* Which steps end a cancellation.
LEMMA CancelStands ==
  ASSUME IInv, Next, mission.status = "cancelled", mission'.status # "cancelled", plan.gate # "checkpoint"
  PROVE  mission'.executionCount > mission.executionCount \/ resumption.pc = "retrying"
<1> USE DEF IInv, TypedInv
<1>0. mission' # mission /\ mission.executionCount \in Nat
  BY MissionsAssumption DEF Shapes
<1>1. ASSUME NEW q \in Calls, Execute(q) \/ Refuse(q) \/ PrepareCall(q) PROVE FALSE
  BY <1>0, <1>1 DEF Execute, Refuse, PrepareCall
<1>2. ASSUME NEW q \in Calls, Commit(q) PROVE mission'.executionCount > mission.executionCount
  BY <1>0, <1>2, CommitCounts
<1>3. ASSUME Ticks PROVE FALSE
  <2>1. ~PauseWrites
    BY DEF PauseWrites, At, TickShape, Pausing
  <2>2. ~Finalize
    BY <1>0 DEF Finalize, CanFinalize
  <2> QED  BY <1>0, <1>3, <2>1, <2>2 DEF Ticks, TickLists, Scan, Scanning, ForceFail, Dispatch, PauseReads,
               Dispatched, CleanupSkips, CleanupReads, ForgetSaves, ForgetAssigns, TickEnds, Restart
<1>4. ASSUME People PROVE resumption.pc = "retrying"
  <2>1. ~AbortCommits
    BY <1>0 DEF AbortCommits, Marks, Shapes
  <2>2. \A e \in Calls : ~UnpauseWrites(e)
    BY DEF UnpauseWrites, Ungated
  <2>3. ResumeActivates
    BY <1>0, <1>4, <2>1, <2>2 DEF People, Work, Retry, ResumeRetries, Elapse, Release, UnpauseReads,
               AbortCaptures, ResumeCaptures, Crash
  <2> QED  BY <2>3 DEF ResumeActivates
<1> QED  BY <1>1, <1>2, <1>3, <1>4, ThreeParts

\* What a gate waits for is among the dependencies of what it blocks.
GateOrder == \A b \in Blocks : After \subseteq DependsOn[b]

\* A Task behind the gate is not ready before the gate is lifted.
LEMMA GateStops ==
  ASSUME IInv, GateInv, GateOrder, plan.gate # "none", At("scan"), NEW t \in Tasks, t[2] \in Blocks,
         DependenciesDone(t)
  PROVE  Gated(t)
<1> USE DEF IInv, TypedInv
<1>1. t[1] \in Calls /\ {t[1]} \in SUBSET Calls
  BY TaskParts
<1>2. Recovered({t[1]}).defined = gating.defined \cup ({t[1]} \ prepared)
  BY <1>1, RecoveredIsGating
<1>3. t[1] \in prepared => t[1] \in gating.defined
  BY DEF GateInv, At
<1>4. \A a \in After : tick.snap[<<t[1], a>>].status \in TerminalStatus
  BY DEF GateOrder, DependenciesDone, TerminalStatus
<1> QED  BY <1>2, <1>3, <1>4 DEF Gated

\* Judging a Task keeps what is known of the gates.
LEMMA JudgedGates ==
  ASSUME IInv, GateInv, NEW t \in Tasks, NEW verdict, Judged(t, verdict, gating'), tick.todo \subseteq Tasks,
         UNCHANGED plan,
         \A e \in prepared' : e \in gating'.defined,
         \A e \in Calls : gating.gate[e] = "lifted" => gating'.gate[e] = "lifted",
         verdict /\ plan.gate # "none" /\ t[2] \in Blocks => gating'.gate[t[1]] = "lifted"
  PROVE  GateInv'
<1> USE DEF IInv, TypedInv
<1>1. /\ tick'.pc \in {"scan", "failing", "dispatch"}
      /\ tick'.pc = "failing" => \A e \in Calls : gating'.gate[e] # "active"
      /\ tick'.ready \subseteq tick.ready \cup {t}
      /\ t \in tick'.ready /\ t \notin tick.ready => verdict
  BY JudgedTick DEF Shapes
<1>2. tick.ready \subseteq Tasks /\ \A u \in tick.ready : u[1] \in Calls
  BY TaskParts DEF Shapes, Tick
<1>3. ASSUME plan.gate # "none", NEW u \in tick'.ready, u[2] \in Blocks PROVE gating'.gate[u[1]] = "lifted"
  BY <1>1, <1>2, <1>3 DEF GateInv
<1> QED  BY <1>1, <1>3 DEF GateInv, At, Pausing

\* Every step keeps what the engine believes of the gates.
LEMMA GateInvKept == ASSUME SharedState, GateOrder, IInv, GateInv, Next PROVE GateInv'
<1> USE DEF IInv, TypedInv
<1>0. /\ gating \in Gating /\ tick \in Tick /\ UNCHANGED plan /\ prepared \subseteq Calls
      /\ tick.pc \in Pausing => tick.at \in Tasks /\ tick.at[1] \in Calls
      /\ \A t \in tick.ready : t[1] \in Calls
  BY TaskParts, ThreeParts, TicksFrame, PeopleFrame, CallsFrame DEF Shapes, TickShape, Tick
<1>1. ASSUME UNCHANGED tick, \A e \in prepared' : e \in prepared \/ e \in gating'.defined,
             gating.defined \subseteq gating'.defined,
             \A e \in Calls : gating'.gate[e] \in {gating.gate[e], "lifted"}
      PROVE  GateInv'
  <2>1. \A e \in prepared' : e \in gating'.defined \/ (At("forgotten")' /\ tick'.at = <<e>>)
    BY <1>1 DEF GateInv, At
  <2>2. tick'.pc \in Pausing => gating'.gate[tick'.at[1]] # "none"
    BY <1>0, <1>1 DEF GateInv
  <2>3. At("failing")' => \A e \in Calls : gating'.gate[e] # "active"
    BY <1>1 DEF GateInv, At
  <2>4. plan'.gate # "none" => \A t \in tick'.ready : t[2] \in Blocks => gating'.gate[t[1]] = "lifted"
    BY <1>0, <1>1 DEF GateInv
  <2> QED  BY <2>1, <2>2, <2>3, <2>4 DEF GateInv
<1>2. ASSUME UNCHANGED <<tick, prepared, gating>> PROVE GateInv'
  BY <1>1, <1>2
<1>3. ASSUME UNCHANGED tick, NEW E \in SUBSET Calls, Prepares(E) PROVE GateInv'
  <2>1. Recovered(E).gate = gating.gate /\ Recovered(E).defined = gating.defined \cup (E \ prepared)
    BY RecoveredIsGating
  <2> QED  BY <1>1, <1>3, <2>1 DEF Prepares
<1>4. ASSUME NEW q \in Calls, Execute(q) \/ Commit(q) \/ Refuse(q) \/ PrepareCall(q) PROVE GateInv'
  <2>1. {q} \in SUBSET Calls
    OBVIOUS
  <2> QED  BY <1>2, <1>3, <1>4, <2>1 DEF Execute, Commit, Refuse, PrepareCall, engineVars
<1>5. ASSUME NEW e \in Calls, Release(e) PROVE GateInv'
  <2>1. /\ Recovered({e}) \in Gating /\ Recovered({e}).gate = gating.gate
        /\ Recovered({e}).defined = gating.defined \cup ({e} \ prepared)
    BY RecoveredIsGating
  <2>2. gating'.defined = Recovered({e}).defined /\ gating'.gate = [gating.gate EXCEPT ![e] = "lifted"]
    BY <1>5, <2>1 DEF Release, Gating
  <2> QED  BY <1>0, <1>1, <1>5, <2>1, <2>2 DEF Release, Gating
<1>6. CASE Crash
  <2>1. tick'.pc = "down" /\ tick'.ready = {} /\ prepared' = {}
    BY <1>6 DEF Crash, Down, Between
  <2> QED  BY <2>1 DEF GateInv, At, Pausing
<1>7. CASE People
  <2>1. ASSUME NEW t \in Tasks, ResumeRetries(t) PROVE GateInv'
    <3>1. {t[1]} \in SUBSET Calls
      BY TaskParts
    <3> QED  BY <1>3, <2>1, <3>1 DEF ResumeRetries
  <2>2. CASE ResumeActivates
    <3>1. resumption.waiting \in SUBSET Calls
      BY DEF Shapes, Resumption
    <3> QED  BY <1>3, <2>2, <3>1 DEF ResumeActivates
  <2>3. CASE ~ResumeActivates /\ ~Crash /\ (\A t \in Tasks : ~ResumeRetries(t)) /\ (\A e \in Calls : ~Release(e))
    <3>1. UNCHANGED <<tick, prepared, gating>>
      BY <1>7, <2>3 DEF People, Work, Retry, Elapse, UnpauseReads, UnpauseWrites, AbortCaptures, AbortCommits,
                     ResumeCaptures, engineVars
    <3> QED  BY <1>2, <3>1
  <2> QED  BY <1>5, <1>6, <2>1, <2>2, <2>3
<1>8. ASSUME NEW t \in Tasks, Scan(t) PROVE GateInv'
  <2>1. /\ t[1] \in Calls /\ At("scan") /\ tick.todo \subseteq Tasks /\ prepared' = prepared \cup {t[1]}
        /\ \A e \in prepared : e \in gating.defined
    BY <1>8, TaskParts DEF Scan, Scanning, At, TickShape, GateInv
  <2>2. /\ Recovered({t[1]}) \in Gating /\ Recovered({t[1]}).gate = gating.gate
        /\ Recovered({t[1]}).defined = gating.defined \cup ({t[1]} \ prepared)
    BY <2>1, RecoveredIsGating
  <2>3. \A x \in Gate : /\ [Recovered({t[1]}) EXCEPT !.gate[t[1]] = x].defined = Recovered({t[1]}).defined
                        /\ [Recovered({t[1]}) EXCEPT !.gate[t[1]] = x].gate = [gating.gate EXCEPT ![t[1]] = x]
    BY <2>2 DEF Gating
  <2>4. \A e \in prepared' : e \in Recovered({t[1]}).defined
    BY <2>1, <2>2
  <2>5. CASE ScanBarred(t)
    <3>1. Judged(t, FALSE, gating') /\ gating' = Recovered({t[1]})
      BY <2>5 DEF ScanBarred
    <3> QED  BY <1>0, <2>1, <2>2, <2>4, <3>1, JudgedGates
  <2>6. CASE ScanOpen(t)
    <3>1. Judged(t, DependenciesDone(t), gating') /\ gating' = Recovered({t[1]})
          /\ (~Gated(t) \/ gating.gate[t[1]] = "lifted")
      BY <2>6 DEF ScanOpen
    <3>2. DependenciesDone(t) /\ plan.gate # "none" /\ t[2] \in Blocks => gating'.gate[t[1]] = "lifted"
      BY <2>1, <2>2, <3>1, GateStops
    <3> QED  BY <1>0, <2>1, <2>2, <2>4, <3>1, <3>2, JudgedGates
  <2>7. CASE ScanReaches(t)
    <3>1. gating'.defined = Recovered({t[1]}).defined /\ gating'.gate = [gating.gate EXCEPT ![t[1]] = "active"]
          /\ gating.gate[t[1]] = "none"
      BY <2>3, <2>7 DEF ScanReaches, Gate
    <3>2. \A e \in Calls : gating.gate[e] = "lifted" => gating'.gate[e] = "lifted"
      BY <3>1
    <3>3. CASE Judged(t, FALSE, gating')
      BY <1>0, <2>1, <2>4, <3>1, <3>2, <3>3, JudgedGates
    <3>4. CASE tick' = [tick EXCEPT !.pc = "pausing", !.at = t]
      <4>1. tick'.pc = "pausing" /\ tick'.at = t /\ tick'.ready = tick.ready
        BY <1>0, <3>4 DEF Tick
      <4>2. gating'.gate[t[1]] = "active"
        BY <1>0, <2>1, <3>1 DEF Gating
      <4>3. plan.gate # "none" => \A u \in tick.ready : u[2] \in Blocks => gating'.gate[u[1]] = "lifted"
        BY <1>0, <3>2 DEF GateInv
      <4> QED  BY <1>0, <2>4, <3>1, <4>1, <4>2, <4>3 DEF GateInv, At
    <3> QED  BY <2>7, <3>3, <3>4 DEF ScanReaches
  <2>8. CASE ScanHeld(t)
    <3>1. CASE Expired(t[1])
      <4>1. Judged(t, DependenciesDone(t), gating') /\ gating'.defined = Recovered({t[1]}).defined
            /\ gating'.gate = [gating.gate EXCEPT ![t[1]] = "lifted"]
        BY <2>3, <2>8, <3>1 DEF ScanHeld, Gate
      <4>2. /\ gating'.gate[t[1]] = "lifted"
            /\ \A e \in Calls : gating.gate[e] = "lifted" => gating'.gate[e] = "lifted"
        BY <1>0, <2>1, <4>1 DEF Gating
      <4> QED  BY <1>0, <2>1, <2>4, <4>1, <4>2, JudgedGates
    <3>2. CASE ~Expired(t[1])
      <4>1. Judged(t, FALSE, gating') /\ gating' = Recovered({t[1]})
        BY <2>8, <3>2 DEF ScanHeld
      <4> QED  BY <1>0, <2>1, <2>2, <2>4, <4>1, JudgedGates
    <3> QED  BY <3>1, <3>2
  <2> QED  BY <1>8, <2>5, <2>6, <2>7, <2>8 DEF Scan
<1>9. CASE PauseReads \/ PauseWrites
  <2>1. /\ tick.pc \in Pausing /\ tick.at \in Tasks /\ tick.todo \subseteq Tasks /\ UNCHANGED <<prepared, gating>>
        /\ \A e \in prepared : e \in gating.defined
    BY <1>9 DEF PauseReads, PauseWrites, At, Pausing, TickShape, GateInv, engineVars
  <2>2. CASE Resumes
    <3>1. Judged(tick.at, gating.gate[tick.at[1]] # "active" /\ DependenciesDone(tick.at), gating')
      BY <2>1, <2>2 DEF Resumes
    <3>2. gating.gate[tick.at[1]] # "active" => gating'.gate[tick.at[1]] = "lifted"
      BY <1>0, <2>1 DEF GateInv, Gating, Gate
    <3> QED  BY <1>0, <2>1, <3>1, <3>2, JudgedGates
  <2>3. CASE Goes("paused")
    <3>1. tick'.pc = "paused" /\ tick'.at = tick.at /\ tick'.ready = tick.ready
      BY <1>0, <2>3 DEF Goes, Tick
    <3> QED  BY <1>0, <2>1, <3>1 DEF GateInv, At, Pausing
  <2> QED  BY <1>9, <2>2, <2>3 DEF PauseReads, PauseWrites
<1>10. ASSUME tick.pc # "forgotten", UNCHANGED <<prepared, gating>>, tick'.pc \notin Pausing,
              tick'.pc = "failing" => tick.pc = "failing", tick'.ready \subseteq tick.ready
       PROVE  GateInv'
  BY <1>0, <1>10 DEF GateInv, At
<1>11. \A e : Passes(e).pc = "cleanup" /\ Passes(e).ready = tick.ready
  BY <1>0 DEF Passes, Tick
<1>12. Between.pc = "idle" /\ Between.ready = {}
  BY DEF Between
<1>13. CASE TickLists \/ Dispatched
  <2>1. tick'.pc \in {"cleanup", "dispatch", "scan"} /\ tick'.ready = {}
    BY <1>13 DEF TickLists, Dispatched, Between
  <2> QED  BY <1>10, <1>13, <2>1 DEF TickLists, Dispatched, At, Pausing, engineVars
<1>14. ASSUME NEW t \in Tasks, ForceFail(t) \/ Dispatch(t) PROVE GateInv'
  <2>1. tick' = Between \/ (tick'.pc = tick.pc /\ tick'.ready \subseteq tick.ready)
    BY <1>0, <1>14 DEF ForceFail, Dispatch, Tick
  <2>2. tick.pc \in {"failing", "dispatch"} /\ UNCHANGED <<prepared, gating>>
    BY <1>14 DEF ForceFail, Dispatch, At, engineVars
  <2> QED  BY <1>10, <1>12, <2>1, <2>2 DEF Pausing
<1>15. ASSUME NEW e \in Calls, CleanupSkips(e) PROVE GateInv'
  BY <1>10, <1>11, <1>15 DEF CleanupSkips, At, Pausing
<1>16. ASSUME NEW e \in Calls, CleanupReads(e) PROVE GateInv'
  <2>1. Recovered({e}).defined = gating.defined \cup ({e} \ prepared)
    BY RecoveredIsGating
  <2>2. tick.pc = "cleanup" /\ tick.ready = {} /\ tick'.ready = tick.ready /\ tick'.pc \in {"finalizing", "forgetting"}
    BY <1>0, <1>16 DEF CleanupReads, At, TickShape, Cleaning, Tick
  <2>3. \A f \in prepared' : f \in gating'.defined
    BY <1>16, <2>1, <2>2 DEF CleanupReads, Prepares, GateInv, At
  <2> QED  BY <2>2, <2>3 DEF GateInv, At, Pausing
<1>17. CASE Finalize
  <2>1. tick.pc = "finalizing" /\ UNCHANGED <<prepared, gating>>
    BY <1>17 DEF Finalize, At, engineVars
  <2>2. tick'.pc \in {"forgetting", "cleanup"} /\ tick'.ready = tick.ready
    BY <1>0, <1>11, <1>17 DEF Finalize, Goes, Tick
  <2> QED  BY <1>10, <2>1, <2>2 DEF Pausing
<1>18. CASE ForgetSaves
  <2>1. PICK e \in Admitted : tick.at = <<e>>
    BY <1>18 DEF ForgetSaves, At, TickShape, Settling
  <2>2. tick'.pc = "forgotten" /\ tick'.at = <<e>> /\ tick'.ready = tick.ready /\ tick.ready = {} /\ tick.pc = "forgetting"
    BY <1>0, <1>18, <2>1 DEF ForgetSaves, At, TickShape, Cleaning, Tick
  <2>3. gating'.defined = gating.defined \ {e} /\ prepared' = prepared
    BY <1>18, <2>1 DEF ForgetSaves, Without
  <2>4. \A f \in prepared : f \in gating.defined
    BY <2>2 DEF GateInv, At
  <2> QED  BY <2>2, <2>3, <2>4 DEF GateInv, At, Pausing
<1>19. CASE ForgetAssigns
  <2>1. PICK e \in Admitted : tick.at = <<e>>
    BY <1>19 DEF ForgetAssigns, At, TickShape, Settling
  <2>2. tick'.pc = "cleanup" /\ tick'.ready = {} /\ gating' = gating /\ prepared' = prepared \ {e}
    BY <1>11, <1>19, <2>1 DEF ForgetAssigns, At, TickShape, Cleaning
  <2>3. \A f \in prepared' : f \in gating'.defined
    BY <2>1, <2>2 DEF GateInv
  <2> QED  BY <2>2, <2>3 DEF GateInv, At, Pausing
<1>20. CASE TickEnds
  BY <1>10, <1>12, <1>20 DEF TickEnds, At, Pausing, engineVars
<1>21. CASE Restart
  BY <1>12, <1>21 DEF Restart, GateInv, At, Pausing
<1>22. CASE Ticks
  BY <1>8, <1>9, <1>13, <1>14, <1>15, <1>16, <1>17, <1>18, <1>19, <1>20, <1>21, <1>22 DEF Ticks
<1> QED  BY <1>4, <1>7, <1>22, ThreeParts

\* Nothing but a new execution or a resumption ends a cancellation of a Mission
\* without checkpoints (settlement and unpausing after abortMissionExecution).
THEOREM CancellationIsFinal == Spec => CancelIsFinal
<1>1. IInv /\ [Next]_vars =>
        [mission.status = "cancelled" /\ mission'.status # "cancelled" /\ plan.gate # "checkpoint" =>
           mission'.executionCount > mission.executionCount \/ resumption.pc = "retrying"]_vars
  BY CancelStands
<1> QED  BY <1>1, Inductive, PTL DEF Spec, CancelIsFinal

\* Where the store hands the engine the state that it edits and a gate waits for
\* dependencies of what it blocks, no gated Task starts before its gate is lifted
\* and none is failed as deadlocked while it is held (MissionGating, handleDeadlock).
THEOREM GatesHold == SharedState /\ GateOrder /\ Spec => HeldUntilReleased
<1> SUFFICES ASSUME SharedState, GateOrder PROVE Spec => HeldUntilReleased
  OBVIOUS
<1>1. Init => GateInv
  BY InitIInv
<1>2. IInv /\ GateInv /\ [Next]_vars => GateInv'
  <2>1. UNCHANGED vars => UNCHANGED <<prepared, gating, plan, tick>>
    BY DEF vars, engineVars
  <2>2. GateInv /\ UNCHANGED vars => GateInv'
    BY <2>1 DEF GateInv, At
  <2> QED  BY <2>2, GateInvKept
<1>3. IInv /\ GateInv /\ [Next]_vars =>
        [\A t \in Tasks :
           plan.gate # "none" /\ t[2] \in Blocks /\ tasks[t].status = "pending" =>
             /\ tasks'[t].status = "in_progress" => gating.gate[t[1]] = "lifted"
             /\ At("failing") /\ tick' # tick /\ tasks'[t].status = "failed" => gating.gate[t[1]] # "active"]_vars
  <2>1. ASSUME IInv, GateInv, Next, NEW t \in Tasks, plan.gate # "none", t[2] \in Blocks, tasks[t].status = "pending"
        PROVE  /\ tasks'[t].status = "in_progress" => gating.gate[t[1]] = "lifted"
               /\ At("failing") => gating.gate[t[1]] # "active"
    <3>1. tasks'[t].status = "in_progress" => t \in tick.ready
      BY <2>1, WorkStarts
    <3> QED  BY <2>1, <3>1, TaskParts DEF GateInv
  <2> QED  BY <2>1
<1> QED  BY <1>1, <1>2, <1>3, Inductive, PTL DEF Spec, HeldUntilReleased

=============================================================================
