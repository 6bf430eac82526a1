------------------------------- MODULE Missions -------------------------------
(***************************************************************************)
(* A Mission and its executions                                            *)
(* (packages/core/src/mission-executor.ts, mission-execution.ts,           *)
(* mission-gating.ts, mission-cancellation.ts, and the mission part of the *)
(* tick in orchestrator-engine.ts, over the task store).                   *)
(*                                                                         *)
(* A call of executeMission that is admitted leaves a receipt and the      *)
(* Tasks of one execution, named after the call here.  The engine's tick   *)
(* dispatches these Tasks, holds some of them at a gate (a checkpoint that *)
(* a person releases, or a delay) and settles the Mission when all have    *)
(* ended.  Calls of the API interleave with the tick at every await.       *)
(***************************************************************************)
EXTENDS TaskStore, FiniteSets

CONSTANTS
  MaxCalls,     \* bound: calls of executeMission
  Titles,       \* the Tasks of the plan
  DependsOn,    \* dependsOn of each
  After, Blocks,  \* afterTasks and blocksTasks of the gate
  Plans,        \* how the Mission starts and what its document says
  SharedState,  \* removeGroup edits the engine's state object in place
  MaxAsked,     \* bound: retries, cancellations and resumptions
  MaxFaults     \* bound: crashes

\* The status before the first execution, the kind of gate, and whether the calls
\* of executeMission carry an idempotency key (the same) or none.
\* Calls are numbered as they come; an admitted one names its execution.
Calls == 1..MaxCalls

Plan == [origin : {"draft", "scheduled", "recurring"}, gate : {"none", "checkpoint", "delay"},
         keyed : BOOLEAN]

ASSUME MissionsAssumption ==
  /\ MaxCalls \in Nat
  /\ Tasks = Calls \X Titles
  /\ DependsOn \in [Titles -> SUBSET Titles]
  /\ After \subseteq Titles /\ Blocks \subseteq Titles
  /\ Plans \subseteq Plan
  /\ SharedState \in BOOLEAN
  /\ MaxAsked \in Nat /\ MaxFaults \in Nat

VARIABLES
  plan,       \* the Mission's Plan
  mission,    \* the Mission row
  receipts,   \* the receipt of each admitted call
  call,       \* how far each call has come, and the Mission it has captured
  prepared,   \* preparedExecutions
  gating,     \* the state of MissionGating: definitions and gates
  saved,      \* the gates in the checkpoint and delay stores
  elapsed,    \* delays whose time is over
  cleaned,    \* cleanedGroups
  tick,       \* the engine's tick
  unpause,    \* resumeCheckpoint, after it has saved
  abort,      \* a call of abortMission and the rows it has captured
  resumption, \* a call of resumeMission
  asked, faults

engineVars == <<prepared, gating, saved, elapsed, cleaned>>
peopleVars == <<unpause, abort, resumption>>
vars == <<storeVars, plan, mission, receipts, call, engineVars, tick, peopleVars, asked, faults>>

MissionStatus == {"draft", "scheduled", "recurring", "active", "paused", "completed", "failed", "cancelled"}
Executable == {"draft", "scheduled", "recurring", "failed", "cancelled"}

Of(e) == {e} \X Titles
Admitted == {e \in Calls : receipts[e].sequence > 0}
AllTerminal(rows, e) == \A t \in Of(e) : rows[t].status \in TerminalStatus

IsCurrent(e) == e \in Admitted /\ receipts[e].sequence = mission.executionCount

NoSnap == [t \in Tasks |-> AbsentTask]
NoGates == [e \in Calls |-> "none"]
NoGating == [defined |-> {}, gate |-> NoGates]
Between == [pc |-> "idle", snap |-> NoSnap, todo |-> {}, ready |-> {}, at |-> << >>, next |-> NoGating]
Down == [Between EXCEPT !.pc = "down"]
Captured == [status |-> "draft", executionCount |-> 0]
NoCall == [pc |-> "idle", expected |-> Captured]
NoAbort == [pc |-> "idle", execution |-> << >>, snap |-> NoSnap]

Init ==
  /\ plan \in Plans
  /\ tasks = NoSnap
  /\ runs = [r \in Runs |-> AbsentRun]
  /\ mission = [status |-> plan.origin, executionCount |-> 0]
  /\ receipts = [q \in Calls |-> [sequence |-> 0, origin |-> "draft"]]
  /\ call = [q \in Calls |-> NoCall]
  /\ prepared = {} /\ gating = NoGating /\ saved = NoGates /\ elapsed = {} /\ cleaned = {}
  /\ tick = Between
  /\ unpause = [e \in Calls |-> "idle"]
  /\ abort = NoAbort
  /\ resumption = [pc |-> "idle", failed |-> FALSE, todo |-> {}, waiting |-> {}]
  /\ asked = 0 /\ faults = 0

At(pc) == tick.pc = pc
Up == ~At("down")
Goes(pc) == tick' = [tick EXCEPT !.pc = pc]

\* updateMission writes a status, whatever the row says by then.
Marks(status) == mission' = [mission EXCEPT !.status = status]

Ask == asked < MaxAsked /\ asked' = asked + 1

\* prepareTaskExecution: the definitions come from the receipt, once.
Recovered(E) == [gating EXCEPT !.defined = @ \cup (E \ prepared)]
Prepares(E) == prepared' = prepared \cup E /\ gating' = Recovered(E)

-----------------------------------------------------------------------------
(* executeMission: look up the key, capture the Mission and plan, commit   *)

Accepted(q) == plan.keyed /\ Admitted # {}

CallGoes(q, pc) == call' = [call EXCEPT ![q] = [NoCall EXCEPT !.pc = pc]]

Execute(q) ==
  /\ Up
  /\ call[q].pc = "idle" /\ \A p \in 1..q - 1 : call[p].pc # "idle"
  /\ IF ~Accepted(q) /\ mission.status \in Executable
       THEN call' = [call EXCEPT ![q] = [pc |-> "planned", expected |-> mission]]
       ELSE CallGoes(q, "over")
  /\ UNCHANGED <<storeVars, plan, mission, receipts, engineVars, tick, peopleVars, asked, faults>>

TitlesFree == \A t \in Tasks : tasks[t].status \in Missing \cup TerminalStatus

CanCommit(q) == ~Accepted(q) /\ call[q].expected = mission /\ TitlesFree

\* One transaction: receipt, Tasks, activation and counter.
Commit(q) ==
  /\ call[q].pc = "planned"
  /\ CanCommit(q)
  /\ receipts' = [receipts EXCEPT ![q] =
                    [sequence |-> mission.executionCount + 1, origin |-> mission.status]]
  /\ mission' = [status |-> "active", executionCount |-> mission.executionCount + 1]
  /\ tasks' = [t \in Tasks |-> IF t \in Of(q) THEN [AbsentTask EXCEPT !.status = "pending"] ELSE tasks[t]]
  /\ CallGoes(q, "admitted")
  /\ UNCHANGED <<runs, plan, engineVars, tick, peopleVars, asked, faults>>

Refuse(q) ==
  /\ call[q].pc = "planned"
  /\ ~CanCommit(q)
  /\ CallGoes(q, "over")
  /\ UNCHANGED <<storeVars, plan, mission, receipts, engineVars, tick, peopleVars, asked, faults>>

PrepareCall(q) ==
  /\ call[q].pc = "admitted"
  /\ Prepares({q})
  /\ CallGoes(q, "over")
  /\ UNCHANGED <<storeVars, plan, mission, receipts, saved, elapsed, cleaned, tick, peopleVars, asked, faults>>

-----------------------------------------------------------------------------
(* The tick: list, judge each pending Task, dispatch the ready ones        *)

Queued(snap) == {t \in Tasks : snap[t].status = "pending"}

TickLists ==
  /\ At("idle")
  /\ Admitted # {}
  /\ tick' = IF \A e \in Admitted : AllTerminal(tasks, e)
               THEN [Between EXCEPT !.pc = "cleanup", !.snap = tasks, !.todo = Admitted]
               ELSE IF Queued(tasks) = {}
                 THEN [Between EXCEPT !.pc = "dispatch"]
                 ELSE [Between EXCEPT !.pc = "scan", !.snap = tasks, !.todo = Queued(tasks)]
  /\ UNCHANGED <<storeVars, plan, mission, receipts, call, engineVars, peopleVars, asked, faults>>

DependenciesDone(t) == \A d \in DependsOn[t[2]] : tick.snap[<<t[1], d>>].status = "done"

\* Nothing is ready, nothing works, and nothing waits for a person or a timer.
Deadlocked(ready, g) ==
  /\ ready = {}
  /\ \A t \in Tasks : tick.snap[t].status \notin {"assigned", "in_progress", "review"}
  /\ \A e \in Calls : g.gate[e] # "active"

\* The verdict on t; after the last one the tick dispatches or finds a deadlock.
Judged(t, verdict, g) ==
  LET ready == IF verdict THEN tick.ready \cup {t} ELSE tick.ready
      rest == tick.todo \ {t}
  IN tick' = IF rest # {} THEN [tick EXCEPT !.pc = "scan", !.todo = rest, !.ready = ready, !.at = << >>]
             ELSE IF Deadlocked(ready, g)
               THEN [tick EXCEPT !.pc = "failing", !.todo = Queued(tick.snap), !.at = << >>]
               ELSE [tick EXCEPT !.pc = "dispatch", !.todo = {}, !.ready = ready, !.at = << >>]

Barring == {"cancelled", "completed", "paused"}

\* Mutant: gates are looked up before their definitions are recovered.
Gated_Recovered(t) ==
  /\ plan.gate # "none" /\ t[1] \in gating.defined
  /\ t[2] \in Blocks
  /\ \A a \in After : tick.snap[<<t[1], a>>].status \in TerminalStatus

\* The gate of t's execution is defined, blocks t and has been reached.
Gated(t) ==
  /\ plan.gate # "none" /\ t[1] \in Recovered({t[1]}).defined
  /\ t[2] \in Blocks
  /\ \A a \in After : tick.snap[<<t[1], a>>].status \in TerminalStatus

Scanning(t) ==
  /\ At("scan") /\ t \in tick.todo
  /\ prepared' = prepared \cup {t[1]}
  /\ UNCHANGED <<storeVars, plan, mission, receipts, call, cleaned, peopleVars, asked, faults>>

ScanBarred(t) ==
  /\ mission.status \in Barring
  /\ gating' = Recovered({t[1]})
  /\ Judged(t, FALSE, gating')
  /\ UNCHANGED <<saved, elapsed>>

ScanOpen(t) ==
  /\ mission.status \notin Barring
  /\ ~Gated(t) \/ gating.gate[t[1]] = "lifted"
  /\ gating' = Recovered({t[1]})
  /\ Judged(t, DependenciesDone(t), gating')
  /\ UNCHANGED <<saved, elapsed>>

\* The gate becomes active and is saved; a checkpoint then pauses the Mission.
ScanReaches(t) ==
  /\ mission.status \notin Barring
  /\ Gated(t) /\ gating.gate[t[1]] = "none"
  /\ gating' = [Recovered({t[1]}) EXCEPT !.gate[t[1]] = "active"]
  /\ saved' = gating'.gate
  /\ elapsed' = elapsed \ {t[1]}
  /\ IF plan.gate = "checkpoint"
       THEN tick' = [tick EXCEPT !.pc = "pausing", !.at = t]
       ELSE Judged(t, FALSE, gating')

Expired(e) == plan.gate = "delay" /\ e \in elapsed

ScanHeld(t) ==
  /\ mission.status \notin Barring
  /\ Gated(t) /\ gating.gate[t[1]] = "active"
  /\ IF Expired(t[1])
       THEN /\ gating' = [Recovered({t[1]}) EXCEPT !.gate[t[1]] = "lifted"]
            /\ saved' = gating'.gate
            /\ Judged(t, DependenciesDone(t), gating')
       ELSE /\ gating' = Recovered({t[1]})
            /\ Judged(t, FALSE, gating')
            /\ UNCHANGED saved
  /\ UNCHANGED elapsed

Scan(t) == Scanning(t) /\ (ScanBarred(t) \/ ScanOpen(t) \/ ScanReaches(t) \/ ScanHeld(t))

\* Whoever released the checkpoint meanwhile has removed it from the active ones.
Resumes ==
  LET t == tick.at
  IN Judged(t, gating.gate[t[1]] # "active" /\ DependenciesDone(t), gating)

PauseReads ==
  /\ At("pausing")
  /\ IF mission.status = "active" THEN Goes("paused") ELSE Resumes
  /\ UNCHANGED <<storeVars, plan, mission, receipts, call, engineVars, peopleVars, asked, faults>>

PauseWrites ==
  /\ At("paused")
  /\ Marks("paused")
  /\ Resumes
  /\ UNCHANGED <<storeVars, plan, receipts, call, engineVars, peopleVars, asked, faults>>

\* A Task and everything it depends on, transitively.
Graph(t) ==
  {t[1]} \X {x \in Titles : \A S \in SUBSET Titles :
               (t[2] \in S /\ \A y \in S : DependsOn[y] \subseteq S) => x \in S}

Unchanged(snap, T) == \A t \in T : tasks[t] = snap[t]

\* forceFailCapturedTask; the tick ends after the last one.
ForceFail(t) ==
  /\ At("failing") /\ t \in tick.todo
  /\ IF Unchanged(tick.snap, Graph(t)) THEN Cancel(t, RefOf(tick.snap[t])) ELSE UNCHANGED storeVars
  /\ tick' = IF tick.todo = {t} THEN Between ELSE [tick EXCEPT !.todo = @ \ {t}]
  /\ UNCHANGED <<plan, mission, receipts, call, engineVars, peopleVars, asked, faults>>

NewRun == CHOOSE r \in Runs : runs[r].status = "absent"
RunsLeft == \E r \in Runs : runs[r].status = "absent"    \* bound of the model

\* A claim that is rejected ends the tick; a Task for which there is no room
\* (here: no Run is left) stays queued.
Dispatch(t) ==
  /\ At("dispatch") /\ t \in tick.ready
  /\ \/ /\ RunsLeft /\ Claim(t, RefOf(tick.snap[t]), NewRun)
        /\ tick' = [tick EXCEPT !.ready = @ \ {t}]
     \/ /\ RunsLeft /\ ~CanClaim(t, RefOf(tick.snap[t]), NewRun)
        /\ tick' = Between
        /\ UNCHANGED storeVars
     \/ /\ ~RunsLeft
        /\ tick' = [tick EXCEPT !.ready = @ \ {t}]
        /\ UNCHANGED storeVars
  /\ UNCHANGED <<plan, mission, receipts, call, engineVars, peopleVars, asked, faults>>

\* The tick reads the Tasks again before it cleans up.
Dispatched ==
  /\ At("dispatch") /\ tick.ready = {}
  /\ tick' = [Between EXCEPT !.pc = "cleanup", !.snap = tasks, !.todo = Admitted]
  /\ UNCHANGED <<storeVars, plan, mission, receipts, call, engineVars, peopleVars, asked, faults>>

-----------------------------------------------------------------------------
(* cleanupCompletedGroups                                                  *)

Passes(e) == [tick EXCEPT !.pc = "cleanup", !.todo = @ \ {e}, !.at = << >>, !.next = NoGating]

CleanupSkips(e) ==
  /\ At("cleanup") /\ e \in tick.todo
  /\ ~AllTerminal(tick.snap, e) \/ e \in cleaned
  /\ tick' = Passes(e)
  /\ cleaned' = IF AllTerminal(tick.snap, e) THEN cleaned ELSE cleaned \ {e}
  /\ UNCHANGED <<storeVars, plan, mission, receipts, call, prepared, gating, saved, elapsed,
                 peopleVars, asked, faults>>

CleanupReads(e) ==
  /\ At("cleanup") /\ e \in tick.todo
  /\ AllTerminal(tick.snap, e) /\ e \notin cleaned
  /\ Prepares({e})
  /\ tick' = [tick EXCEPT !.at = <<e>>,
                !.pc = IF mission.status = "active" /\ IsCurrent(e) THEN "finalizing" ELSE "forgetting"]
  /\ UNCHANGED <<storeVars, plan, mission, receipts, call, saved, elapsed, cleaned, peopleVars, asked, faults>>

\* finalStatus; a threshold on the scores may fail an execution that is done.
Final(origin, passed) ==
  IF origin = "recurring" THEN "recurring"
  ELSE IF origin = "scheduled" /\ ~passed THEN "scheduled"
  ELSE IF passed THEN "completed" ELSE "failed"

\* Mutant: the UPDATE matches the execution alone.
CanFinalize_AnyStatus(e) == IsCurrent(e) /\ AllTerminal(tasks, e)

CanFinalize(e) == mission.status = "active" /\ IsCurrent(e) /\ AllTerminal(tasks, e)

Finalize ==
  /\ At("finalizing")
  /\ LET e == tick.at[1]
         allDone == \A t \in Of(e) : tick.snap[t].status = "done"
     IN IF CanFinalize(e)
          THEN /\ \E passed \in {FALSE, allDone} : Marks(Final(receipts[e].origin, passed))
               /\ Goes("forgetting")
          ELSE /\ tick' = Passes(e)
               /\ UNCHANGED mission
  /\ UNCHANGED <<storeVars, plan, receipts, call, engineVars, peopleVars, asked, faults>>

Without(g, e) == [defined |-> g.defined \ {e}, gate |-> [g.gate EXCEPT ![e] = "none"]]

\* removeGroup: a store either edits the state it is given or writes a copy.
ForgetSaves ==
  /\ At("forgetting")
  /\ LET next == Without(gating, tick.at[1])
     IN /\ saved' = next.gate
        /\ tick' = [tick EXCEPT !.pc = "forgotten", !.next = IF SharedState THEN NoGating ELSE next]
        /\ gating' = IF SharedState THEN next ELSE gating
  /\ UNCHANGED <<storeVars, plan, mission, receipts, call, prepared, elapsed, cleaned, peopleVars, asked, faults>>

\* The engine goes on with what removeGroup returned.
ForgetAssigns ==
  /\ At("forgotten")
  /\ LET e == tick.at[1]
     IN /\ gating' = IF SharedState THEN gating ELSE tick.next
        /\ prepared' = prepared \ {e}
        /\ cleaned' = cleaned \cup {e}
        /\ tick' = Passes(e)
  /\ UNCHANGED <<storeVars, plan, mission, receipts, call, saved, elapsed, peopleVars, asked, faults>>

TickEnds ==
  /\ At("cleanup") /\ tick.todo = {}
  /\ tick' = Between
  /\ UNCHANGED <<storeVars, plan, mission, receipts, call, engineVars, peopleVars, asked, faults>>

-----------------------------------------------------------------------------
(* Agents and time                                                         *)

\* Execution and assessment of a claimed Task, reduced to their outcome.
Work(t) ==
  /\ tasks[t].status = "in_progress"
  /\ \E outcome \in TerminalStatus : SetTaskStatus(t, outcome)
  /\ runs' = [runs EXCEPT ![tasks[t].active].status = "completed"]
  /\ UNCHANGED <<plan, mission, receipts, call, engineVars, tick, peopleVars, asked, faults>>

Elapse(e) ==
  /\ plan.gate = "delay" /\ saved[e] = "active" /\ e \notin elapsed
  /\ elapsed' = elapsed \cup {e}
  /\ UNCHANGED <<storeVars, plan, mission, receipts, call, prepared, gating, saved, cleaned, tick,
                 peopleVars, asked, faults>>

-----------------------------------------------------------------------------
(* People                                                                  *)

Retry(t) ==
  /\ Up /\ Ask
  /\ tasks[t].status = "failed"
  /\ Transition(t, tasks[t], "pending")
  /\ UNCHANGED <<plan, mission, receipts, call, engineVars, tick, peopleVars, faults>>

\* resumeCheckpoint: released and saved, then the Mission is read and unpaused.
Release(e) ==
  /\ Up
  /\ plan.gate = "checkpoint"
  /\ IsCurrent(e) /\ gating.gate[e] = "active"
  /\ prepared' = prepared \cup {e}
  /\ gating' = [Recovered({e}) EXCEPT !.gate[e] = "lifted"]
  /\ saved' = gating'.gate
  /\ unpause' = [unpause EXCEPT ![e] = "reading"]
  /\ UNCHANGED <<storeVars, plan, mission, receipts, call, elapsed, cleaned, tick, abort, resumption, asked, faults>>

UnpauseReads(e) ==
  /\ unpause[e] = "reading"
  /\ unpause' = [unpause EXCEPT ![e] = IF mission.status = "paused" THEN "writing" ELSE "idle"]
  /\ UNCHANGED <<storeVars, plan, mission, receipts, call, engineVars, tick, abort, resumption, asked, faults>>

UnpauseWrites(e) ==
  /\ unpause[e] = "writing"
  /\ Marks("active")
  /\ unpause' = [unpause EXCEPT ![e] = "idle"]
  /\ UNCHANGED <<storeVars, plan, receipts, call, engineVars, tick, abort, resumption, asked, faults>>

AbortCaptures(e) ==
  /\ Up /\ Ask
  /\ abort.pc = "idle" /\ e \in Admitted
  /\ abort' = [pc |-> "captured", execution |-> <<e>>, snap |-> tasks]
  /\ UNCHANGED <<storeVars, plan, mission, receipts, call, engineVars, tick, unpause, resumption, faults>>

\* Mutant: only what still waits is cancelled.
Stopped_Queued(row) ==
  IF row.status # "pending" THEN row
  ELSE [row EXCEPT !.status = "failed", !.revision = @ + 1]

\* prepareTaskExecutionMutation "cancel", on one of the captured rows.
Stopped(row) ==
  IF row.status \in TerminalStatus /\ row.active = NoRun THEN row
  ELSE [row EXCEPT !.status = IF @ \in TerminalStatus THEN @ ELSE "failed",
                   !.revision = @ + 1, !.active = NoRun]

Cancellable == {"active", "paused", "scheduled", "recurring"}

\* One transaction over all Tasks, their Runs and the Mission.
AbortCommits ==
  /\ abort.pc = "captured"
  /\ LET e == abort.execution[1]
     IN IF Unchanged(abort.snap, Of(e)) /\ \A t \in Of(e) : RevisionLeft(t)
          THEN /\ tasks' = [t \in Tasks |-> IF t \in Of(e) THEN Stopped(tasks[t]) ELSE tasks[t]]
               /\ runs' = [r \in Runs |-> IF runs[r].status = "running" /\ \E t \in Of(e) : tasks[t].active = r
                                             /\ tasks'[t].active = NoRun
                                           THEN [runs[r] EXCEPT !.status = "killed"] ELSE runs[r]]
               /\ IF IsCurrent(e) /\ mission.status \in Cancellable
                    THEN Marks("cancelled") ELSE UNCHANGED mission
          ELSE UNCHANGED <<storeVars, mission>>
  /\ abort' = NoAbort
  /\ UNCHANGED <<plan, receipts, call, engineVars, tick, unpause, resumption, asked, faults>>

\* resumeMission, with or without retryFailed.
ResumeCaptures ==
  /\ Up /\ Ask
  /\ resumption.pc = "idle" /\ Admitted # {}
  /\ \E retryFailed \in BOOLEAN :
       resumption' = [pc |-> "retrying", failed |-> mission.status = "failed",
                      todo |-> {t \in Tasks : retryFailed /\ IsCurrent(t[1]) /\ tasks[t].status = "failed"},
                      waiting |-> {e \in Calls : IsCurrent(e) /\ \E t \in Of(e) : tasks[t].status = "pending"}]
  /\ cleaned' = {e \in cleaned : ~IsCurrent(e)}
  /\ UNCHANGED <<storeVars, plan, mission, receipts, call, prepared, gating, saved, elapsed, tick,
                 unpause, abort, faults>>

ResumeRetries(t) ==
  /\ resumption.pc = "retrying" /\ t \in resumption.todo
  /\ Prepares({t[1]})
  /\ resumption' = [resumption EXCEPT !.todo = @ \ {t}]
  /\ \/ tasks[t].status = "failed" /\ Transition(t, tasks[t], "pending")
     \/ tasks[t].status # "failed" /\ UNCHANGED storeVars
  /\ UNCHANGED <<plan, mission, receipts, call, saved, elapsed, cleaned, tick, unpause, abort, asked, faults>>

ResumeActivates ==
  /\ resumption.pc = "retrying" /\ resumption.todo = {}
  /\ Prepares(resumption.waiting)
  /\ IF resumption.failed THEN Marks("active") ELSE UNCHANGED mission
  /\ resumption' = [resumption EXCEPT !.pc = "over"]
  /\ UNCHANGED <<storeVars, plan, receipts, call, saved, elapsed, cleaned, tick, unpause, abort, asked, faults>>

-----------------------------------------------------------------------------
(* Crash and restart of the engine's process                               *)

Crash ==
  /\ Up /\ faults < MaxFaults
  /\ faults' = faults + 1
  /\ tick' = Down
  /\ prepared' = {} /\ gating' = NoGating /\ cleaned' = {}
  /\ call' = [q \in Calls |-> IF call[q].pc = "idle" THEN NoCall ELSE [NoCall EXCEPT !.pc = "over"]]
  /\ unpause' = [e \in Calls |-> "idle"]
  /\ abort' = NoAbort
  /\ resumption' = IF resumption.pc = "idle" THEN resumption
                   ELSE [resumption EXCEPT !.pc = "over", !.todo = {}]
  /\ UNCHANGED <<storeVars, plan, mission, receipts, saved, elapsed, asked>>

\* Mutant: what has ended is taken for cleaned.
WasCleaned_Ended == {e \in Admitted : AllTerminal(tasks, e)}

\* rebuildCleanedGroups
WasCleaned == {e \in Admitted : AllTerminal(tasks, e) /\ ~(mission.status = "active" /\ IsCurrent(e))}

Restart ==
  /\ At("down")
  /\ tick' = Between
  /\ cleaned' = WasCleaned
  /\ prepared' = Admitted \ WasCleaned
  /\ gating' = [defined |-> Admitted \ WasCleaned, gate |-> saved]
  /\ UNCHANGED <<storeVars, plan, mission, receipts, call, saved, elapsed, peopleVars, asked, faults>>

-----------------------------------------------------------------------------
Ticks ==
  \/ TickLists
  \/ \E t \in Tasks : Scan(t) \/ ForceFail(t) \/ Dispatch(t)
  \/ PauseReads \/ PauseWrites \/ Dispatched
  \/ \E e \in Calls : CleanupSkips(e) \/ CleanupReads(e)
  \/ Finalize \/ ForgetSaves \/ ForgetAssigns \/ TickEnds
  \/ Restart

Next ==
  \/ \E q \in Calls : Execute(q) \/ Commit(q) \/ Refuse(q) \/ PrepareCall(q)
  \/ Ticks
  \/ \E t \in Tasks : Work(t) \/ Retry(t) \/ ResumeRetries(t)
  \/ \E e \in Calls : Elapse(e) \/ Release(e) \/ UnpauseReads(e) \/ UnpauseWrites(e) \/ AbortCaptures(e)
  \/ AbortCommits \/ ResumeCaptures \/ ResumeActivates
  \/ Crash

Spec == Init /\ [][Next]_vars

\* The loop ticks again after every wait and error, and a dead engine is restarted.
FairSpec == Spec /\ WF_vars(Ticks)

-----------------------------------------------------------------------------
TypeOK ==
  /\ StoreTypeOK
  /\ mission \in [status : MissionStatus, executionCount : 0..MaxCalls]
  /\ receipts \in [Calls -> [sequence : 0..MaxCalls, origin : Executable]]
  /\ \A q \in Calls : call[q].pc \in {"idle", "planned", "admitted", "over"}
  /\ prepared \subseteq Admitted /\ cleaned \subseteq Admitted /\ gating.defined \subseteq Admitted
  /\ \A e \in Calls : {gating.gate[e], saved[e]} \subseteq {"none", "active", "lifted"}
  /\ plan.gate = "none" => gating.gate = NoGates /\ saved = NoGates
  /\ tick.ready \cup (IF At("scan") \/ At("failing") THEN tick.todo ELSE {}) \subseteq Tasks

\* A key is executed once, however often and however late it is sent, and
\* every admission is a sequence number of its own (commitMissionExecution).
AdmittedOnce ==
  /\ mission.executionCount = Cardinality(Admitted)
  /\ \A p, q \in Admitted : p # q => receipts[p].sequence # receipts[q].sequence
  /\ plan.keyed => Cardinality(Admitted) <= 1

\* A Mission that is completed was completed by the Tasks of its latest
\* execution, although cleanup decides on a listing (finalizeMissionExecution).
CompletedMeansDone ==
  mission.status = "completed" => \A e \in Calls : IsCurrent(e) => \A t \in Of(e) : tasks[t].status = "done"

\* While a Mission is cancelled no agent works for its latest execution, although
\* a tick may have found its Tasks ready before (abortMissionExecution).
CancelledIsIdle ==
  mission.status = "cancelled" => \A e \in Calls : IsCurrent(e) => \A t \in Of(e) : tasks[t].status # "in_progress"

\* The type invariant, and what admission, settlement and cancellation keep
\* together (executeMission, finalizeMissionExecution, abortMissionExecution).
MissionInv == TypeOK /\ AdmittedOnce /\ CompletedMeansDone /\ CancelledIsIdle

\* Cleanup does not reschedule what was cancelled after it had read the Mission:
\* without checkpoints only a new execution or a resumption ends a cancellation.
CancelIsFinal ==
  [][mission.status = "cancelled" /\ mission'.status # "cancelled" /\ plan.gate # "checkpoint" =>
       mission'.executionCount > mission.executionCount \/ resumption.pc = "retrying"]_vars

\* What a gate blocks starts after the gate was lifted for this execution, by a
\* person or by the end of the delay, and is not failed as deadlocked while the
\* gate is active; restarts and the cleanup of other executions do not open it.
HeldUntilReleased ==
  [][\A t \in Tasks :
       plan.gate # "none" /\ t[2] \in Blocks /\ tasks[t].status = "pending" =>
         /\ tasks'[t].status = "in_progress" => gating.gate[t[1]] = "lifted"
         /\ At("failing") /\ tick' # tick /\ tasks'[t].status = "failed" => gating.gate[t[1]] # "active"]_vars

Unsettled(e) == mission.status = "active" /\ IsCurrent(e) /\ AllTerminal(tasks, e)

\* A Mission whose Tasks have all ended does not stay active: cleanup is retried
\* after conflicts and crashes.  (Stated without checkpoints and resumptions,
\* whose late writes may activate a Mission that is cleaned already.)
Settles ==
  \A e \in Calls :
    (plan.gate # "checkpoint" /\ Unsettled(e)) ~> (~Unsettled(e) \/ resumption.pc # "idle")
=============================================================================
