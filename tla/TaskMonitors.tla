----------------------------- MODULE TaskMonitors -----------------------------
(***************************************************************************)
(* Two writers that change a Task's status without the reference of an     *)
(* attempt: the SLA check with violationAction "fail"                      *)
(* (packages/core/src/sla-monitor.ts), which the tick calls and does not   *)
(* await, and a user's reassessment (reassessTask in packages/core/src/    *)
(* task-manager.ts).  Both live in the process of a server.                *)
(***************************************************************************)
EXTENDS TaskStore

CONSTANTS
  SlaTasks,      \* Tasks with a deadline
  Reassessors    \* reassessment requests, each used once

ASSUME MonitorsAssumption == SlaTasks \subseteq Tasks

VARIABLES
  reassess    \* progress of each reassessment request

Chain == <<"pending", "assigned", "in_progress", "review", "done">>

Request == [pc : {"idle", "judging", "moving", "finished"}, step : 1..5,
            task : Tasks \cup {NoTask}, was : TerminalStatus]
NoRequest(pc) == [pc |-> pc, step |-> 1, task |-> NoTask, was |-> "failed"]

ReassessInit == reassess = [q \in Reassessors |-> NoRequest("idle")]

-----------------------------------------------------------------------------
(* The SLA monitor m of a process: what is left of the listing of its      *)
(* check, and the Tasks it has already reported.                           *)

Monitor == [todo : SUBSET Tasks, violated : SUBSET Tasks]

NoMonitor == [todo |-> {}, violated |-> {}]

SlaDue(m) == {t \in SlaTasks \ m.violated : Exists(t) /\ tasks[t].status \notin TerminalStatus}

SlaListed(m) == [m EXCEPT !.todo = @ \cup SlaDue(m)]

SlaTaken(m, t) == [todo |-> m.todo \ {t}, violated |-> m.violated \cup {t}]

\* The task:complete hook forgets a Task that met its end.
SlaForgets(m, t) == [m EXCEPT !.violated = @ \ {t}]

\* The status may have become terminal since the listing.
SlaWrite(t) == IF Exists(t) THEN UnsafeSetStatus(t, tasks[t], "failed") ELSE UNCHANGED storeVars

-----------------------------------------------------------------------------
(* A long model call between reading the Task and the verdict, then one    *)
(* transition at a time.                                                   *)

ReassessGoes(q, pc) ==
  reassess' = [reassess EXCEPT ![q] = IF pc = "finished" THEN NoRequest(pc) ELSE [@ EXCEPT !.pc = pc]]

ReassessBegin(q, t) ==
  /\ reassess[q].pc = "idle"
  /\ tasks[t].status \in TerminalStatus
  /\ reassess' = [reassess EXCEPT ![q] = [pc |-> "judging", step |-> 1, task |-> t, was |-> tasks[t].status]]
  /\ UNCHANGED storeVars

ReassessPasses(q) ==
  /\ reassess[q].pc = "judging"
  /\ ReassessGoes(q, IF reassess[q].was = "failed" THEN "moving" ELSE "finished")
  /\ UNCHANGED storeVars

ReassessFails(q) ==
  LET t == reassess[q].task
  IN  /\ reassess[q].pc = "judging"
      /\ IF reassess[q].was = "done" /\ Exists(t)
           THEN UnsafeSetStatus(t, tasks[t], "failed")
           ELSE UNCHANGED storeVars
      /\ ReassessGoes(q, "finished")

\* Each transition validates the status it finds; a refusal ends the request.
ReassessMoves(q) ==
  LET t == reassess[q].task
      new == Chain[reassess[q].step]
  IN  /\ reassess[q].pc = "moving"
      /\ IF Exists(t) /\ new \in VALID_TRANSITIONS(tasks[t].status)
           THEN /\ Transition(t, tasks[t], new)
                /\ IF new = "done" THEN ReassessGoes(q, "finished")
                                   ELSE reassess' = [reassess EXCEPT ![q].step = @ + 1]
           ELSE ReassessGoes(q, "finished") /\ UNCHANGED storeVars

\* A Task without expectations or metrics is not a candidate.
Reassessment(q, candidates) ==
  \/ \E t \in candidates : ReassessBegin(q, t)
  \/ ReassessPasses(q)
  \/ ReassessFails(q)
  \/ ReassessMoves(q)

\* Requests end with the server that handles them.
RequestsLost(Q) ==
  reassess' = [q \in Reassessors |->
                 IF q \in Q /\ reassess[q].pc # "idle" THEN NoRequest("finished") ELSE reassess[q]]
=============================================================================
