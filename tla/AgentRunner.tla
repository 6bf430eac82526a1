----------------------------- MODULE AgentRunner -----------------------------
(***************************************************************************)
(* The detached process that executes one Run                              *)
(* (packages/node/src/core/run-lifecycle.ts, started by node-spawner.ts).  *)
(* It survives the supervisor, knows nothing but its Run identity, checks  *)
(* the durable Run before it starts the engine and reports its outcome     *)
(* through completeRun.                                                    *)
(*                                                                         *)
(*   none -> launched -> preparing -> working -> exited                    *)
(*                \___________\__________\-> aborting -> exited            *)
(***************************************************************************)
EXTENDS TaskStore

VARIABLES
  proc,      \* phase of the process of each Run
  pid,       \* Runs whose row records a process id
  overdue    \* Runs past their timeout or silent for twice the stale threshold

runnerVars == <<proc, pid, overdue>>

ProcPhase == {"none", "launched", "preparing", "working", "aborting", "exited"}
Alive(r) == proc[r] \in {"launched", "preparing", "working", "aborting"}

RunnerTypeOK == /\ proc \in [Runs -> ProcPhase]
                /\ pid \subseteq Runs
                /\ overdue \subseteq Runs

RunnerInit == /\ proc = [r \in Runs |-> "none"]
              /\ pid = {}
              /\ overdue = {}

IsRunning(r) == runs[r].status = "running"

Enters(r, phase) == proc' = [proc EXCEPT ![r] = phase]

\* A termination signal (kill, cancelRun) may reach the process or be too late.
MaySignal(r) ==
  IF Alive(r) THEN Enters(r, "aborting") \/ UNCHANGED proc ELSE UNCHANGED proc

\* executeRegisteredRun: read the Run, register with the own pid, read again.
Start(r) ==
  /\ proc[r] = "launched"
  /\ IF IsRunning(r)
       THEN Enters(r, "preparing") /\ pid' = pid \cup {r}
       ELSE Enters(r, "exited") /\ UNCHANGED pid
  /\ UNCHANGED <<storeVars, overdue>>

\* The last stopBeforeSpawn, then spawnLoopEngine.
Work(r) ==
  /\ proc[r] = "preparing"
  /\ Enters(r, IF IsRunning(r) THEN "working" ELSE "exited")
  /\ UNCHANGED <<storeVars, pid, overdue>>

\* The preparation throws: persistOutcome("failed").
PreparationFails(r) ==
  /\ proc[r] = "preparing"
  /\ Enters(r, "exited")
  /\ CompleteRun(r, "failed")
  /\ UNCHANGED <<pid, overdue>>

\* handle.done settles: exit code 0 is completed, anything else failed.
Finish(r) ==
  /\ proc[r] = "working"
  /\ Enters(r, "exited")
  /\ \E outcome \in {"completed", "failed"} : CompleteRun(r, outcome)
  /\ UNCHANGED <<pid, overdue>>

\* Mutant: nobody watches the Run once the engine works.
Observe_PreparingOnly(r) ==
  /\ proc[r] = "preparing"
  /\ ~IsRunning(r)
  /\ Enters(r, "aborting")
  /\ UNCHANGED <<storeVars, pid, overdue>>

\* watchRunState: the durable Run is no longer running.
Observe(r) ==
  /\ proc[r] \in {"preparing", "working"}
  /\ ~IsRunning(r)
  /\ Enters(r, "aborting")
  /\ UNCHANGED <<storeVars, pid, overdue>>

\* A read of the Run fails or takes too long: run_missing, run_unavailable.
LosesStore(r) ==
  /\ proc[r] \in {"preparing", "working"}
  /\ Enters(r, "aborting")
  /\ UNCHANGED <<storeVars, pid, overdue>>

\* An aborted execution is killed whatever the engine returned.
Abort(r) ==
  /\ proc[r] = "aborting"
  /\ Enters(r, "exited")
  /\ CompleteRun(r, "killed")
  /\ UNCHANGED <<pid, overdue>>

\* The process dies without a word.
Die(r) ==
  /\ Alive(r)
  /\ Enters(r, "exited")
  /\ UNCHANGED <<storeVars, pid, overdue>>

\* Time passes for a Run that is still running.
Elapse(r) ==
  /\ IsRunning(r)
  /\ overdue' = overdue \cup {r}
  /\ UNCHANGED <<storeVars, proc, pid>>

\* What the process does by itself, other than finishing its work.
RunnerStep(r) == Start(r) \/ Work(r) \/ PreparationFails(r) \/ Observe(r) \/ Abort(r)
=============================================================================
