----------------------------- MODULE TaskAttempts -----------------------------
(***************************************************************************)
(* What the store promises about attempts, without rows or references: the *)
(* executions of a Task are exclusive, each carries the generation it was  *)
(* started under, and whatever moves the generation on also ends the       *)
(* attempt.  "A stale reference rejects without chasing or modifying a     *)
(* newer attempt" (packages/core/src/task-execution.ts:53-54).             *)
(***************************************************************************)
EXTENDS Naturals

CONSTANTS Tasks, Runs

VARIABLES
  gen,     \* generation of each Task
  live,    \* Runs of a Task that are still running
  token,   \* generation a Run was started under, 0 before
  ended    \* Runs whose outcome is decided

attemptVars == <<gen, live, token, ended>>

Fresh(r) == r \notin ended /\ \A t \in Tasks : r \notin live[t]

Init ==
  /\ gen = [t \in Tasks |-> 0]
  /\ live = [t \in Tasks |-> {}]
  /\ token = [r \in Runs |-> 0]
  /\ ended = {}

\* An attempt starts only when nothing runs, under a generation of its own.
Start(t, r) ==
  /\ live[t] = {}
  /\ Fresh(r)
  /\ gen' = [gen EXCEPT ![t] = gen[t] + 1]
  /\ live' = [live EXCEPT ![t] = {r}]
  /\ token' = [token EXCEPT ![r] = gen[t] + 1]
  /\ UNCHANGED ended

\* The attempt's outcome is decided once; the generation remains its own.
Finish(t, r) ==
  /\ r \in live[t]
  /\ live' = [live EXCEPT ![t] = {}]
  /\ ended' = ended \cup {r}
  /\ UNCHANGED <<gen, token>>

\* Requeue, cancellation, suspension: a new generation ends what still runs.
Fence(t) ==
  /\ gen' = [gen EXCEPT ![t] = gen[t] + 1]
  /\ live' = [live EXCEPT ![t] = {}]
  /\ ended' = ended \cup live[t]
  /\ UNCHANGED token

Next ==
  \E t \in Tasks :
    \/ \E r \in Runs : Start(t, r) \/ Finish(t, r)
    \/ Fence(t)

Spec == Init /\ [][Next]_attemptVars
=============================================================================
