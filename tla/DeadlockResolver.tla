--------------------------- MODULE DeadlockResolver ---------------------------
(***************************************************************************)
(* Dependencies between Tasks and what happens when failed ones block the  *)
(* others (packages/node/src/core/deadlock-resolver.ts).  A tick captures  *)
(* the listing and starts one resolution in the background; a model then   *)
(* decides, blockage by blockage, while everybody else goes on.  Each      *)
(* decision is one conditional write that requires the whole dependency    *)
(* graph of the blocked Task to be as captured.                            *)
(***************************************************************************)
EXTENDS AgentRunner, Assessment

CONSTANTS
  Supervisors,      \* server processes on one host that share the store
  DependsOn,        \* dependsOn of each Task when it is created
  MaxResolutions    \* settings.maxResolutionAttempts

ASSUME ResolverAssumption ==
  /\ DependsOn \in [Tasks -> SUBSET Tasks]
  /\ MaxResolutions \in Nat

VARIABLES
  deps,       \* dependsOn of each Task
  absorbed,   \* resolutionAttempts of each Task
  resolver    \* the background resolution of each supervisor

resolverVars == <<deps, absorbed, resolver>>

NoSnap == [t \in Tasks |-> AbsentTask]
NoDeps == [t \in Tasks |-> {}]
NoResolution == [pc |-> "idle", snap |-> NoSnap, deps |-> NoDeps, todo |-> {}, retried |-> {}]

ResolverTypeOK ==
  /\ deps \in [Tasks -> SUBSET Tasks]
  /\ absorbed \in [Tasks -> 0..MaxResolutions]
  /\ resolver \in [Supervisors ->
       [pc : {"idle", "deciding", "failing"}, snap : [Tasks -> TaskRow],
        deps : [Tasks -> SUBSET Tasks], todo : SUBSET Tasks, retried : SUBSET Tasks]]

ResolverInit ==
  /\ deps = DependsOn
  /\ absorbed = [t \in Tasks |-> 0]
  /\ resolver = [s \in Supervisors |-> NoResolution]

-----------------------------------------------------------------------------
(* analyzeBlockedTasks, on a captured listing                              *)

\* The Tasks reached from t along dependencies, not looking behind one that
\* stops the search.
Reached(on, t, stops) ==
  {d \in Tasks : \A S \in SUBSET Tasks :
     (t \in S /\ \A x \in S \ stops : on[x] \subseteq S) => d \in S}

\* t and everything it depends on, transitively.
DependencyGraph(on, t) == Reached(on, t, {})

\* The failed Tasks a pending Task waits for, through pending ones.  The
\* model takes any of them for the one the code's order finds first.
RootFailures(snap, on, t) ==
  {d \in Reached(on, t, {x \in Tasks \ {t} : snap[x].status # "pending"}) :
     snap[d].status = "failed"}

Listed(snap, status) == {t \in Tasks : snap[t].status \in status}

Resolvable(snap, on) == {t \in Listed(snap, {"pending"}) : RootFailures(snap, on, t) # {}}

Unresolvable(snap, on) ==
  {t \in Listed(snap, {"pending"}) :
     /\ RootFailures(snap, on, t) = {}
     /\ \E d \in on[t] : snap[d].status \in {"pending"} \cup Missing}

\* Mutant: only the Task itself is compared.
UnchangedSince_TaskOnly(snap, on, t) == tasks[t] = snap[t]

\* assertTaskExecutionPreconditions over the captured graph of t.
UnchangedSince(snap, on, t) == \A d \in DependencyGraph(on, t) : tasks[d] = snap[d]

-----------------------------------------------------------------------------
(* resolveCapturedDeadlock                                                 *)

Resolving(s) == resolver[s].pc # "idle"

StartResolution(s, snap, on) ==
  /\ ~Resolving(s)
  /\ resolver' = [resolver EXCEPT ![s] =
       [pc |-> "deciding", snap |-> snap, deps |-> on, retried |-> {},
        todo |-> Resolvable(snap, on) \cup Unresolvable(snap, on)]]
  /\ UNCHANGED <<deps, absorbed>>

Decided(s, t) == resolver' = [resolver EXCEPT ![s].todo = @ \ {t}]

Holds(s, t) == UnchangedSince(resolver[s].snap, resolver[s].deps, t)

\* The failed dependency f under decision for the blocked Task t; the Tasks
\* that can only be given up come last.
Considers(s, t, f) ==
  /\ resolver[s].pc = "deciding"
  /\ t \in resolver[s].todo
  /\ f \in RootFailures(resolver[s].snap, resolver[s].deps, t)

MayDecide(s, t, f) ==
  /\ Considers(s, t, f)
  /\ absorbed[t] < MaxResolutions
  /\ f \notin resolver[s].retried

\* Nothing more is asked about a dependency that this resolution retried.
AlreadyRetried(s, t, f) ==
  /\ Considers(s, t, f)
  /\ absorbed[t] < MaxResolutions
  /\ f \in resolver[s].retried
  /\ Decided(s, t)
  /\ UNCHANGED <<storeVars, deps, absorbed>>

\* Mutant: written without the captured dependencies as preconditions.
Absorb_Unconditional(s, t, f) ==
  /\ MayDecide(s, t, f)
  /\ IF f \in resolver[s].deps[t] /\ tasks[t] = resolver[s].snap[t]
       THEN /\ Requeue(t, RefOf(resolver[s].snap[t]), FALSE, FALSE)
            /\ deps' = [deps EXCEPT ![t] = resolver[s].deps[t] \ {f}]
            /\ absorbed' = [absorbed EXCEPT ![t] = @ + 1]
       ELSE UNCHANGED <<storeVars, deps, absorbed>>
  /\ Decided(s, t)

\* t takes the work of f over.  A failure behind a pending dependency is left
\* to the decision about that dependency.
Absorb(s, t, f) ==
  /\ MayDecide(s, t, f)
  /\ IF f \in resolver[s].deps[t] /\ Holds(s, t)
       THEN /\ Requeue(t, RefOf(resolver[s].snap[t]), FALSE, FALSE)
            /\ deps' = [deps EXCEPT ![t] = resolver[s].deps[t] \ {f}]
            /\ absorbed' = [absorbed EXCEPT ![t] = @ + 1]
       ELSE UNCHANGED <<storeVars, deps, absorbed>>
  /\ Decided(s, t)

\* Mutant: the allowance of the failed dependency is not looked at.
RetryDependency_Unbounded(s, t, f) ==
  /\ MayDecide(s, t, f)
  /\ IF Holds(s, t)
       THEN /\ Requeue(f, RefOf(resolver[s].snap[f]), TRUE, FALSE)
            /\ resolver' = [resolver EXCEPT ![s].todo = @ \ {t}, ![s].retried = @ \cup {f}]
       ELSE UNCHANGED storeVars /\ Decided(s, t)
  /\ UNCHANGED <<deps, absorbed, proc>>

\* The allowance must not be used up; a Run of f that still runs is stopped.
RetryDependency(s, t, f) ==
  /\ MayDecide(s, t, f)
  /\ resolver[s].snap[f].retries < MaxRetries
  /\ IF Holds(s, t)
       THEN /\ Requeue(f, RefOf(resolver[s].snap[f]), TRUE, FALSE)
            /\ IF LiveRun(f) THEN MaySignal(tasks[f].active) ELSE UNCHANGED proc
            /\ resolver' = [resolver EXCEPT ![s].todo = @ \ {t}, ![s].retried = @ \cup {f}]
       ELSE UNCHANGED <<storeVars, proc>> /\ Decided(s, t)
  /\ UNCHANGED <<deps, absorbed>>

\* failBlockage: the attempts are used up, the model says so, fails or asks
\* for a retry that is not left; or nothing failed, a dependency is missing.
GiveUp(s, t) ==
  /\ resolver[s].pc = "deciding"
  /\ t \in resolver[s].todo
  /\ \/ \E f \in RootFailures(resolver[s].snap, resolver[s].deps, t) :
          absorbed[t] >= MaxResolutions \/ f \notin resolver[s].retried
     \/ resolver[s].todo \cap Resolvable(resolver[s].snap, resolver[s].deps) = {}
  /\ IF Holds(s, t) THEN Cancel(t, RefOf(resolver[s].snap[t])) ELSE UNCHANGED storeVars
  /\ Decided(s, t)
  /\ UNCHANGED <<deps, absorbed>>

\* The memory, the listing or a write failed for another reason than a
\* conflict: every Task that was pending is given up instead.
ResolutionBreaks(s) ==
  /\ resolver[s].pc = "deciding"
  /\ resolver' = [resolver EXCEPT ![s].pc = "failing",
                                  ![s].todo = Listed(resolver[s].snap, {"pending"})]
  /\ UNCHANGED <<storeVars, deps, absorbed>>

FailCaptured(s, t) ==
  /\ resolver[s].pc = "failing"
  /\ t \in resolver[s].todo
  /\ IF Holds(s, t) /\ RevisionLeft(t)
       THEN Cancel(t, RefOf(resolver[s].snap[t]))
       ELSE UNCHANGED storeVars
  /\ Decided(s, t)
  /\ UNCHANGED <<deps, absorbed>>

ResolutionEnds(s) ==
  /\ Resolving(s)
  /\ resolver[s].todo = {}
  /\ resolver' = [resolver EXCEPT ![s] = NoResolution]
  /\ UNCHANGED <<storeVars, deps, absorbed>>

Resolution(s) ==
  \/ \E t, f \in Tasks : RetryDependency(s, t, f)
  \/ /\ \/ \E t, f \in Tasks : AlreadyRetried(s, t, f) \/ Absorb(s, t, f)
        \/ \E t \in Tasks : GiveUp(s, t) \/ FailCaptured(s, t)
        \/ ResolutionBreaks(s) \/ ResolutionEnds(s)
     /\ UNCHANGED proc
=============================================================================
