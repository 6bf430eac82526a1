-------------------------- MODULE TaskClientsProofs --------------------------
(***************************************************************************)
(* The store is sound for any number of Tasks, Runs and callers, and for   *)
(* every bound on the generations.                                         *)
(***************************************************************************)
EXTENDS TaskClients, TaskStoreProofs

\* What the rows satisfy does not say what the copies of the clients are worth:
\* Transition and UnsafeSetStatus do not compare the owner, so the rows stay
\* consistent only because no copy is wrong about its generation.
IInv ==
  /\ StoreInv
  /\ held \in [Clients -> Captured]
  /\ NoReferenceReuse

LEMMA HeldIsTrue ==
  ASSUME IInv, NEW c \in Clients, NEW t \in Tasks, Holds(c, t)
  PROVE  TrueCopy(t, held[c].row)
BY DEF IInv, TrueCopy, NoReferenceReuse, Captured

LEMMA InitEstablishes == Init => IInv /\ Attempts!Init
<1> SUFFICES ASSUME Init PROVE IInv /\ Attempts!Init
  OBVIOUS
<1> USE DEF Init, AbsentTask, AbsentRun
<1>0. AbsentTask \in TaskRow /\ AbsentRun \in RunRow
  BY MaxRevisionAssumption DEF TaskRow, RunRow, Missing
<1>1. StoreTypeOK
  BY <1>0 DEF StoreTypeOK
<1>2. OwnerAgrees /\ RunningIsOwned /\ PendingIsUnowned /\ RowsAreRooted
  BY DEF OwnerAgrees, Consistent, RunningIsOwned, PendingIsUnowned, RowsAreRooted
<1>3. held \in [Clients -> Captured]
  BY <1>0 DEF NothingHeld, Captured
<1>4. NoReferenceReuse
  BY NoTaskAssumption DEF NoReferenceReuse, Holds, NothingHeld
<1>5. Attempts!Init
  BY DEF Attempts!Init, genOf, liveOf, tokenOf, endedOf, RunningRunsOf, RunsOf, RunOutcome
<1> QED  BY <1>1, <1>2, <1>3, <1>4, <1>5 DEF IInv, StoreInv

\* Whatever a client does, the store sees one of its effects.
LEMMA StepIsEffect == ASSUME IInv, Next PROVE StoreEffect
<1> USE DEF IInv
<1>1. ASSUME NEW t \in Tasks, Create(t) \/ Delete(t) PROVE StoreEffect
  BY <1>1, RowsIsEffect DEF Create, Delete
<1>2. ASSUME NEW c \in Clients, NEW t \in Tasks, ClientStep(c, t) PROVE StoreEffect
  <2>1. CASE Read(c, t)
    BY <2>1 DEF Read, StoreEffect
  <2>2. CASE ClientClaim(c, t)
    BY <2>2 DEF ClientClaim, StoreEffect
  <2>3. CASE ClientMutate(c, t)
    BY <2>3, MutateTransitionIsEffect, RequeueIsEffect, CancelIsEffect DEF ClientMutate
  <2>4. CASE ClientTransition(c, t)
    BY <2>4, HeldIsTrue, TransitionIsEffect DEF ClientTransition
  <2>5. CASE ClientSetStatus(c, t)
    BY <2>5, HeldIsTrue, UnsafeSetStatusIsEffect DEF ClientSetStatus
  <2> QED  BY <1>2, <2>1, <2>2, <2>3, <2>4, <2>5 DEF ClientStep
<1>3. ASSUME NEW r \in Runs, Report(r) \/ Acknowledge(r) PROVE StoreEffect
  BY <1>3 DEF Report, Acknowledge, StoreEffect, OutcomeWrite
<1> QED  BY <1>1, <1>2, <1>3 DEF Next

\* A copy is taken only by Read, and then it is the row itself.
LEMMA CopiesAge ==
  ASSUME IInv, Next, NEW c \in Clients
  PROVE  held'[c] = held[c]
         \/ \E t \in Tasks : held'[c] = [task |-> t, row |-> tasks[t]] /\ tasks'[t] = tasks[t]
BY DEF IInv, Next, Create, Delete, ClientStep, Read, ClientClaim, ClientMutate, ClientTransition,
       ClientSetStatus, Report, Acknowledge, storeVars

LEMMA StepKeeps ==
  ASSUME IInv, [Next]_vars
  PROVE  IInv' /\ OwnerFenced /\ OutcomesKept /\ [Attempts!Next]_(Attempts!attemptVars)
<1>1. CASE Next
  <2>1. GoodStep
    BY <1>1, StepIsEffect, EffectKeepsStore DEF IInv
  <2>2. held' \in [Clients -> Captured]
    <3>1. \A t \in Tasks : [task |-> t, row |-> tasks[t]] \in Captured
      BY DEF IInv, StoreInv, StoreTypeOK, Captured
    <3> QED
      BY <1>1, <3>1 DEF IInv, Next, Create, Delete, ClientStep, Read, ClientClaim, ClientMutate,
         ClientTransition, ClientSetStatus, Report, Acknowledge
  <2>3. NoReferenceReuse'
    <3> SUFFICES ASSUME NEW c \in Clients, NEW t \in Tasks, held'[c].task = t
                 PROVE  /\ held'[c].row.revision <= tasks'[t].revision
                        /\ held'[c].row.revision = tasks'[t].revision
                             => held'[c].row.active = tasks'[t].active
      BY DEF NoReferenceReuse, Holds
    <3>1. tasks[t] \in TaskRow /\ tasks'[t] \in TaskRow
      BY <2>1 DEF GoodStep, IInv, StoreInv, StoreTypeOK
    <3>2. CASE held'[c] = held[c]
      <4>1. /\ held[c].row \in TaskRow
            /\ held[c].row.revision <= tasks[t].revision
            /\ held[c].row.revision = tasks[t].revision => held[c].row.active = tasks[t].active
        BY <3>2 DEF IInv, NoReferenceReuse, Holds, Captured
      <4>2. /\ tasks'[t].revision >= tasks[t].revision
            /\ tasks'[t].active # tasks[t].active => tasks'[t].revision = tasks[t].revision + 1
        BY <2>1 DEF GoodStep, OwnerFenced
      <4> QED  BY <3>1, <3>2, <4>1, <4>2 DEF TaskRow
    <3>3. ASSUME NEW u \in Tasks, held'[c] = [task |-> u, row |-> tasks[u]], tasks'[u] = tasks[u]
          PROVE  /\ held'[c].row.revision <= tasks'[t].revision
                 /\ held'[c].row.revision = tasks'[t].revision
                      => held'[c].row.active = tasks'[t].active
      BY <3>1, <3>3 DEF TaskRow
    <3> QED  BY <1>1, <3>2, <3>3, CopiesAge
  <2> QED  BY <2>1, <2>2, <2>3 DEF GoodStep, IInv
<1>2. CASE UNCHANGED vars
  <2>1. tasks' = tasks /\ runs' = runs /\ held' = held
    BY <1>2 DEF vars
  <2>2. GoodStep
    BY <2>1, StutterKeeps DEF IInv, storeVars
  <2> QED  BY <2>1, <2>2 DEF GoodStep, IInv, NoReferenceReuse, Holds
<1> QED  BY <1>1, <1>2

-----------------------------------------------------------------------------

THEOREM Invariance == Spec => []IInv
<1>1. Init => IInv
  BY InitEstablishes
<1>2. IInv /\ [Next]_vars => IInv'
  BY StepKeeps
<1> QED  BY <1>1, <1>2, PTL DEF Spec

\* The rows and the copies stay well formed: no generation passes MaxRevision.
THEOREM TypeCorrect == Spec => []TypeOK
<1>1. IInv => TypeOK
  BY DEF IInv, StoreInv, TypeOK
<1> QED  BY <1>1, Invariance, PTL

\* No order of calls makes a Task and its Run disagree.
THEOREM OwnersAgree == Spec => []OwnerAgrees
<1>1. IInv => OwnerAgrees
  BY DEF IInv, StoreInv
<1> QED  BY <1>1, Invariance, PTL

\* Whoever calls, a running Run is owned by its Task.
THEOREM RunningOwned == Spec => []RunningIsOwned
<1>1. IInv => RunningIsOwned
  BY DEF IInv, StoreInv
<1> QED  BY <1>1, Invariance, PTL

\* A Task never executes twice at once.
THEOREM ExclusiveExecution == Spec => []AtMostOneRunning
<1>1. IInv => AtMostOneRunning
  BY DEF IInv, StoreInv, RunningIsOwned, AtMostOneRunning
<1> QED  BY <1>1, Invariance, PTL

\* A Task that waits for its next attempt has left the last one behind.
THEOREM PendingUnowned == Spec => []PendingIsUnowned
<1>1. IInv => PendingIsUnowned
  BY DEF IInv, StoreInv
<1> QED  BY <1>1, Invariance, PTL

\* A reference is never reused, however old the copy that carries it.
THEOREM ReferencesAreUnique == Spec => []NoReferenceReuse
<1>1. IInv => NoReferenceReuse
  BY DEF IInv
<1> QED  BY <1>1, Invariance, PTL

\* The first report of a Run is the last word about it.
THEOREM OutcomesAreFinal == Spec => OutcomeIsFinal
<1>1. IInv /\ [Next]_vars => [OutcomesKept]_vars
  BY StepKeeps
<1> QED  BY <1>1, Invariance, PTL DEF Spec, OutcomeIsFinal

\* Ownership is fenced by the generation.
THEOREM GenerationsFence == Spec => GenerationFence
<1>1. IInv /\ [Next]_vars => [OwnerFenced]_vars
  BY StepKeeps
<1> QED  BY <1>1, Invariance, PTL DEF Spec, GenerationFence

\* The store implements exclusive attempts.
THEOREM AttemptsImplemented == Spec => ImplementsAttempts
<1>1. Init => Attempts!Init
  BY InitEstablishes
<1>2. IInv /\ [Next]_vars => [Attempts!Next]_(Attempts!attemptVars)
  BY StepKeeps
<1> QED  BY <1>1, <1>2, Invariance, PTL DEF Spec, ImplementsAttempts, Attempts!Spec
=============================================================================
