--------------------------- MODULE TaskStoreProofs ---------------------------
(***************************************************************************)
(* Every operation of the store is one of five effects on the rows, each   *)
(* effect keeps StoreInv, fences the owner, keeps the outcomes and is a    *)
(* step of TaskAttempts.  Any specification whose actions use only the     *)
(* operations of TaskStore inherits the conclusion of StepKeepsStore.      *)
(***************************************************************************)
EXTENDS TaskStore, TLAPS, WellFoundedInduction

USE NoTaskAssumption, NoRunAssumption, MaxRevisionAssumption

\* Any set of naturals has a least element.
LEMMA LeastNat == ASSUME NEW T, T \subseteq Nat, T # {} PROVE \E m \in T : \A n \in T : m <= n
<1> DEFINE less == {ss \in Nat \X Nat : ss[1] < ss[2]}
<1>1. IsWellFoundedOn(less, Nat)
  BY NatLessThanWellFounded DEF OpToRel
<1>2. PICK m \in T : \A n \in T : ~ (<<n, m>> \in less)
  <2> HIDE DEF less
  <2> QED  BY <1>1, WFMin
<1>3. \A n \in T : ~ (n < m)
  BY <1>2
<1> QED  BY <1>3

-----------------------------------------------------------------------------
(* The effects.                                                            *)

\* A status is written inside a generation.
StatusWrite(t, status) ==
  /\ status \in TaskStatus \cup Missing
  /\ status = "absent" => tasks[t].active = NoRun
  /\ status = "pending" => tasks[t].active = NoRun
  /\ SetTaskStatus(t, status)
  /\ UNCHANGED runs

AttemptEnds(t, status, retries) ==
  /\ status \in TaskStatus /\ retries \in Nat
  /\ EndAttempt(t, status, retries)

OutcomeWrite(r, outcome) == outcome \in RunOutcome /\ CompleteRun(r, outcome)

StoreEffect ==
  \/ UNCHANGED storeVars
  \/ \E t \in Tasks : \E status \in TaskStatus \cup Missing : StatusWrite(t, status)
  \/ \E t \in Tasks : \E ref : \E r \in Runs : Claim(t, ref, r)
  \/ \E t \in Tasks : \E status \in TaskStatus : \E retries \in Nat : AttemptEnds(t, status, retries)
  \/ \E r \in Runs : \E outcome \in RunOutcome : OutcomeWrite(r, outcome)
  \/ \E r \in Runs : MarkRunCollected(r)

\* What an effect does to the rows, and to the attempts read off them.
GoodStep == StoreInv' /\ OwnerFenced /\ OutcomesKept /\ [Attempts!Next]_(Attempts!attemptVars)

-----------------------------------------------------------------------------
LEMMA StatusWriteKeeps ==
  ASSUME StoreInv, NEW t \in Tasks, NEW status \in TaskStatus \cup Missing, StatusWrite(t, status)
  PROVE  GoodStep
<1> USE DEF StoreInv, StoreTypeOK
<1>1. /\ tasks' = [tasks EXCEPT ![t].status = status]
      /\ runs' = runs
  BY DEF StatusWrite, SetTaskStatus
<1>2. \A u \in Tasks : /\ tasks'[u].active = tasks[u].active
                       /\ tasks'[u].revision = tasks[u].revision
                       /\ u # t => tasks'[u] = tasks[u]
  BY <1>1 DEF TaskRow
<1>3. StoreTypeOK'
  BY <1>1 DEF TaskRow
<1>4. OwnerAgrees'
  BY <1>1, <1>2 DEF OwnerAgrees, Consistent
<1>5. RunningIsOwned'
  <2> SUFFICES ASSUME NEW r \in Runs, runs[r].status = "running"
               PROVE  tasks'[runs[r].task].active = r
    BY <1>1 DEF RunningIsOwned
  <2> QED  BY <1>2 DEF RunningIsOwned, RowsAreRooted
<1>6. PendingIsUnowned'
  BY <1>1, <1>2 DEF PendingIsUnowned, StatusWrite, TaskRow
<1>7. RowsAreRooted'
  BY <1>1, <1>2 DEF RowsAreRooted, StatusWrite, TaskRow
<1>8. OwnerFenced /\ OutcomesKept
  BY <1>1, <1>2, <1>3 DEF OwnerFenced, OutcomesKept, TaskRow
<1>9. UNCHANGED Attempts!attemptVars
  BY <1>1, <1>2 DEF Attempts!attemptVars, genOf, liveOf, tokenOf, endedOf, RunningRunsOf, RunsOf
<1> QED  BY <1>3, <1>4, <1>5, <1>6, <1>7, <1>8, <1>9 DEF GoodStep

\* Claiming opens a generation for one Run and starts its attempt.
LEMMA ClaimKeeps ==
  ASSUME StoreInv, NEW t \in Tasks, NEW ref, NEW r \in Runs, Claim(t, ref, r)
  PROVE  GoodStep
<1> USE DEF StoreInv, StoreTypeOK
<1>1. /\ tasks[t].status = "pending" /\ tasks[t].active = NoRun
      /\ tasks[t].revision < MaxRevision
      /\ runs[r].status = "absent"
  BY DEF Claim, CanClaim, RevisionLeft
<1>2. /\ tasks' = [tasks EXCEPT ![t] = [@ EXCEPT !.status = "in_progress",
                                                !.revision = tasks[t].revision + 1,
                                                !.active = r]]
      /\ runs' = [runs EXCEPT ![r] = [status |-> "running", task |-> t,
                                      revision |-> tasks[t].revision + 1, collected |-> FALSE]]
  BY DEF Claim, TaskRow
<1>3. /\ tasks'[t].status = "in_progress"
      /\ tasks'[t].revision = tasks[t].revision + 1
      /\ tasks'[t].active = r
      /\ runs'[r].status = "running"
      /\ runs'[r].task = t
      /\ runs'[r].revision = tasks[t].revision + 1
      /\ \A u \in Tasks : u # t => tasks'[u] = tasks[u]
      /\ \A q \in Runs : q # r => runs'[q] = runs[q]
  BY <1>2 DEF TaskRow, RunRow
<1>4. StoreTypeOK'
  <2>1. tasks[t].revision + 1 \in 0..MaxRevision
    BY <1>1 DEF TaskRow
  <2>2. [tasks[t] EXCEPT !.status = "in_progress", !.revision = tasks[t].revision + 1,
                         !.active = r] \in TaskRow
    BY <2>1 DEF TaskRow, TaskStatus
  <2>3. [status |-> "running", task |-> t, revision |-> tasks[t].revision + 1,
         collected |-> FALSE] \in RunRow
    BY <2>1 DEF RunRow
  <2> QED  BY <1>2, <2>2, <2>3
<1>5. \A u \in Tasks : u # t => tasks[u].active # r
  BY <1>1 DEF OwnerAgrees, Consistent
<1>6. OwnerAgrees'
  BY <1>3, <1>5 DEF OwnerAgrees, Consistent, TaskRow
<1>7. RunningIsOwned'
  <2> SUFFICES ASSUME NEW q \in Runs, runs'[q].status = "running"
               PROVE  tasks'[runs'[q].task].active = q
    BY DEF RunningIsOwned
  <2>1. CASE q = r
    BY <2>1, <1>3
  <2>2. CASE q # r
    <3>1. runs[q].status = "running" /\ runs'[q].task = runs[q].task /\ runs[q].task \in Tasks
      BY <2>2, <1>3 DEF RowsAreRooted
    <3>2. tasks[runs[q].task].active = q
      BY <3>1 DEF RunningIsOwned
    <3>3. runs[q].task # t
      BY <3>2, <1>1
    <3> QED  BY <3>1, <3>2, <3>3, <1>3
  <2> QED  BY <2>1, <2>2
<1>8. PendingIsUnowned'
  BY <1>3 DEF PendingIsUnowned
<1>9. RowsAreRooted'
  BY <1>3 DEF RowsAreRooted
<1>10. OwnerFenced /\ OutcomesKept
  BY <1>1, <1>3, <1>4 DEF OwnerFenced, OutcomesKept, TaskRow, RunOutcome
<1>11. Attempts!Start(t, r)
  <2>1. RunningRunsOf(t) = {}
    BY <1>1 DEF RunningRunsOf, RunsOf, RunningIsOwned
  <2>2. Attempts!Fresh(r)
    BY <1>1 DEF Attempts!Fresh, endedOf, liveOf, RunningRunsOf, RunsOf, RunOutcome
  <2>3. genOf' = [genOf EXCEPT ![t] = genOf[t] + 1]
    BY <1>3 DEF genOf
  <2>4. tokenOf' = [tokenOf EXCEPT ![r] = genOf[t] + 1]
    BY <1>3 DEF tokenOf, genOf
  <2>5. endedOf' = endedOf
    BY <1>1, <1>3 DEF endedOf, RunOutcome
  <2>6. \A u \in Tasks : RunningRunsOf(u)' = IF u = t THEN {r} ELSE RunningRunsOf(u)
    <3> TAKE u \in Tasks
    <3>1. CASE u = t
      <4>1. \A q \in Runs : q # r => ~(runs'[q].task = t /\ runs'[q].status = "running")
        BY <1>1, <1>3 DEF RunningIsOwned
      <4> QED  BY <3>1, <4>1, <1>3 DEF RunningRunsOf, RunsOf
    <3>2. CASE u # t
      BY <3>2, <1>1, <1>3 DEF RunningRunsOf, RunsOf
    <3> QED  BY <3>1, <3>2
  <2>7. liveOf' = [liveOf EXCEPT ![t] = {r}]
    BY <2>6 DEF liveOf
  <2> QED  BY <2>1, <2>2, <2>3, <2>4, <2>5, <2>7 DEF Attempts!Start, liveOf, Attempts!Fresh
<1> QED  BY <1>4, <1>6, <1>7, <1>8, <1>9, <1>10, <1>11 DEF GoodStep, Attempts!Next

\* Ending an attempt opens a generation without an owner and stops its Run.
LEMMA AttemptEndsKeeps ==
  ASSUME StoreInv, NEW t \in Tasks, NEW status \in TaskStatus, NEW retries \in Nat,
         AttemptEnds(t, status, retries)
  PROVE  GoodStep
<1> USE DEF StoreInv, StoreTypeOK
<1> DEFINE own == tasks[t].active
<1>1. /\ tasks[t].revision < MaxRevision
      /\ tasks' = [tasks EXCEPT ![t] = [status |-> status, revision |-> tasks[t].revision + 1,
                                        active |-> NoRun, retries |-> retries]]
      /\ runs' = IF LiveRun(t) THEN [runs EXCEPT ![own] = [@ EXCEPT !.status = "killed"]] ELSE runs
  BY DEF AttemptEnds, EndAttempt, RevisionLeft, ReleaseTask, KillActiveRun
<1>2. /\ tasks'[t].active = NoRun
      /\ tasks'[t].revision = tasks[t].revision + 1
      /\ tasks'[t].status = status
      /\ \A u \in Tasks : u # t => tasks'[u] = tasks[u]
  BY <1>1
<1>3. LiveRun(t) => own \in Runs /\ runs[own].status = "running" /\ runs[own].task = t
  BY DEF LiveRun, TaskRow, OwnerAgrees, Consistent
<1>4. \A q \in Runs :
        /\ runs'[q].task = runs[q].task
        /\ runs'[q].revision = runs[q].revision
        /\ runs'[q].collected = runs[q].collected
        /\ runs'[q].status = IF LiveRun(t) /\ q = own THEN "killed" ELSE runs[q].status
  BY <1>1, <1>3 DEF RunRow
<1>5. \A q \in Runs : runs[q].status = "running" /\ runs[q].task = t => LiveRun(t) /\ q = own
  BY DEF RunningIsOwned, LiveRun
<1>6. StoreTypeOK'
  <2>1. tasks[t].revision + 1 \in 0..MaxRevision
    BY <1>1 DEF TaskRow
  <2>2. [status |-> status, revision |-> tasks[t].revision + 1,
         active |-> NoRun, retries |-> retries] \in TaskRow
    BY <2>1 DEF TaskRow
  <2>3. tasks' \in [Tasks -> TaskRow]
    BY <1>1, <2>2
  <2>4. runs' \in [Runs -> RunRow]
    BY <1>1, <1>3 DEF RunRow, RunOutcome
  <2> QED  BY <2>3, <2>4
<1>7. OwnerAgrees'
  BY <1>2, <1>4 DEF OwnerAgrees, Consistent, TaskRow
<1>8. RunningIsOwned'
  <2> SUFFICES ASSUME NEW q \in Runs, runs'[q].status = "running"
               PROVE  tasks'[runs'[q].task].active = q
    BY DEF RunningIsOwned
  <2>1. runs[q].status = "running" /\ runs'[q].task = runs[q].task /\ runs[q].task \in Tasks
    BY <1>4 DEF RowsAreRooted
  <2>2. runs[q].task # t
    BY <2>1, <1>4, <1>5
  <2> QED  BY <2>1, <2>2, <1>2 DEF RunningIsOwned
<1>9. PendingIsUnowned' /\ RowsAreRooted'
  <2>1. PendingIsUnowned'
    BY <1>2 DEF PendingIsUnowned
  <2>2. \A q \in Runs : runs'[q].status # "absent" => runs'[q].task \in Tasks
    BY <1>3, <1>4 DEF RowsAreRooted
  <2>3. \A u \in Tasks : tasks'[u].status = "absent" => tasks'[u].active = NoRun
    BY <1>2 DEF RowsAreRooted
  <2> QED  BY <2>1, <2>2, <2>3 DEF RowsAreRooted
<1>10. OwnerFenced /\ OutcomesKept
  BY <1>2, <1>3, <1>4, <1>6 DEF OwnerFenced, OutcomesKept, TaskRow, RunOutcome, LiveRun
<1>11. Attempts!Fence(t)
  <2>1. RunningRunsOf(t) = IF LiveRun(t) THEN {own} ELSE {}
    BY <1>3, <1>5 DEF RunningRunsOf, RunsOf
  <2>2. genOf' = [genOf EXCEPT ![t] = genOf[t] + 1]
    BY <1>2 DEF genOf
  <2>3. tokenOf' = tokenOf
    BY <1>4 DEF tokenOf
  <2>4. endedOf' = endedOf \cup RunningRunsOf(t)
    BY <2>1, <1>3, <1>4 DEF endedOf, RunOutcome
  <2>5. \A u \in Tasks : RunningRunsOf(u)' = IF u = t THEN {} ELSE RunningRunsOf(u)
    <3> TAKE u \in Tasks
    <3>1. CASE u = t
      BY <3>1, <1>4, <1>5 DEF RunningRunsOf, RunsOf
    <3>2. CASE u # t
      BY <3>2, <1>3, <1>4 DEF RunningRunsOf, RunsOf
    <3> QED  BY <3>1, <3>2
  <2>6. liveOf' = [liveOf EXCEPT ![t] = {}]
    BY <2>5 DEF liveOf
  <2> QED  BY <2>2, <2>3, <2>4, <2>6 DEF Attempts!Fence, liveOf
<1> QED  BY <1>6, <1>7, <1>8, <1>9, <1>10, <1>11 DEF GoodStep, Attempts!Next

\* An outcome is written once; a late one changes nothing.
LEMMA OutcomeWriteKeeps ==
  ASSUME StoreInv, NEW r \in Runs, NEW outcome \in RunOutcome, OutcomeWrite(r, outcome)
  PROVE  GoodStep
<1> USE DEF StoreInv, StoreTypeOK
<1>1. /\ tasks' = tasks
      /\ runs' = IF runs[r].status = "running"
                   THEN [runs EXCEPT ![r] = [@ EXCEPT !.status = outcome]] ELSE runs
  BY DEF OutcomeWrite, CompleteRun
<1>2. \A q \in Runs :
        /\ runs'[q].task = runs[q].task
        /\ runs'[q].revision = runs[q].revision
        /\ runs'[q].status = IF runs[r].status = "running" /\ q = r THEN outcome ELSE runs[q].status
  BY <1>1 DEF RunRow
<1>3. StoreTypeOK'
  BY <1>1 DEF RunRow
<1>4. OwnerAgrees' /\ RunningIsOwned'
  BY <1>1, <1>2 DEF OwnerAgrees, Consistent, RunningIsOwned, TaskRow, RunOutcome
<1>5. PendingIsUnowned' /\ RowsAreRooted'
  BY <1>1, <1>2 DEF PendingIsUnowned, RowsAreRooted
<1>6. OwnerFenced /\ OutcomesKept
  BY <1>1, <1>2 DEF OwnerFenced, OutcomesKept, TaskRow, RunOutcome
<1>7. CASE runs[r].status = "running"
  <2> DEFINE t == runs[r].task
  <2>1. t \in Tasks
    BY <1>7 DEF RowsAreRooted
  <2>2. RunningRunsOf(t) = {r}
    BY <1>7 DEF RunningRunsOf, RunsOf, RunningIsOwned
  <2>3. \A u \in Tasks : RunningRunsOf(u)' = IF u = t THEN {} ELSE RunningRunsOf(u)
    BY <2>2, <1>2, <1>7 DEF RunningRunsOf, RunsOf, RunOutcome
  <2>4. liveOf' = [liveOf EXCEPT ![t] = {}]
    BY <2>3 DEF liveOf
  <2>5. endedOf' = endedOf \cup {r}
    BY <1>2, <1>7 DEF endedOf
  <2>6. genOf' = genOf /\ tokenOf' = tokenOf
    BY <1>1, <1>2 DEF genOf, tokenOf
  <2>7. r \in liveOf[t]
    BY <2>1, <2>2 DEF liveOf
  <2>8. Attempts!Finish(t, r)
    BY <2>4, <2>5, <2>6, <2>7 DEF Attempts!Finish
  <2> QED  BY <2>1, <2>8, <1>3, <1>4, <1>5, <1>6 DEF GoodStep, Attempts!Next
<1>8. CASE runs[r].status # "running"
  <2>1. UNCHANGED Attempts!attemptVars
    BY <1>1, <1>8 DEF Attempts!attemptVars, genOf, liveOf, tokenOf, endedOf, RunningRunsOf, RunsOf
  <2> QED  BY <2>1, <1>3, <1>4, <1>5, <1>6 DEF GoodStep
<1> QED  BY <1>7, <1>8

\* Acknowledging a result touches neither owner nor outcome.
LEMMA MarkKeeps ==
  ASSUME StoreInv, NEW r \in Runs, MarkRunCollected(r)
  PROVE  GoodStep
<1> USE DEF StoreInv, StoreTypeOK
<1>1. tasks' = tasks /\ runs' = [runs EXCEPT ![r] = [@ EXCEPT !.collected = TRUE]]
  BY DEF MarkRunCollected
<1>2. \A q \in Runs : /\ runs'[q].task = runs[q].task
                      /\ runs'[q].revision = runs[q].revision
                      /\ runs'[q].status = runs[q].status
  BY <1>1 DEF RunRow
<1>3. StoreTypeOK'
  BY <1>1 DEF RunRow
<1>4. OwnerAgrees' /\ RunningIsOwned' /\ PendingIsUnowned' /\ RowsAreRooted'
  BY <1>1, <1>2 DEF OwnerAgrees, Consistent, RunningIsOwned, PendingIsUnowned, RowsAreRooted, TaskRow
<1>5. OwnerFenced /\ OutcomesKept
  BY <1>1, <1>2 DEF OwnerFenced, OutcomesKept, TaskRow
<1>6. UNCHANGED Attempts!attemptVars
  BY <1>1, <1>2 DEF Attempts!attemptVars, genOf, liveOf, tokenOf, endedOf, RunningRunsOf, RunsOf
<1> QED  BY <1>3, <1>4, <1>5, <1>6 DEF GoodStep

LEMMA StutterKeeps == ASSUME StoreInv, UNCHANGED storeVars PROVE GoodStep
<1>1. tasks' = tasks /\ runs' = runs
  BY DEF storeVars
<1>2. StoreInv'
  BY <1>1 DEF StoreInv, StoreTypeOK, OwnerAgrees, Consistent, RunningIsOwned, PendingIsUnowned,
              RowsAreRooted
<1>3. OwnerFenced /\ OutcomesKept
  BY <1>1 DEF StoreInv, StoreTypeOK, TaskRow, OwnerFenced, OutcomesKept
<1>4. UNCHANGED Attempts!attemptVars
  BY <1>1 DEF Attempts!attemptVars, genOf, liveOf, tokenOf, endedOf, RunningRunsOf, RunsOf
<1> QED  BY <1>2, <1>3, <1>4 DEF GoodStep

\* Whatever effect a step has on the store, the store stays sound and the step
\* is one of TaskAttempts.
LEMMA EffectKeepsStore == ASSUME StoreInv, StoreEffect PROVE GoodStep
  BY StutterKeeps, StatusWriteKeeps, ClaimKeeps, AttemptEndsKeeps, OutcomeWriteKeeps, MarkKeeps
     DEF StoreEffect

-----------------------------------------------------------------------------
(* Every operation is an effect.                                           *)

\* A captured row that is either outdated or names the current owner.
TrueCopy(t, seen) ==
  /\ seen \in TaskRow
  /\ seen.revision = tasks[t].revision => seen.active = tasks[t].active

LEMMA RetriesAreNat ==
  ASSUME NEW row \in TaskRow, NEW counted \in BOOLEAN
  PROVE  RetriesAfter(row, counted) \in Nat
BY DEF RetriesAfter, TaskRow

LEMMA RequeueIsEffect ==
  ASSUME StoreInv, NEW t \in Tasks, NEW ref,
         NEW countRetry \in BOOLEAN, NEW onlyIfRunRunning \in BOOLEAN,
         Requeue(t, ref, countRetry, onlyIfRunRunning)
  PROVE  StoreEffect
<1>1. RetriesAfter(tasks[t], countRetry) \in Nat
  BY RetriesAreNat DEF StoreInv, StoreTypeOK
<1>2. AttemptEnds(t, "pending", RetriesAfter(tasks[t], countRetry))
  BY <1>1 DEF Requeue, AttemptEnds, TaskStatus
<1> QED  BY <1>1, <1>2 DEF StoreEffect, TaskStatus

LEMMA MutateTransitionIsEffect ==
  ASSUME StoreInv, NEW t \in Tasks, NEW ref, NEW new \in TaskStatus, MutateTransition(t, ref, new)
  PROVE  StoreEffect
<1> DEFINE counted == new = "pending" /\ tasks[t].status = "failed"
<1>1. CASE EndAttempt(t, new, RetriesAfter(tasks[t], counted))
  <2>1. RetriesAfter(tasks[t], counted) \in Nat
    BY RetriesAreNat DEF StoreInv, StoreTypeOK
  <2>2. AttemptEnds(t, new, RetriesAfter(tasks[t], counted))
    BY <1>1, <2>1 DEF AttemptEnds
  <2> QED  BY <2>1, <2>2 DEF StoreEffect
<1>2. CASE new \notin ReleasingStatus /\ SetTaskStatus(t, new) /\ UNCHANGED runs
  <2>1. StatusWrite(t, new)
    BY <1>2 DEF StatusWrite, ReleasingStatus, TaskStatus
  <2> QED  BY <2>1 DEF StoreEffect
<1> QED  BY <1>1, <1>2 DEF MutateTransition

LEMMA CancelIsEffect ==
  ASSUME StoreInv, NEW t \in Tasks, NEW ref, Cancel(t, ref)
  PROVE  StoreEffect
<1>1. tasks[t].retries \in Nat
  BY DEF StoreInv, StoreTypeOK, TaskRow
<1>2. CASE UNCHANGED storeVars
  BY <1>2 DEF StoreEffect
<1>3. CASE tasks[t].status \in TerminalStatus /\ EndAttempt(t, tasks[t].status, tasks[t].retries)
  BY <1>1, <1>3 DEF StoreEffect, AttemptEnds, TerminalStatus, TaskStatus
<1>4. CASE EndAttempt(t, "failed", tasks[t].retries)
  BY <1>1, <1>4 DEF StoreEffect, AttemptEnds, TaskStatus
<1> QED  BY <1>2, <1>3, <1>4 DEF Cancel

\* A release of a Task without an owner is the end of no attempt at all.
LEMMA ReleaseUnowned ==
  ASSUME StoreInv, NEW t \in Tasks, NEW status \in TaskStatus, NEW retries \in Nat,
         tasks[t].active = NoRun, RevisionLeft(t), ReleaseTask(t, status, retries), UNCHANGED runs
  PROVE  StoreEffect
<1>1. AttemptEnds(t, status, retries)
  BY DEF AttemptEnds, EndAttempt, KillActiveRun, LiveRun
<1> QED  BY <1>1 DEF StoreEffect

\* The owner is not compared by the UPDATE of transition: that the copy is a
\* true one makes up for it.
LEMMA TransitionIsEffect ==
  ASSUME StoreInv, NEW t \in Tasks, NEW seen, TrueCopy(t, seen), NEW new \in TaskStatus,
         Transition(t, seen, new)
  PROVE  StoreEffect
<1>1. CASE new \in ReleasingStatus /\ seen.active # NoRun
  BY <1>1, MutateTransitionIsEffect DEF Transition
<1>2. CASE ~(new \in ReleasingStatus /\ seen.active # NoRun)
  <2>1. /\ tasks[t].revision = seen.revision
        /\ IF new = "pending"
             THEN /\ RevisionLeft(t)
                  /\ ReleaseTask(t, new, RetriesAfter(seen, seen.status = "failed"))
             ELSE SetTaskStatus(t, new)
        /\ UNCHANGED runs
    BY <1>2 DEF Transition
  <2>2. CASE new = "pending"
    <3>1. tasks[t].active = NoRun
      BY <1>2, <2>1, <2>2 DEF TrueCopy, ReleasingStatus
    <3>2. RetriesAfter(seen, seen.status = "failed") \in Nat
      BY RetriesAreNat DEF TrueCopy
    <3> QED  BY <2>1, <2>2, <3>1, <3>2, ReleaseUnowned
  <2>3. CASE new # "pending"
    BY <2>1, <2>3 DEF StoreEffect, StatusWrite, TaskStatus
  <2> QED  BY <2>2, <2>3
<1> QED  BY <1>1, <1>2

LEMMA UnsafeSetStatusIsEffect ==
  ASSUME StoreInv, NEW t \in Tasks, NEW seen, TrueCopy(t, seen), NEW new \in TaskStatus,
         UnsafeSetStatus(t, seen, new)
  PROVE  StoreEffect
<1>1. CASE new = "pending" /\ seen.active # NoRun
  BY <1>1, RequeueIsEffect DEF UnsafeSetStatus
<1>2. CASE ~(new = "pending" /\ seen.active # NoRun)
  <2>1. /\ tasks[t].revision = seen.revision
        /\ IF new = "pending" THEN RevisionLeft(t) /\ ReleaseTask(t, new, tasks[t].retries)
                              ELSE SetTaskStatus(t, new)
        /\ UNCHANGED runs
    BY <1>2 DEF UnsafeSetStatus
  <2>2. CASE new = "pending"
    <3>1. tasks[t].active = NoRun
      BY <1>2, <2>1, <2>2 DEF TrueCopy
    <3>2. tasks[t].retries \in Nat
      BY DEF StoreInv, StoreTypeOK, TaskRow
    <3> QED  BY <2>1, <2>2, <3>1, <3>2, ReleaseUnowned
  <2>3. CASE new # "pending"
    BY <2>1, <2>3 DEF StoreEffect, StatusWrite, TaskStatus
  <2> QED  BY <2>2, <2>3
<1> QED  BY <1>1, <1>2

LEMMA RowsIsEffect ==
  ASSUME StoreInv, NEW t \in Tasks,
         DeleteTask(t) \/ \E status \in {"draft", "pending"} : CreateTask(t, status)
  PROVE  StoreEffect
<1>1. CASE DeleteTask(t)
  <2>1. StatusWrite(t, "deleted")
    BY <1>1 DEF DeleteTask, StatusWrite, SetTaskStatus, Missing
  <2> QED  BY <2>1 DEF StoreEffect, Missing
<1>2. ASSUME NEW status \in {"draft", "pending"}, CreateTask(t, status) PROVE StoreEffect
  <2>1. StatusWrite(t, status)
    BY <1>2 DEF CreateTask, StatusWrite, SetTaskStatus, TaskStatus, StoreInv, RowsAreRooted
  <2> QED  BY <2>1, <1>2 DEF StoreEffect, TaskStatus
<1> QED  BY <1>1, <1>2
-----------------------------------------------------------------------------
(* What the operations write, row by row, and how the rows age.            *)

\* A Run row that is stored keeps its Task and its generation, an outcome is
\* kept, and what is acknowledged stays so.
RunsAge ==
  \A r \in Runs :
    runs[r].status # "absent" =>
      /\ runs'[r].status # "absent"
      /\ runs'[r].task = runs[r].task
      /\ runs'[r].revision = runs[r].revision
      /\ runs[r].status \in RunOutcome => runs'[r].status = runs[r].status
      /\ runs[r].collected => runs'[r].collected

\* What one ended attempt does to the rows.
LEMMA EndedAttempt ==
  ASSUME StoreInv, NEW t \in Tasks, NEW status, NEW retries, EndAttempt(t, status, retries)
  PROVE  /\ tasks'[t] = [status |-> status, revision |-> tasks[t].revision + 1,
                         active |-> NoRun, retries |-> retries]
         /\ \A u \in Tasks : u # t => tasks'[u] = tasks[u]
         /\ \A q \in Runs : /\ runs'[q].task = runs[q].task
                            /\ runs'[q].revision = runs[q].revision
                            /\ runs'[q].collected = runs[q].collected
                            /\ runs'[q].status = IF LiveRun(t) /\ q = tasks[t].active
                                                   THEN "killed" ELSE runs[q].status
<1> USE DEF StoreInv, StoreTypeOK
<1>1. /\ tasks' = [tasks EXCEPT ![t] = [status |-> status, revision |-> tasks[t].revision + 1,
                                        active |-> NoRun, retries |-> retries]]
      /\ runs' = IF LiveRun(t) THEN [runs EXCEPT ![tasks[t].active] = [@ EXCEPT !.status = "killed"]]
                               ELSE runs
  BY DEF EndAttempt, ReleaseTask, KillActiveRun
<1>2. LiveRun(t) => tasks[t].active \in Runs
  BY DEF LiveRun, TaskRow
<1> QED  BY <1>1, <1>2 DEF RunRow

LEMMA EndedRow ==
  ASSUME StoreInv, NEW t \in Tasks, NEW status, NEW retries, EndAttempt(t, status, retries)
  PROVE  /\ tasks'[t].status = status /\ tasks'[t].revision = tasks[t].revision + 1
         /\ tasks'[t].active = NoRun /\ tasks'[t].retries = retries
         /\ \A u \in Tasks : u # t => tasks'[u] = tasks[u]
<1>1. /\ tasks'[t] = [status |-> status, revision |-> tasks[t].revision + 1, active |-> NoRun, retries |-> retries]
      /\ \A u \in Tasks : u # t => tasks'[u] = tasks[u]
  BY EndedAttempt
<1> QED  BY <1>1

LEMMA StatusWritten ==
  ASSUME StoreInv, NEW t \in Tasks, NEW status, SetTaskStatus(t, status), UNCHANGED runs
  PROVE  /\ tasks'[t].status = status /\ tasks'[t].revision = tasks[t].revision
         /\ tasks'[t].active = tasks[t].active /\ tasks'[t].retries = tasks[t].retries
         /\ \A u \in Tasks : u # t => tasks'[u] = tasks[u]
         /\ runs' = runs
BY DEF StoreInv, StoreTypeOK, SetTaskStatus, TaskRow

LEMMA Claimed ==
  ASSUME StoreInv, NEW t \in Tasks, NEW ref, NEW r \in Runs, Claim(t, ref, r)
  PROVE  /\ tasks[t].status = "pending" /\ tasks[t].active = NoRun /\ runs[r].status = "absent"
         /\ tasks[t].revision < MaxRevision
         /\ RefOf(tasks[t]) = ref
         /\ tasks'[t].status = "in_progress" /\ tasks'[t].revision = tasks[t].revision + 1
         /\ tasks'[t].active = r /\ tasks'[t].retries = tasks[t].retries
         /\ runs'[r].status = "running" /\ runs'[r].task = t /\ ~runs'[r].collected
         /\ runs'[r].revision = tasks[t].revision + 1
         /\ \A u \in Tasks : u # t => tasks'[u] = tasks[u]
         /\ \A q \in Runs : q # r => runs'[q] = runs[q]
<1> USE DEF StoreInv, StoreTypeOK
<1>1. /\ tasks[t].status = "pending" /\ tasks[t].active = NoRun /\ runs[r].status = "absent"
      /\ tasks[t].revision < MaxRevision /\ RefOf(tasks[t]) = ref
  BY DEF Claim, CanClaim, RevisionLeft, Current
<1>2. /\ tasks' = [tasks EXCEPT ![t] = [@ EXCEPT !.status = "in_progress",
                                                !.revision = tasks[t].revision + 1,
                                                !.active = r]]
      /\ runs' = [runs EXCEPT ![r] = [status |-> "running", task |-> t,
                                      revision |-> tasks[t].revision + 1, collected |-> FALSE]]
  BY DEF Claim, TaskRow
<1> QED  BY <1>1, <1>2 DEF TaskRow, RunRow

LEMMA OutcomeWritten ==
  ASSUME StoreInv, NEW r \in Runs, NEW outcome, CompleteRun(r, outcome)
  PROVE  /\ tasks' = tasks
         /\ \A q \in Runs :
              /\ runs'[q].task = runs[q].task
              /\ runs'[q].revision = runs[q].revision
              /\ runs'[q].collected = runs[q].collected
              /\ runs'[q].status = IF runs[r].status = "running" /\ q = r THEN outcome ELSE runs[q].status
BY DEF StoreInv, StoreTypeOK, CompleteRun, RunRow

LEMMA Marked ==
  ASSUME StoreInv, NEW r \in Runs, MarkRunCollected(r)
  PROVE  /\ tasks' = tasks
         /\ runs[r].status # "absent"
         /\ \A q \in Runs :
              /\ runs'[q].task = runs[q].task
              /\ runs'[q].revision = runs[q].revision
              /\ runs'[q].collected = (q = r \/ runs[q].collected)
              /\ runs'[q].status = runs[q].status
<1> USE DEF StoreInv, StoreTypeOK
<1>1. tasks' = tasks /\ runs' = [runs EXCEPT ![r] = [@ EXCEPT !.collected = TRUE]] /\ runs[r].status # "absent"
  BY DEF MarkRunCollected
<1> QED  BY <1>1 DEF RunRow

LEMMA EffectAges == ASSUME StoreInv, StoreEffect PROVE RunsAge
<1>1. CASE UNCHANGED storeVars
  BY <1>1 DEF RunsAge, storeVars
<1>2. ASSUME NEW t \in Tasks, NEW status, StatusWrite(t, status) PROVE RunsAge
  BY <1>2 DEF StatusWrite, RunsAge
<1>3. ASSUME NEW t \in Tasks, NEW ref, NEW r \in Runs, Claim(t, ref, r) PROVE RunsAge
  BY <1>3, Claimed DEF RunsAge
<1>4. ASSUME NEW t \in Tasks, NEW status, NEW retries, AttemptEnds(t, status, retries) PROVE RunsAge
  <2>1. LiveRun(t) => runs[tasks[t].active].status = "running"
    BY DEF LiveRun
  <2> QED  BY <1>4, <2>1, EndedAttempt DEF AttemptEnds, RunsAge, RunOutcome
<1>5. ASSUME NEW r \in Runs, NEW outcome \in RunOutcome, OutcomeWrite(r, outcome) PROVE RunsAge
  BY <1>5, OutcomeWritten DEF OutcomeWrite, RunsAge, RunOutcome
<1>6. ASSUME NEW r \in Runs, MarkRunCollected(r) PROVE RunsAge
  BY <1>6, Marked DEF RunsAge
<1> QED  BY <1>1, <1>2, <1>3, <1>4, <1>5, <1>6 DEF StoreEffect

\* Nothing is acknowledged.
Unmarked == \A r \in Runs : runs[r].status # "absent" => runs'[r].collected = runs[r].collected

Ends(t, status) ==
  /\ Unmarked
  /\ tasks'[t].status = status /\ tasks'[t].active = NoRun /\ tasks'[t].revision = tasks[t].revision + 1
  /\ \A u \in Tasks : u # t => tasks'[u] = tasks[u]

Sets(t, status) ==
  /\ tasks'[t].status = status /\ tasks'[t].active = tasks[t].active /\ tasks'[t].revision = tasks[t].revision
  /\ \A u \in Tasks : u # t => tasks'[u] = tasks[u]
  /\ UNCHANGED runs

LEMMA EndsRow ==
  ASSUME StoreInv, NEW t \in Tasks, NEW status, NEW retries, EndAttempt(t, status, retries) PROVE Ends(t, status)
BY EndedRow, EndedAttempt DEF Ends, Unmarked

LEMMA SetsRow ==
  ASSUME StoreInv, NEW t \in Tasks, NEW status, SetTaskStatus(t, status), UNCHANGED runs PROVE Sets(t, status)
BY StatusWritten DEF Sets

LEMMA ReleaseRow ==
  ASSUME StoreInv, NEW t \in Tasks, NEW status, NEW retries, ReleaseTask(t, status, retries), UNCHANGED runs
  PROVE  Ends(t, status)
<1>1. tasks' = [tasks EXCEPT ![t] = [status |-> status, revision |-> tasks[t].revision + 1,
                                     active |-> NoRun, retries |-> retries]]
  BY DEF ReleaseTask
<1>2. /\ tasks'[t] = [status |-> status, revision |-> tasks[t].revision + 1, active |-> NoRun, retries |-> retries]
      /\ \A u \in Tasks : u # t => tasks'[u] = tasks[u]
  BY <1>1 DEF StoreInv, StoreTypeOK
<1> QED  BY <1>2 DEF Ends, Unmarked

LEMMA MutateRow ==
  ASSUME StoreInv, NEW t \in Tasks, NEW ref, NEW new, MutateTransition(t, ref, new)
  PROVE  /\ CanMoveTo(t, ref, new)
         /\ new \in ReleasingStatus => Ends(t, new) /\ RevisionLeft(t)
         /\ new \notin ReleasingStatus => Sets(t, new)
<1>1. CanMoveTo(t, ref, new)
  BY DEF MutateTransition
<1>2. CASE new \in ReleasingStatus
  <2>1. \E retries : EndAttempt(t, new, retries)
    BY <1>2 DEF MutateTransition
  <2>2. RevisionLeft(t)
    BY <2>1 DEF EndAttempt
  <2> QED  BY <1>1, <1>2, <2>1, <2>2, EndsRow
<1>3. CASE new \notin ReleasingStatus
  <2>1. SetTaskStatus(t, new) /\ UNCHANGED runs
    BY <1>3 DEF MutateTransition
  <2> QED  BY <1>1, <1>3, <2>1, SetsRow
<1> QED  BY <1>2, <1>3

LEMMA RequeueRow ==
  ASSUME StoreInv, NEW t \in Tasks, NEW ref, NEW a, NEW b, Requeue(t, ref, a, b)
  PROVE  CanRequeue(t, ref, a, b) /\ Ends(t, "pending") /\ RevisionLeft(t)
<1>1. EndAttempt(t, "pending", RetriesAfter(tasks[t], a))
  BY DEF Requeue
<1>2. RevisionLeft(t)
  BY <1>1 DEF EndAttempt
<1> QED  BY <1>1, <1>2, EndsRow DEF Requeue

LEMMA CancelRow ==
  ASSUME StoreInv, NEW t \in Tasks, NEW ref, Cancel(t, ref)
  PROVE  /\ Current(t, ref)
         /\ \/ UNCHANGED storeVars /\ tasks[t].status \in TerminalStatus
            \/ \E status \in TerminalStatus : Ends(t, status)
<1>1. Current(t, ref)
  BY DEF Cancel
<1>2. CASE tasks[t].status \in TerminalStatus /\ tasks[t].active = NoRun
  <2>1. UNCHANGED storeVars
    BY <1>2 DEF Cancel
  <2> QED  BY <1>1, <1>2, <2>1
<1>3. CASE tasks[t].status \in TerminalStatus /\ tasks[t].active # NoRun
  <2>1. EndAttempt(t, tasks[t].status, tasks[t].retries)
    BY <1>3 DEF Cancel
  <2> QED  BY <1>1, <1>3, <2>1, EndsRow
<1>4. CASE tasks[t].status \notin TerminalStatus
  <2>1. EndAttempt(t, "failed", tasks[t].retries)
    BY <1>4 DEF Cancel
  <2> QED  BY <1>1, <2>1, EndsRow DEF TerminalStatus
<1> QED  BY <1>2, <1>3, <1>4
=============================================================================
