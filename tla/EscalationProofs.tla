--------------------------- MODULE EscalationProofs ---------------------------
(***************************************************************************)
(* Escalation decides what it takes over and respects people, for any      *)
(* Tasks, Runs, policies, calls under way, users, monitors and crashes.    *)
(*                                                                         *)
(* A reference that a call or a timer keeps is never ahead of its Task     *)
(* (RefsPast), so whoever opens a generation leaves all of them behind:    *)
(* that is why a person's word stands (HeldIsLeft).  A hook that returns   *)
(* has either moved the Task or found that somebody else had (HookInv).    *)
(***************************************************************************)
EXTENDS Escalation, TaskStoreProofs, SequenceTheorems

USE EscalationAssumption, MonitorsAssumption

-----------------------------------------------------------------------------
(* The inductive invariant.                                                *)

\* Rows are never removed here, and who waits for a person is owned by nobody.
StatusInv ==
  \A t \in Tasks :
    /\ tasks[t].status \notin {"draft"} \cup Missing
    /\ tasks[t].status = "awaiting_approval" => tasks[t].active = NoRun /\ held[t]

Busy(c) == call[c].pc # "none"

Addressed ==
  /\ \A c \in Calls : Busy(c) => call[c].task \in Tasks
  /\ \A q \in Reassessors : reassess[q].pc \in {"judging", "moving"} => reassess[q].task \in Tasks

\* The generations of t that a call or a timer keeps.
Refers(t, ref) ==
  \/ \E c \in Calls : Busy(c) /\ call[c].task = t /\ call[c].ref = ref
  \/ timer[t] # NoTimer /\ timer[t].ref = ref

\* They are of the past or the present.
RefsPast == \A t \in Tasks : \A ref \in Reference : Refers(t, ref) => ref.revision <= tasks[t].revision

\* Nobody acts on the generation that a person has left behind.
Left(t) ==
  /\ tasks[t].active = NoRun
  /\ tasks[t].status \in {"failed", "done", "awaiting_approval"}
  /\ \A ref \in Reference : Refers(t, ref) => ref # RefOf(tasks[t])

HeldIsLeft == \A t \in Tasks : held[t] => Left(t)

\* No Task is owned by r, or its owner's result has been acted upon.
Decided(r) == \A t \in Tasks : tasks[t].active = r => tasks[t].status \in TerminalStatus

\* The call that the hook of the supervisor waits for.
Hooked(c) ==
  /\ loop.pc = "hook" /\ call[c].pc \notin {"none", "wake"}
  /\ call[c].task = TaskOf(loop.run)
  /\ IF call[c].pc = "arm" THEN \A t \in Tasks : tasks[t].active # loop.run
                           ELSE call[c].ref = RunRef(loop.run)

\* The result in the supervisor's hands has ended, and is decided before it is
\* acknowledged; one call at most is waited for.
HookInv ==
  /\ loop.pc # "idle" => loop.run \in Runs /\ runs[loop.run].status \in RunOutcome
  /\ loop.pc = "ack" => Decided(loop.run)
  /\ \A c \in Calls : call[c].hook => Hooked(c)
  /\ \A c, d \in Calls : call[c].hook /\ call[d].hook => c = d

IInv == TypeOK /\ StoreInv /\ StatusInv /\ Addressed /\ RefsPast /\ HeldIsLeft /\ HookInv /\ HandledIsDecided

-----------------------------------------------------------------------------
(* What the operations do to a row.                                        *)

LEMMA TransitionRow ==
  ASSUME StoreInv, NEW t \in Tasks, NEW new, Transition(t, tasks[t], new)
  PROVE  /\ new \in VALID_TRANSITIONS(tasks[t].status)
         /\ new = "pending" => Ends(t, new)
         /\ new \notin ReleasingStatus => Sets(t, new)
<1>1. CASE new \in ReleasingStatus /\ tasks[t].active # NoRun
  <2>1. MutateTransition(t, RefOf(tasks[t]), new)
    BY <1>1 DEF Transition
  <2> QED  BY <1>1, <2>1, MutateRow DEF CanMoveTo
<1>2. CASE ~(new \in ReleasingStatus /\ tasks[t].active # NoRun)
  <2>1. new \in VALID_TRANSITIONS(tasks[t].status) /\ UNCHANGED runs
    BY <1>2 DEF Transition
  <2>2. CASE new = "pending"
    <3>1. \E retries : ReleaseTask(t, new, retries)
      BY <1>2, <2>2 DEF Transition
    <3> QED  BY <2>1, <2>2, <3>1, ReleaseRow DEF ReleasingStatus
  <2>3. CASE new # "pending"
    <3>1. SetTaskStatus(t, new)
      BY <1>2, <2>3 DEF Transition
    <3> QED  BY <2>1, <2>3, <3>1, SetsRow
  <2> QED  BY <2>2, <2>3
<1> QED  BY <1>1, <1>2

LEMMA UnsafeRow ==
  ASSUME StoreInv, NEW t \in Tasks, NEW new, UnsafeSetStatus(t, tasks[t], new)
  PROVE  IF new = "pending" THEN Ends(t, new) ELSE Sets(t, new)
<1>1. CASE new = "pending" /\ tasks[t].active # NoRun
  <2>1. Requeue(t, RefOf(tasks[t]), FALSE, FALSE)
    BY <1>1 DEF UnsafeSetStatus
  <2> QED  BY <1>1, <2>1, RequeueRow
<1>2. CASE new = "pending" /\ tasks[t].active = NoRun
  <2>1. ReleaseTask(t, new, tasks[t].retries) /\ UNCHANGED runs
    BY <1>2 DEF UnsafeSetStatus
  <2> QED  BY <1>2, <2>1, ReleaseRow
<1>3. CASE new # "pending"
  <2>1. SetTaskStatus(t, new) /\ UNCHANGED runs
    BY <1>3 DEF UnsafeSetStatus
  <2> QED  BY <1>3, <2>1, SetsRow
<1> QED  BY <1>1, <1>2, <1>3

LEMMA TrueRow == ASSUME StoreInv, NEW t \in Tasks PROVE TrueCopy(t, tasks[t])
BY DEF TrueCopy, StoreInv, StoreTypeOK

-----------------------------------------------------------------------------
(* What a step may do to a row and to the word of a person on it.          *)

Stays(t) == tasks'[t] = tasks[t] /\ held'[t] = held[t]

Leaves(t) ==
  /\ tasks'[t].active = NoRun /\ tasks'[t].revision = tasks[t].revision + 1
  /\ \/ tasks'[t].status = "pending" /\ ~held'[t]
     \/ tasks'[t].status \in TerminalStatus
     \/ tasks'[t].status = "awaiting_approval" /\ held'[t]

Rewritten(t) ==
  /\ tasks'[t].active = tasks[t].active /\ tasks'[t].revision = tasks[t].revision
  /\ tasks'[t].status \in {"assigned", "in_progress", "review", "done", "failed"}
  /\ tasks[t].status \in TerminalStatus => tasks'[t].status \in TerminalStatus
  /\ held'[t] => held[t] /\ tasks'[t].status \in TerminalStatus

Starts(t) ==
  /\ tasks'[t].status = "in_progress" /\ tasks'[t].revision = tasks[t].revision + 1
  /\ tasks'[t].active \in Runs
  /\ runs[tasks'[t].active].status = "absent" /\ ~runs'[tasks'[t].active].collected
  /\ ~held'[t]

RowsStep == \A t \in Tasks : Stays(t) \/ Leaves(t) \/ Rewritten(t) \/ Starts(t)

OthersHeld(t) == \A u \in Tasks : u # t => held'[u] = held[u]

LEMMA EndsSteps ==
  ASSUME NEW t \in Tasks, NEW status, Ends(t, status), OthersHeld(t),
         \/ status = "pending" /\ ~held'[t]
         \/ status \in TerminalStatus
         \/ status = "awaiting_approval" /\ held'[t]
  PROVE  RowsStep /\ Unmarked
<1>1. Leaves(t)
  BY DEF Ends, Leaves
<1>2. \A u \in Tasks : u # t => Stays(u)
  BY DEF Ends, OthersHeld, Stays
<1> QED  BY <1>1, <1>2 DEF RowsStep, Ends

LEMMA SetsSteps ==
  ASSUME NEW t \in Tasks, NEW status \in {"assigned", "in_progress", "review", "done", "failed"},
         Sets(t, status), OthersHeld(t),
         tasks[t].status \in TerminalStatus => status \in TerminalStatus,
         held'[t] => held[t] /\ status \in TerminalStatus
  PROVE  RowsStep /\ Unmarked
<1>1. Rewritten(t)
  BY DEF Sets, Rewritten
<1>2. \A u \in Tasks : u # t => Stays(u)
  BY DEF Sets, OthersHeld, Stays
<1> QED  BY <1>1, <1>2 DEF RowsStep, Sets, Unmarked

LEMMA SameSteps == ASSUME UNCHANGED <<tasks, held>> PROVE RowsStep
BY DEF RowsStep, Stays

\* A new reference of a call or timer is that of the row, which nobody holds.
NewRefs ==
  \A t \in Tasks : \A ref \in Reference :
    Refers(t, ref)' => Refers(t, ref) \/ (ref = RefOf(tasks'[t]) /\ ~held'[t])

LEMMA SameRefs == ASSUME UNCHANGED <<call, timer>> PROVE NewRefs
BY DEF NewRefs, Refers, Busy

\* Only the result in the supervisor's hands is acknowledged.
MarksHandled ==
  \A r \in Runs : runs[r].status # "absent" /\ runs'[r].collected =>
    runs[r].collected \/ (loop.pc = "ack" /\ r = loop.run)

LEMMA UnmarkedMarks == ASSUME Unmarked PROVE MarksHandled
BY DEF Unmarked, MarksHandled

-----------------------------------------------------------------------------
(* What follows for the rows, the references and the acknowledged results. *)

LEMMA StatusAges == ASSUME IInv, RowsStep PROVE StatusInv'
<1>1. StatusInv
  BY DEF IInv
<1>2. ASSUME NEW t \in Tasks
      PROVE  /\ tasks'[t].status \notin {"draft"} \cup Missing
             /\ tasks'[t].status = "awaiting_approval" => tasks'[t].active = NoRun /\ held'[t]
  BY <1>1 DEF StatusInv, RowsStep, Stays, Leaves, Rewritten, Starts, TerminalStatus, Missing
<1> QED  BY <1>2 DEF StatusInv

LEMMA RevisionsTyped == ASSUME StoreInv, NEW t \in Tasks PROVE tasks[t].revision \in Nat /\ tasks[t].active \in Runs \cup {NoRun}
BY MaxRevisionAssumption DEF StoreInv, StoreTypeOK, TaskRow

LEMMA RefsAge == ASSUME IInv, StoreInv', OwnerFenced, NewRefs PROVE RefsPast'
<1>1. StoreInv /\ RefsPast
  BY DEF IInv
<1>2. ASSUME NEW t \in Tasks, NEW ref \in Reference, Refers(t, ref)' PROVE ref.revision <= tasks'[t].revision
  <2>1. /\ tasks[t].revision \in Nat /\ tasks'[t].revision \in Nat
        /\ tasks'[t].revision >= tasks[t].revision
    BY <1>1, RevisionsTyped, MaxRevisionAssumption DEF OwnerFenced, StoreInv, StoreTypeOK, TaskRow
  <2>2. ref.revision \in Nat
    BY MaxRevisionAssumption DEF Reference
  <2>3. CASE Refers(t, ref)
    BY <1>1, <2>1, <2>2, <2>3 DEF RefsPast
  <2>4. CASE ref = RefOf(tasks'[t])
    BY <2>1, <2>4 DEF RefOf
  <2> QED  BY <1>2, <2>3, <2>4 DEF NewRefs
<1> QED  BY <1>2 DEF RefsPast

LEMMA HeldAges == ASSUME IInv, RowsStep, NewRefs PROVE HeldIsLeft'
<1>1. StoreInv /\ RefsPast /\ HeldIsLeft
  BY DEF IInv
<1>2. ASSUME NEW t \in Tasks, held'[t]
      PROVE  /\ tasks'[t].active = NoRun
             /\ tasks'[t].status \in {"failed", "done", "awaiting_approval"}
             /\ \A ref \in Reference : Refers(t, ref)' => ref # RefOf(tasks'[t])
  <2>1. \A ref \in Reference : Refers(t, ref)' => Refers(t, ref)
    BY <1>2 DEF NewRefs
  <2>2. tasks[t].revision \in Nat
    BY <1>1, RevisionsTyped
  <2>3. CASE Stays(t)
    BY <1>1, <1>2, <2>1, <2>3 DEF Stays, HeldIsLeft, Left
  <2>4. CASE Leaves(t)
    <3>1. \A ref \in Reference : ref.revision \in Nat
      BY MaxRevisionAssumption DEF Reference
    <3>2. \A ref \in Reference : Refers(t, ref) => ref.revision <= tasks[t].revision
      BY <1>1 DEF RefsPast
    <3>3. RefOf(tasks'[t]).revision = tasks[t].revision + 1
      BY <2>4 DEF Leaves, RefOf
    <3>4. \A ref \in Reference : Refers(t, ref)' => ref # RefOf(tasks'[t])
      BY <2>1, <2>2, <3>1, <3>2, <3>3
    <3> QED  BY <1>2, <2>4, <3>4 DEF Leaves, TerminalStatus
  <2>5. CASE Rewritten(t)
    <3>1. held[t] /\ tasks'[t].status \in TerminalStatus /\ RefOf(tasks'[t]) = RefOf(tasks[t])
      BY <1>2, <2>5 DEF Rewritten, RefOf
    <3>2. Left(t)
      BY <1>1, <3>1 DEF HeldIsLeft
    <3> QED  BY <2>1, <2>5, <3>1, <3>2 DEF Left, Rewritten, TerminalStatus
  <2>6. ~Starts(t)
    BY <1>2 DEF Starts
  <2> QED  BY <2>3, <2>4, <2>5, <2>6 DEF RowsStep
<1> QED  BY <1>2 DEF HeldIsLeft, Left

\* The owner of a Task stays decided, and a Run that owned none will own none.
LEMMA OwnersStay ==
  ASSUME StoreInv, RowsStep, NEW r \in Runs, runs[r].status # "absent", NEW t \in Tasks, tasks'[t].active = r
  PROVE  tasks[t].active = r /\ (tasks[t].status \in TerminalStatus => tasks'[t].status \in TerminalStatus)
<1>1. r # NoRun
  BY NoRunAssumption
<1> QED  BY <1>1 DEF RowsStep, Stays, Leaves, Rewritten, Starts

LEMMA DecidedAges ==
  ASSUME StoreInv, RowsStep, NEW r \in Runs, runs[r].status # "absent", Decided(r)
  PROVE  \A t \in Tasks : tasks'[t].active = r => tasks'[t].status \in TerminalStatus
BY OwnersStay DEF Decided

LEMMA HandledAges == ASSUME IInv, StoreInv', RowsStep, MarksHandled PROVE HandledIsDecided'
<1>1. StoreInv /\ HookInv /\ HandledIsDecided
  BY DEF IInv
<1>2. ASSUME NEW t \in Tasks, tasks'[t].active # NoRun, runs'[tasks'[t].active].collected
      PROVE  tasks'[t].status \in TerminalStatus
  <2> DEFINE r == tasks'[t].active
  <2>1. r \in Runs /\ r # NoRun /\ r = tasks'[t].active
    BY <1>2 DEF StoreInv, StoreTypeOK, TaskRow
  <2> HIDE DEF r
  <2>2. CASE runs[r].status = "absent"
    <3>1. Starts(t)
      <4>1. tasks[t].active # r
        BY <1>1, <2>1, <2>2 DEF StoreInv, OwnerAgrees, Consistent
      <4> QED  BY <2>1, <4>1 DEF RowsStep, Stays, Leaves, Rewritten
    <3> QED  BY <1>2, <3>1 DEF Starts
  <2>3. CASE runs[r].status # "absent"
    <3>1. tasks[t].active = r /\ (tasks[t].status \in TerminalStatus => tasks'[t].status \in TerminalStatus)
      BY <1>1, <2>1, <2>3, OwnersStay
    <3>2. runs[r].collected \/ (loop.pc = "ack" /\ r = loop.run)
      BY <1>2, <2>1, <2>3 DEF MarksHandled
    <3>3. tasks[t].status \in TerminalStatus
      BY <1>1, <2>1, <3>1, <3>2 DEF HandledIsDecided, HookInv, Decided
    <3> QED  BY <3>1, <3>3
  <2> QED  BY <2>2, <2>3
<1> QED  BY <1>2 DEF HandledIsDecided

-----------------------------------------------------------------------------
(* The types, one by one.                                                  *)

CallRec == [pc : {"none", "enter", "act", "arm", "final", "cancel", "wake"},
            task : Tasks \cup {NoTask}, ref : Reference, level : 0..Len(policy),
            hook : BOOLEAN, nested : BOOLEAN]
TimerRec == [ref : Reference, level : 0..Len(policy)]
LoopRec == [pc : {"idle", "judge", "hook", "ack"}, run : Runs \cup {NoRun}]

LEMMA Types ==
  ASSUME IInv
  PROVE  /\ call \in [Calls -> CallRec] /\ timer \in [Tasks -> TimerRec] /\ loop \in LoopRec
         /\ level \in [Tasks -> 0..Len(policy)] /\ held \in [Tasks -> BOOLEAN]
         /\ policy \in Policies /\ policy \in Seq(Level) /\ policy # <<>>
BY DEF IInv, TypeOK, CallRec, TimerRec, LoopRec

LEMMA ReferenceOfRow == ASSUME StoreInv, NEW t \in Tasks PROVE RefOf(tasks[t]) \in Reference
BY DEF StoreInv, StoreTypeOK, TaskRow, RefOf, Reference

LEMMA ReferenceOfRun == ASSUME StoreInv, NEW r \in Runs PROVE RunRef(r) \in Reference
BY DEF StoreInv, StoreTypeOK, RunRow, RunRef, Reference

\* Who owns a Task is the Run of that Task and of its generation.
LEMMA OwnerIs ==
  ASSUME StoreInv, StatusInv, NEW r \in Runs, NEW t \in Tasks, tasks[t].active = r
  PROVE  /\ t = TaskOf(r) /\ RefOf(tasks[t]) = RunRef(r) /\ Exists(t) /\ Current(t, RunRef(r))
         /\ tasks[t].active # NoRun
<1>1. r # NoRun
  BY NoRunAssumption
<1>2. Consistent(t) /\ runs[r].task = t /\ runs[r].revision = tasks[t].revision
  BY <1>1 DEF StoreInv, OwnerAgrees, Consistent
<1>3. Exists(t)
  BY DEF StatusInv, Exists
<1> QED  BY <1>1, <1>2, <1>3 DEF TaskOf, RefOf, RunRef, Current

LEMMA RunNamed ==
  ASSUME NEW t \in Tasks, NEW r \in Runs, Current(t, RunRef(r))
  PROVE  tasks[t].active = r
BY DEF Current, RefOf, RunRef

LEMMA OwnedIsFree == ASSUME HeldIsLeft, NEW t \in Tasks, NEW r \in Runs, tasks[t].active = r PROVE ~held[t]
BY NoRunAssumption DEF HeldIsLeft, Left

LEMMA KnownTask == ASSUME StoreInv, NEW r \in Runs, runs[r].status # "absent" PROVE TaskOf(r) \in Tasks
BY DEF StoreInv, RowsAreRooted, TaskOf

-----------------------------------------------------------------------------
(* Steps that leave calls and timers alone.                                *)

GoodMove == StoreEffect /\ RowsStep /\ NewRefs /\ MarksHandled

LEMMA ClaimMoves == ASSUME IInv, NEW t \in Tasks, ClaimTask(t) PROVE GoodMove
<1>1. StoreInv /\ HeldIsLeft
  BY DEF IInv
<1>2. PICK r \in Runs : Claim(t, RefOf(tasks[t]), r)
  <2>1. (CHOOSE x \in Fresh : TRUE) \in Runs
    BY DEF ClaimTask, Fresh
  <2> QED  BY <2>1 DEF ClaimTask
<1>3. /\ tasks[t].status = "pending" /\ runs[r].status = "absent"
      /\ tasks'[t].status = "in_progress" /\ tasks'[t].revision = tasks[t].revision + 1
      /\ tasks'[t].active = r /\ ~runs'[r].collected
      /\ \A u \in Tasks : u # t => tasks'[u] = tasks[u]
      /\ \A q \in Runs : q # r => runs'[q] = runs[q]
  BY <1>1, <1>2, Claimed
<1>4. held' = held /\ UNCHANGED <<call, timer>>
  BY DEF ClaimTask, worldVars, managerVars
<1>5. RowsStep
  <2>1. ~held'[t]
    BY <1>1, <1>3, <1>4 DEF HeldIsLeft, Left
  <2>2. Starts(t)
    BY <1>3, <2>1 DEF Starts
  <2>3. \A u \in Tasks : u # t => Stays(u)
    BY <1>3, <1>4 DEF Stays
  <2> QED  BY <2>2, <2>3 DEF RowsStep
<1>6. Unmarked
  BY <1>3 DEF Unmarked
<1> QED  BY <1>2, <1>4, <1>5, <1>6, SameRefs, UnmarkedMarks DEF GoodMove, StoreEffect

LEMMA OutcomeMoves ==
  ASSUME IInv, NEW r \in Runs, NEW outcome \in {"completed", "failed"}, RunEnds(r, outcome) PROVE GoodMove
<1>1. StoreInv /\ CompleteRun(r, outcome) /\ outcome \in RunOutcome
  BY DEF IInv, RunEnds, RunOutcome
<1>2. StoreEffect
  BY <1>1 DEF StoreEffect, OutcomeWrite
<1>3. tasks' = tasks /\ Unmarked
  BY <1>1, OutcomeWritten DEF Unmarked
<1>4. held' = held /\ UNCHANGED <<call, timer>>
  BY DEF RunEnds, worldVars, managerVars
<1> QED  BY <1>2, <1>3, <1>4, SameSteps, SameRefs, UnmarkedMarks DEF GoodMove

LEMMA KillMoves == ASSUME IInv, NEW t \in Tasks, Kill(t) PROVE GoodMove
<1>1. StoreInv /\ held \in [Tasks -> BOOLEAN]
  BY Types DEF IInv
<1>2. Cancel(t, RefOf(tasks[t])) /\ tasks' # tasks
  BY DEF Kill
<1>3. PICK status \in TerminalStatus : Ends(t, status)
  BY <1>1, <1>2, CancelRow DEF storeVars
<1>4. StoreEffect
  BY <1>1, <1>2, CancelIsEffect
<1>5. OthersHeld(t) /\ UNCHANGED <<call, timer>>
  BY <1>1 DEF Kill, Decides, OthersHeld, managerVars
<1>6. RowsStep /\ Unmarked
  BY <1>3, <1>5, EndsSteps
<1> QED  BY <1>4, <1>5, <1>6, SameRefs, UnmarkedMarks DEF GoodMove

LEMMA RetryMoves == ASSUME IInv, NEW t \in Tasks, RetryTask(t) PROVE GoodMove
<1>1. StoreInv /\ held \in [Tasks -> BOOLEAN]
  BY Types DEF IInv
<1>2. Transition(t, tasks[t], "pending")
  BY DEF RetryTask
<1>3. Ends(t, "pending")
  BY <1>1, <1>2, TransitionRow
<1>4. StoreEffect
  BY <1>1, <1>2, TransitionIsEffect, TrueRow DEF TaskStatus
<1>5. OthersHeld(t) /\ ~held'[t] /\ UNCHANGED <<call, timer>>
  BY <1>1 DEF RetryTask, Decides, OthersHeld, managerVars
<1>6. RowsStep /\ Unmarked
  BY <1>3, <1>5, EndsSteps
<1> QED  BY <1>4, <1>5, <1>6, SameRefs, UnmarkedMarks DEF GoodMove

LEMMA AnswerMoves ==
  ASSUME IInv, NEW t \in Tasks, NEW new \in {"pending", "done", "failed"}, Answer(t, new) PROVE GoodMove
<1>1. StoreInv /\ held \in [Tasks -> BOOLEAN] /\ StatusInv
  BY Types DEF IInv
<1>2. UnsafeSetStatus(t, tasks[t], new) /\ tasks[t].status = "awaiting_approval"
  BY DEF Answer
<1>3. IF new = "pending" THEN Ends(t, new) ELSE Sets(t, new)
  BY <1>1, <1>2, UnsafeRow
<1>4. StoreEffect
  BY <1>1, <1>2, UnsafeSetStatusIsEffect, TrueRow DEF TaskStatus
<1>5. OthersHeld(t) /\ held'[t] = (new # "pending") /\ UNCHANGED <<call, timer>>
  BY <1>1 DEF Answer, Decides, OthersHeld, managerVars
<1>6. held[t]
  BY <1>1, <1>2 DEF StatusInv
<1>7. CASE new = "pending"
  <2>1. RowsStep /\ Unmarked
    BY <1>3, <1>5, <1>7, EndsSteps
  <2> QED  BY <1>4, <1>5, <2>1, SameRefs, UnmarkedMarks DEF GoodMove
<1>8. CASE new # "pending"
  <2>1. new \in {"assigned", "in_progress", "review", "done", "failed"} /\ new \in TerminalStatus
    BY <1>8 DEF TerminalStatus
  <2>2. RowsStep /\ Unmarked
    BY <1>3, <1>5, <1>6, <1>8, <2>1, SetsSteps
  <2> QED  BY <1>4, <1>5, <2>2, SameRefs, UnmarkedMarks DEF GoodMove
<1> QED  BY <1>7, <1>8

\* Monitors write the status "failed", over whatever they find.
LEMMA FailSets ==
  ASSUME StoreInv, NEW t \in Tasks, UnsafeSetStatus(t, tasks[t], "failed")
  PROVE  StoreEffect /\ Sets(t, "failed")
<1>1. StoreEffect
  BY UnsafeSetStatusIsEffect, TrueRow DEF TaskStatus
<1> QED  BY <1>1, UnsafeRow

LEMMA SlaMoves == ASSUME IInv, Monitoring PROVE GoodMove
<1>1. StoreInv /\ held \in [Tasks -> BOOLEAN]
  BY Types DEF IInv
<1>2. held' = held /\ UNCHANGED <<call, timer>>
  BY DEF Monitoring, worldVars, managerVars
<1>3. CASE UNCHANGED storeVars
  <2>1. tasks' = tasks /\ runs' = runs
    BY <1>3 DEF storeVars
  <2>2. Unmarked
    BY <2>1 DEF Unmarked
  <2> QED  BY <1>2, <1>3, <2>1, <2>2, SameSteps, SameRefs, UnmarkedMarks DEF GoodMove, StoreEffect
<1>4. ASSUME NEW t \in Tasks, UnsafeSetStatus(t, tasks[t], "failed") PROVE GoodMove
  <2>1. StoreEffect /\ Sets(t, "failed")
    BY <1>1, <1>4, FailSets
  <2>2. OthersHeld(t)
    BY <1>2 DEF OthersHeld
  <2>3. RowsStep /\ Unmarked
    BY <1>2, <2>1, <2>2, SetsSteps DEF TerminalStatus
  <2> QED  BY <1>2, <2>1, <2>3, SameRefs, UnmarkedMarks DEF GoodMove
<1> QED  BY <1>3, <1>4 DEF Monitoring, SlaList, SlaFail, SlaWrite

\* A reassessment that moves a Task takes the word of the person with it.
Forgets == held' = [t \in Tasks |-> held[t] /\ tasks'[t] = tasks[t]]

LEMMA ForgetSteps ==
  ASSUME IInv, Forgets, NEW t \in Tasks,
         \/ Ends(t, "pending")
         \/ \E status \in {"assigned", "in_progress", "review", "done", "failed"} :
              /\ Sets(t, status)
              /\ tasks[t].status \in TerminalStatus => status \in TerminalStatus
  PROVE  RowsStep /\ Unmarked
<1>1. held \in [Tasks -> BOOLEAN] /\ StoreInv
  BY Types DEF IInv
<1>2. \A u \in Tasks : held'[u] = (held[u] /\ tasks'[u] = tasks[u])
  BY DEF Forgets
<1>3. \A u \in Tasks : tasks'[u] = tasks[u] => Stays(u)
  BY <1>1, <1>2 DEF Stays
<1>4. \A u \in Tasks : u # t => tasks'[u] = tasks[u]
  BY DEF Ends, Sets
<1>5. CASE Ends(t, "pending")
  <2>1. tasks'[t].revision = tasks[t].revision + 1 /\ tasks[t].revision \in Nat
    BY <1>1, <1>5, RevisionsTyped DEF Ends
  <2>2. tasks'[t].revision # tasks[t].revision
    BY <2>1
  <2>3. ~held'[t]
    BY <1>2, <2>2
  <2>4. Leaves(t)
    BY <1>5, <2>3 DEF Ends, Leaves
  <2> QED  BY <1>3, <1>4, <1>5, <2>4 DEF RowsStep, Ends
<1>6. ASSUME NEW status \in {"assigned", "in_progress", "review", "done", "failed"}, Sets(t, status),
             tasks[t].status \in TerminalStatus => status \in TerminalStatus
      PROVE  RowsStep /\ Unmarked
  <2>1. tasks'[t] # tasks[t] => Rewritten(t)
    BY <1>2, <1>6 DEF Sets, Rewritten
  <2>2. Unmarked
    BY <1>6 DEF Sets, Unmarked
  <2> QED  BY <1>3, <1>4, <2>1, <2>2 DEF RowsStep
<1> QED  BY <1>5, <1>6

LEMMA ReassessMovesRow ==
  ASSUME IInv, NEW q \in Reassessors, ReassessMoves(q)
  PROVE  \/ UNCHANGED storeVars
         \/ \E t \in Tasks :
              /\ StoreEffect
              /\ \/ Ends(t, "pending")
                 \/ \E status \in {"assigned", "in_progress", "review", "done", "failed"} :
                      /\ Sets(t, status)
                      /\ tasks[t].status \in TerminalStatus => status \in TerminalStatus
<1> DEFINE t == reassess[q].task
           new == Chain[reassess[q].step]
<1>1. StoreInv /\ t \in Tasks /\ reassess[q].step \in 1..5
  BY DEF IInv, Addressed, ReassessMoves, TypeOK, MonitorsTypeOK, Request
<1>2. new \in {"pending", "assigned", "in_progress", "review", "done"}
  BY <1>1 DEF Chain
<1>3. UNCHANGED storeVars \/ (Transition(t, tasks[t], new) /\ new \in VALID_TRANSITIONS(tasks[t].status))
  BY DEF ReassessMoves
<1> HIDE DEF t, new
<1>4. ASSUME Transition(t, tasks[t], new), new \in VALID_TRANSITIONS(tasks[t].status)
      PROVE  /\ StoreEffect
             /\ \/ Ends(t, "pending")
                \/ \E status \in {"assigned", "in_progress", "review", "done", "failed"} :
                     /\ Sets(t, status)
                     /\ tasks[t].status \in TerminalStatus => status \in TerminalStatus
  <2>1. StoreEffect
    <3>1. new \in TaskStatus
      BY <1>2 DEF TaskStatus
    <3> QED  BY <1>1, <1>4, <3>1, TransitionIsEffect, TrueRow
  <2>2. /\ new = "pending" => Ends(t, new)
        /\ new \notin ReleasingStatus => Sets(t, new)
    BY <1>1, <1>4, TransitionRow
  <2>3. tasks[t].status \in TerminalStatus => new = "pending"
    BY <1>4 DEF VALID_TRANSITIONS, TerminalStatus
  <2> QED  BY <1>2, <2>1, <2>2, <2>3 DEF ReleasingStatus
<1> QED  BY <1>1, <1>3, <1>4

LEMMA ReassessingMoves == ASSUME IInv, NEW q \in Reassessors, Reassessing(q) PROVE GoodMove
<1>1. StoreInv /\ held \in [Tasks -> BOOLEAN]
  BY Types DEF IInv
<1>2. Forgets /\ UNCHANGED <<call, timer>>
  BY DEF Reassessing, Forgets, managerVars
<1>3. CASE UNCHANGED storeVars
  <2>1. tasks' = tasks /\ runs' = runs
    BY <1>3 DEF storeVars
  <2>2. RowsStep /\ Unmarked
    BY <1>1, <1>2, <2>1 DEF RowsStep, Stays, Unmarked, Forgets
  <2> QED  BY <1>2, <1>3, <2>2, SameRefs, UnmarkedMarks DEF GoodMove, StoreEffect
<1>4. ASSUME NEW t \in Tasks, UnsafeSetStatus(t, tasks[t], "failed") PROVE GoodMove
  <2>1. StoreEffect /\ Sets(t, "failed")
    BY <1>1, <1>4, FailSets
  <2>2. RowsStep /\ Unmarked
    BY <1>2, <2>1, ForgetSteps DEF TerminalStatus
  <2> QED  BY <1>2, <2>1, <2>2, SameRefs, UnmarkedMarks DEF GoodMove
<1>5. CASE ReassessMoves(q)
  <2>1. ASSUME NEW t \in Tasks, StoreEffect,
               \/ Ends(t, "pending")
               \/ \E status \in {"assigned", "in_progress", "review", "done", "failed"} :
                    /\ Sets(t, status)
                    /\ tasks[t].status \in TerminalStatus => status \in TerminalStatus
        PROVE  GoodMove
    <3>1. RowsStep /\ Unmarked
      BY <1>2, <2>1, ForgetSteps
    <3> QED  BY <1>2, <2>1, <3>1, SameRefs, UnmarkedMarks DEF GoodMove
  <2> QED  BY <1>3, <1>5, <2>1, ReassessMovesRow
<1>6. CASE ReassessFails(q)
  <2>1. reassess[q].task \in Tasks
    BY <1>6 DEF IInv, Addressed, ReassessFails
  <2> QED  BY <1>3, <1>4, <1>6, <2>1 DEF ReassessFails
<1>7. CASE (\E t \in Tasks : ReassessBegin(q, t)) \/ ReassessPasses(q)
  BY <1>3, <1>7 DEF ReassessBegin, ReassessPasses
<1> QED  BY <1>5, <1>6, <1>7 DEF Reassessing, Reassessment

-----------------------------------------------------------------------------
(* Steps of the supervisor.                                                *)

LEMMA CollectMoves == ASSUME IInv, NEW r \in Runs, Collect(r) PROVE GoodMove
<1>1. StoreInv /\ HeldIsLeft /\ held' = held /\ runs' = runs /\ UNCHANGED <<call, timer>>
  BY DEF IInv, Collect, worldVars, managerVars
<1>2. CASE tasks' = tasks
  <2>1. Unmarked
    BY <1>1 DEF Unmarked
  <2> QED  BY <1>1, <1>2, <2>1, SameSteps, SameRefs, UnmarkedMarks DEF GoodMove, StoreEffect, storeVars
<1>3. ASSUME Current(TaskOf(r), RunRef(r)), tasks[TaskOf(r)].status = "in_progress", SetTaskStatus(TaskOf(r), "review")
      PROVE  GoodMove
  <2> DEFINE t == TaskOf(r)
  <2>1. t \in Tasks
    <3>1. runs[r].status # "absent"
      BY DEF Collect, RunOutcome
    <3> QED  BY <1>1, <3>1, KnownTask
  <2> HIDE DEF t
  <2>2. tasks[t].status = "in_progress" /\ SetTaskStatus(t, "review") /\ Current(t, RunRef(r))
    BY <1>3 DEF t
  <2>3. Sets(t, "review")
    BY <1>1, <2>1, <2>2, SetsRow
  <2>4. ~held[t]
    BY <1>1, <2>1, <2>2, RunNamed, OwnedIsFree
  <2>5. RowsStep /\ Unmarked
    BY <1>1, <2>1, <2>2, <2>3, <2>4, SetsSteps DEF OthersHeld, TerminalStatus
  <2>6. StoreEffect
    <3>1. StatusWrite(t, "review")
      BY <1>1, <2>2 DEF StatusWrite, TaskStatus
    <3> QED  BY <2>1, <3>1 DEF StoreEffect, TaskStatus
  <2> QED  BY <1>1, <2>5, <2>6, SameRefs, UnmarkedMarks DEF GoodMove
<1> QED  BY <1>2, <1>3 DEF Collect

LEMMA AcceptMoves == ASSUME IInv, JudgeAccepts PROVE GoodMove
<1> DEFINE r == loop.run
           t == TaskOf(r)
<1>1. /\ StoreInv /\ HeldIsLeft /\ held' = held /\ UNCHANGED <<call, timer>>
      /\ r \in Runs /\ runs[r].status # "absent"
  BY DEF IInv, HookInv, JudgeAccepts, worldVars, managerVars, RunOutcome
<1>2. t \in Tasks
  BY <1>1, KnownTask
<1>3. UNCHANGED storeVars \/ MutateTransition(t, RunRef(r), "done")
  BY DEF JudgeAccepts
<1> HIDE DEF r, t
<1>4. CASE UNCHANGED storeVars
  <2>1. tasks' = tasks /\ Unmarked
    BY <1>4 DEF storeVars, Unmarked
  <2> QED  BY <1>1, <1>4, <2>1, SameSteps, SameRefs, UnmarkedMarks DEF GoodMove, StoreEffect
<1>5. CASE MutateTransition(t, RunRef(r), "done")
  <2>1. CanMoveTo(t, RunRef(r), "done") /\ Sets(t, "done")
    BY <1>1, <1>2, <1>5, MutateRow DEF ReleasingStatus
  <2>2. ~held[t]
    BY <1>1, <1>2, <2>1, RunNamed, OwnedIsFree DEF CanMoveTo
  <2>3. RowsStep /\ Unmarked
    BY <1>1, <1>2, <2>1, <2>2, SetsSteps DEF OthersHeld, TerminalStatus
  <2>4. StoreEffect
    BY <1>1, <1>2, <1>5, MutateTransitionIsEffect DEF TaskStatus
  <2> QED  BY <1>1, <2>3, <2>4, SameRefs, UnmarkedMarks DEF GoodMove
<1> QED  BY <1>3, <1>4, <1>5

LEMMA AcknowledgeMoves == ASSUME IInv, Acknowledge PROVE GoodMove
<1>1. /\ StoreInv /\ held' = held /\ UNCHANGED <<call, timer>>
      /\ loop.pc = "ack" /\ loop.run \in Runs /\ MarkRunCollected(loop.run)
  BY DEF IInv, HookInv, Acknowledge, worldVars, managerVars
<1>2. tasks' = tasks /\ \A q \in Runs : runs'[q].collected = (q = loop.run \/ runs[q].collected)
  BY <1>1, Marked
<1>3. MarksHandled
  BY <1>1, <1>2 DEF MarksHandled
<1> QED  BY <1>1, <1>2, <1>3, SameSteps, SameRefs DEF GoodMove, StoreEffect

-----------------------------------------------------------------------------
(* New calls.                                                              *)

LEMMA CallRefs ==
  ASSUME call \in [Calls -> CallRec], NEW c \in Calls, NEW rec, call' = [call EXCEPT ![c] = rec],
         \/ rec.pc = "none"
         \/ Refers(rec.task, rec.ref)
         \/ rec.ref = RefOf(tasks'[rec.task]) /\ ~held'[rec.task],
         \A t \in Tasks : timer'[t] # NoTimer => Refers(t, timer'[t].ref)
  PROVE  NewRefs
<1>1. ASSUME NEW t \in Tasks, NEW ref \in Reference, Refers(t, ref)'
      PROVE  Refers(t, ref) \/ (ref = RefOf(tasks'[t]) /\ ~held'[t])
  <2>1. CASE timer'[t] # NoTimer /\ timer'[t].ref = ref
    BY <2>1
  <2>2. ASSUME NEW d \in Calls, call'[d].pc # "none", call'[d].task = t, call'[d].ref = ref
        PROVE  Refers(t, ref) \/ (ref = RefOf(tasks'[t]) /\ ~held'[t])
    <3>1. CASE d = c
      <4>1. call'[c] = rec
        OBVIOUS
      <4> QED  BY <2>2, <3>1, <4>1
    <3>2. CASE d # c
      <4>1. call'[d] = call[d]
        BY <3>2
      <4> QED  BY <2>2, <4>1 DEF Refers, Busy
    <3> QED  BY <3>1, <3>2
  <2> QED  BY <1>1, <2>1, <2>2 DEF Refers, Busy
<1> QED  BY <1>1 DEF NewRefs

LEMMA BeginPuts ==
  ASSUME NEW rec, Begin(rec)
  PROVE  \E c \in Calls : call[c] = NoCall /\ call' = [call EXCEPT ![c] = rec]
<1> DEFINE c == CHOOSE x \in Free : \A d \in Free : x <= d
<1>1. Free \subseteq Nat /\ Free # {} /\ Free \subseteq Calls
  BY EscalationAssumption DEF Begin, Free, Calls
<1>2. \E x \in Free : \A d \in Free : x <= d
  BY <1>1, LeastNat
<1>3. c \in Free
  BY <1>2
<1>4. call' = [call EXCEPT ![c] = rec]
  BY DEF Begin
<1> HIDE DEF c
<1> QED  BY <1>1, <1>3, <1>4 DEF Free

LEMMA LevelsTyped ==
  ASSUME policy \in Seq(Level), policy # <<>>, level \in [Tasks -> 0..Len(policy)], NEW t \in Tasks
  PROVE  LevelFor(t) \in 0..Len(policy)
<1> DEFINE own == {l \in DOMAIN policy : policy[l].handler # "agent"}
<1>1. Len(policy) \in Nat /\ DOMAIN policy = 1..Len(policy)
  OBVIOUS
<1>2. own \subseteq 1..Len(policy) /\ own \subseteq Nat
  BY <1>1
<1>3. StartLevel = IF own = {} THEN Len(policy) ELSE CHOOSE l \in own : \A k \in own : l <= k
  BY DEF StartLevel
<1> HIDE DEF own
<1>4. own # {} => \E l \in own : \A k \in own : l <= k
  BY <1>2, LeastNat
<1>5. own # {} => (CHOOSE l \in own : \A k \in own : l <= k) \in own
  BY <1>4
<1>6. StartLevel \in 0..Len(policy)
  <2>1. CASE own = {}
    BY <1>1, <1>3, <2>1
  <2>2. CASE own # {}
    <3>1. StartLevel \in own
      BY <1>3, <1>5, <2>2
    <3> QED  BY <1>1, <1>2, <3>1
  <2> QED  BY <2>1, <2>2
<1> QED  BY <1>6 DEF LevelFor

\* The call that the hook waits for, and the one of a timer that fires.
HookCall(r) == [pc |-> "enter", task |-> TaskOf(r), ref |-> RunRef(r), level |-> LevelFor(TaskOf(r)),
                hook |-> TRUE, nested |-> FALSE]
WakeCall(t) == [pc |-> "wake", task |-> t, ref |-> timer[t].ref, level |-> timer[t].level,
                hook |-> FALSE, nested |-> FALSE]

LEMMA ExhaustedMoves == ASSUME IInv, JudgeExhausted PROVE GoodMove
<1> DEFINE r == loop.run
           t == TaskOf(r)
<1>1. /\ StoreInv /\ HeldIsLeft /\ held' = held /\ timer' = timer /\ tasks' = tasks /\ runs' = runs
      /\ r \in Runs /\ runs[r].status # "absent"
  BY DEF IInv, HookInv, JudgeExhausted, worldVars, storeVars, RunOutcome
<1>2. t \in Tasks
  BY <1>1, KnownTask
<1>3. Unmarked /\ RowsStep /\ StoreEffect
  BY <1>1, SameSteps DEF Unmarked, StoreEffect, storeVars
<1>4. call' = call \/ (Current(t, RunRef(r)) /\ Begin(HookCall(r)))
  BY DEF JudgeExhausted, HookCall
<1> HIDE DEF r, t
<1>5. NewRefs
  <2>1. CASE call' = call
    BY <1>1, <2>1, SameRefs
  <2>2. CASE Current(t, RunRef(r)) /\ Begin(HookCall(r))
    <3>1. PICK c \in Calls : call' = [call EXCEPT ![c] = HookCall(r)]
      BY <2>2, BeginPuts
    <3>2. RefOf(tasks'[t]) = RunRef(r) /\ ~held'[t]
      BY <1>1, <1>2, <2>2, RunNamed, OwnedIsFree DEF Current
    <3>3. HookCall(r).ref = RunRef(r) /\ HookCall(r).task = t
      BY DEF HookCall, t
    <3>4. \A u \in Tasks : timer'[u] # NoTimer => Refers(u, timer'[u].ref)
      BY <1>1 DEF Refers
    <3> HIDE DEF HookCall
    <3> QED  BY <3>1, <3>2, <3>3, <3>4, CallRefs, Types
  <2> QED  BY <1>4, <2>1, <2>2
<1> QED  BY <1>3, <1>5, UnmarkedMarks DEF GoodMove

LEMMA TimerMoves == ASSUME IInv, NEW t \in Tasks, TimerFires(t) PROVE GoodMove
<1>1. /\ held' = held /\ tasks' = tasks /\ runs' = runs
      /\ timer[t] # NoTimer /\ timer' = [timer EXCEPT ![t] = NoTimer] /\ Begin(WakeCall(t))
  BY DEF TimerFires, WakeCall, worldVars, storeVars
<1>2. Unmarked /\ RowsStep /\ StoreEffect
  BY <1>1, SameSteps DEF Unmarked, StoreEffect, storeVars
<1>3. PICK c \in Calls : call' = [call EXCEPT ![c] = WakeCall(t)]
  BY <1>1, BeginPuts
<1>4. Refers(WakeCall(t).task, WakeCall(t).ref)
  BY <1>1 DEF WakeCall, Refers
<1>5. \A u \in Tasks : timer'[u] # NoTimer => Refers(u, timer'[u].ref)
  <2>1. timer \in [Tasks -> TimerRec]
    BY Types
  <2>2. \A u \in Tasks : timer'[u] = IF u = t THEN NoTimer ELSE timer[u]
    BY <1>1, <2>1
  <2> QED  BY <2>2 DEF Refers
<1>6. NewRefs
  BY <1>3, <1>4, <1>5, CallRefs, Types
<1> QED  BY <1>2, <1>6, UnmarkedMarks DEF GoodMove

LEMMA CrashMoves == ASSUME IInv, Crash PROVE GoodMove
<1>1. /\ held' = held /\ tasks' = tasks /\ runs' = runs
      /\ timer' = [t \in Tasks |-> NoTimer] /\ call' = [c \in Calls |-> NoCall]
  BY DEF Crash, storeVars
<1>2. Unmarked /\ RowsStep /\ StoreEffect
  BY <1>1, SameSteps DEF Unmarked, StoreEffect, storeVars
<1>3. NewRefs
  BY <1>1 DEF NewRefs, Refers, Busy, NoCall
<1> QED  BY <1>2, <1>3, UnmarkedMarks DEF GoodMove

LEMMA RestartMoves == ASSUME IInv, Restart \/ UNCHANGED vars PROVE GoodMove
<1>1. held' = held /\ tasks' = tasks /\ runs' = runs /\ UNCHANGED <<call, timer>>
  BY DEF Restart, vars, storeVars, managerVars, worldVars
<1>2. Unmarked /\ RowsStep /\ StoreEffect
  BY <1>1, SameSteps DEF Unmarked, StoreEffect, storeVars
<1> QED  BY <1>1, <1>2, SameRefs, UnmarkedMarks DEF GoodMove

-----------------------------------------------------------------------------
(* Steps of a call.                                                        *)

\* The call goes on for the same Task, with the reference it had or the one it
\* has just read or written.
GoesOn(c, rec) ==
  /\ call' = [call EXCEPT ![c] = rec] /\ loop' = loop
  /\ rec \in CallRec /\ rec.pc \notin {"none", "wake"}
  /\ rec.task = call[c].task /\ rec.hook = call[c].hook
  /\ rec.ref = call[c].ref \/ (rec.ref = RefOf(tasks'[rec.task]) /\ ~held'[rec.task])
  /\ rec.hook => IF rec.pc = "arm" THEN \A t \in Tasks : tasks'[t].active # loop.run
                                   ELSE rec.ref = RunRef(loop.run)

\* The call returns; a hook leaves a decided result behind.
Finishes(c) ==
  /\ Returns(c)
  /\ call[c].hook => \A t \in Tasks : tasks'[t].active = loop.run => tasks'[t].status \in TerminalStatus

CallMove(c) == Finishes(c) \/ \E rec : GoesOn(c, rec)

TimersStep ==
  /\ timer' \in [Tasks -> TimerRec] /\ level' \in [Tasks -> 0..Len(policy)]
  /\ \A t \in Tasks : timer'[t] # NoTimer => Refers(t, timer'[t].ref)

GoodCall(c) ==
  /\ Busy(c)
  /\ StoreEffect /\ RowsStep /\ Unmarked
  /\ CallMove(c) /\ TimersStep
  /\ \A t \in Tasks : held[t] => tasks'[t] = tasks[t]
  /\ held' \in [Tasks -> BOOLEAN]
  /\ UNCHANGED <<monitorVars, policy, up, people, crashes>>

LEMMA CallFacts ==
  ASSUME IInv, NEW c \in Calls, Busy(c)
  PROVE  /\ call[c] \in CallRec /\ call[c].task \in Tasks /\ call[c].ref \in Reference
         /\ Refers(call[c].task, call[c].ref)
         /\ RefOf(tasks[call[c].task]) = call[c].ref => ~held[call[c].task]
<1>1. call[c] \in CallRec /\ call[c].task \in Tasks
  BY Types DEF IInv, Addressed
<1>2. call[c].ref \in Reference
  BY <1>1 DEF CallRec
<1>3. Refers(call[c].task, call[c].ref)
  BY DEF Refers
<1> QED  BY <1>1, <1>2, <1>3 DEF IInv, HeldIsLeft, Left

LEMMA HookFacts ==
  ASSUME IInv, NEW c \in Calls, call[c].hook
  PROVE  /\ loop.run \in Runs /\ runs[loop.run].status # "absent" /\ loop.run # NoRun
         /\ call[c].pc # "wake"
         /\ call[c].pc = "arm" => \A t \in Tasks : tasks[t].active # loop.run
         /\ call[c].pc # "arm" =>
              /\ call[c].ref = RunRef(loop.run)
              /\ \A t \in Tasks : tasks[t].active = loop.run =>
                   t = call[c].task /\ Owns(c) /\ Current(t, call[c].ref)
<1>1. StoreInv /\ StatusInv /\ HookInv
  BY DEF IInv
<1>2. loop.run \in Runs /\ runs[loop.run].status # "absent" /\ loop.run # NoRun
  BY <1>1, NoRunAssumption DEF HookInv, Hooked, RunOutcome
<1>3. /\ call[c].pc # "wake" /\ call[c].task = TaskOf(loop.run)
      /\ IF call[c].pc = "arm" THEN \A t \in Tasks : tasks[t].active # loop.run
                               ELSE call[c].ref = RunRef(loop.run)
  BY <1>1 DEF HookInv, Hooked
<1>4. ASSUME call[c].pc # "arm", NEW t \in Tasks, tasks[t].active = loop.run
      PROVE  t = call[c].task /\ Owns(c) /\ Current(t, call[c].ref)
  <2>1. t = TaskOf(loop.run) /\ RefOf(tasks[t]) = RunRef(loop.run) /\ Exists(t) /\ Current(t, RunRef(loop.run))
    BY <1>1, <1>2, <1>4, OwnerIs
  <2> QED  BY <1>3, <1>4, <2>1 DEF Owns
<1> QED  BY <1>2, <1>3, <1>4

LEMMA SameTimers == ASSUME IInv, UNCHANGED <<timer, level>> PROVE TimersStep
BY Types DEF TimersStep, Refers

LEMMA QuietCall ==
  ASSUME IInv, NEW c \in Calls, Busy(c), UNCHANGED <<storeVars, monitorVars, worldVars>>, CallMove(c), TimersStep
  PROVE  GoodCall(c)
<1>1. tasks' = tasks /\ runs' = runs /\ held' = held /\ UNCHANGED <<monitorVars, policy, up, people, crashes>>
  BY DEF storeVars, worldVars
<1>2. StoreEffect /\ RowsStep /\ Unmarked
  BY <1>1, SameSteps DEF StoreEffect, storeVars, Unmarked
<1> QED  BY <1>1, <1>2, Types DEF GoodCall

LEMMA PcGoes ==
  ASSUME IInv, NEW c \in Calls, Busy(c), call[c].pc \notin {"arm", "wake"}, NEW pc \in {"act", "final", "cancel"},
         Goes(c, pc)
  PROVE  CallMove(c)
<1> DEFINE rec == [call[c] EXCEPT !.pc = pc]
<1>1. call \in [Calls -> CallRec] /\ call[c] \in CallRec
  BY Types
<1>2. call' = [call EXCEPT ![c] = rec] /\ loop' = loop
  BY DEF Goes
<1>3. /\ rec \in CallRec /\ rec.pc = pc /\ rec.task = call[c].task /\ rec.hook = call[c].hook
      /\ rec.ref = call[c].ref
  BY <1>1 DEF CallRec
<1> HIDE DEF rec
<1>4. rec.hook => rec.ref = RunRef(loop.run)
  BY <1>3, HookFacts
<1>5. GoesOn(c, rec)
  BY <1>2, <1>3, <1>4 DEF GoesOn
<1> QED  BY <1>5 DEF CallMove

LEMMA AdvancedRec ==
  ASSUME policy \in Seq(Level), NEW rec \in CallRec
  PROVE  /\ Advanced(rec) \in CallRec /\ Advanced(rec).pc \in {"enter", "final"}
         /\ Advanced(rec).task = rec.task /\ Advanced(rec).ref = rec.ref /\ Advanced(rec).hook = rec.hook
<1>1. Len(policy) \in Nat
  OBVIOUS
<1>2. CASE rec.level < Len(policy)
  <2>1. Advanced(rec) = [rec EXCEPT !.pc = "enter", !.level = rec.level + 1, !.nested = TRUE]
    BY <1>2 DEF Advanced, CallRec
  <2>2. rec.level + 1 \in 0..Len(policy)
    BY <1>1, <1>2 DEF CallRec
  <2> QED  BY <2>1, <2>2 DEF CallRec
<1>3. CASE ~(rec.level < Len(policy))
  <2>1. Advanced(rec) = [rec EXCEPT !.pc = "final"]
    BY <1>3 DEF Advanced
  <2> QED  BY <2>1 DEF CallRec
<1> QED  BY <1>2, <1>3

LEMMA AdvanceGoes ==
  ASSUME IInv, NEW c \in Calls, Busy(c), call[c].pc \notin {"arm", "wake"}, Advances(c)
  PROVE  CallMove(c)
<1> DEFINE rec == Advanced(call[c])
<1>1. call' = [call EXCEPT ![c] = rec] /\ loop' = loop
  BY DEF Advances
<1>2. /\ rec \in CallRec /\ rec.pc \in {"enter", "final"} /\ rec.task = call[c].task
      /\ rec.ref = call[c].ref /\ rec.hook = call[c].hook
  BY AdvancedRec, Types
<1> HIDE DEF rec
<1>3. rec.hook => rec.ref = RunRef(loop.run)
  BY <1>2, HookFacts
<1>4. GoesOn(c, rec)
  BY <1>1, <1>2, <1>3 DEF GoesOn
<1> QED  BY <1>4 DEF CallMove

LEMMA EnterIsGood == ASSUME IInv, NEW c \in Calls, Enter(c) PROVE GoodCall(c)
<1>1. /\ Busy(c) /\ call[c].pc = "enter" /\ UNCHANGED <<storeVars, monitorVars, worldVars>> /\ timer' = timer
      /\ tasks' = tasks
  BY DEF Enter, At, Busy, storeVars
<1>2. CASE ~Owns(c) /\ Returns(c) /\ level' = level
  <2>1. TimersStep
    BY <1>1, <1>2, SameTimers
  <2>2. Finishes(c)
    BY <1>1, <1>2, HookFacts DEF Finishes
  <2> QED  BY <1>1, <2>1, <2>2, QuietCall DEF CallMove
<1>3. CASE /\ level' = [level EXCEPT ![call[c].task] = call[c].level]
           /\ Goes(c, "act") \/ Advances(c)
  <2>1. TimersStep
    <3>1. call[c].level \in 0..Len(policy)
      BY <1>1, CallFacts DEF CallRec
    <3>2. level' \in [Tasks -> 0..Len(policy)]
      BY <1>3, <3>1, Types
    <3> QED  BY <1>1, <3>2, Types DEF TimersStep, Refers
  <2>2. CallMove(c)
    BY <1>1, <1>3, PcGoes, AdvanceGoes
  <2> QED  BY <1>1, <2>1, <2>2, QuietCall
<1> QED  BY <1>2, <1>3 DEF Enter

\* Once the Task has left its attempt behind, the hook's Run owns nothing.
LEMMA EndedHook ==
  ASSUME IInv, NEW c \in Calls, call[c].hook, call[c].pc # "arm", NEW status, Ends(call[c].task, status)
  PROVE  \A t \in Tasks : tasks'[t].active # loop.run
BY HookFacts DEF Ends

LEMMA CurrentIsFree ==
  ASSUME IInv, NEW c \in Calls, Busy(c), Current(call[c].task, call[c].ref)
  PROVE  call[c].task \in Tasks /\ ~held[call[c].task] /\ RefOf(tasks[call[c].task]) = call[c].ref
BY CallFacts DEF Current

LEMMA ReassignIsGood == ASSUME IInv, NEW c \in Calls, Reassign(c) PROVE GoodCall(c)
<1> DEFINE t == call[c].task
           ref == call[c].ref
<1>1. /\ Busy(c) /\ call[c].pc = "act"
      /\ UNCHANGED <<monitorVars, worldVars>> /\ UNCHANGED <<policy, up, people, crashes>> /\ held' = held
      /\ timer' = timer /\ level' = level
  BY DEF Reassign, At, Busy, worldVars
<1>2. StoreInv /\ StatusInv /\ TimersStep /\ held \in [Tasks -> BOOLEAN] /\ call \in [Calls -> CallRec]
  BY <1>1, SameTimers, Types DEF IInv
<1>3. t \in Tasks
  BY <1>1, CallFacts
<1>4. CASE ~CanRequeue(t, ref, FALSE, FALSE) /\ Returns(c) /\ UNCHANGED storeVars
  <2>1. ASSUME call[c].hook, NEW u \in Tasks, tasks'[u].active = loop.run PROVE tasks'[u].status \in TerminalStatus
    <3>1. tasks' = tasks
      BY <1>4 DEF storeVars
    <3>2. u = t /\ Current(t, ref)
      BY <1>1, <2>1, <3>1, HookFacts
    <3>3. tasks[t].status \in {"draft", "done"}
      BY <1>4, <3>2 DEF CanRequeue
    <3> QED  BY <1>2, <1>3, <3>1, <3>2, <3>3 DEF StatusInv, TerminalStatus
  <2>2. Finishes(c)
    BY <1>4, <2>1 DEF Finishes
  <2> QED  BY <1>1, <1>2, <1>4, <2>2, QuietCall DEF CallMove
<1>5. CASE Requeue(t, ref, FALSE, FALSE) /\ ~(~CanRequeue(t, ref, FALSE, FALSE) /\ Returns(c) /\ UNCHANGED storeVars)
  <2>1. CanRequeue(t, ref, FALSE, FALSE) /\ Ends(t, "pending") /\ RevisionLeft(t)
    BY <1>2, <1>3, <1>5, RequeueRow
  <2>2. ~held[t] /\ RefOf(tasks[t]) = ref
    BY <1>1, <2>1, CurrentIsFree DEF CanRequeue
  <2>3. RowsStep /\ Unmarked
    BY <1>1, <1>3, <2>1, <2>2, EndsSteps DEF OthersHeld
  <2>4. StoreEffect
    BY <1>2, <1>3, <1>5, RequeueIsEffect
  <2>5. \A u \in Tasks : held[u] => tasks'[u] = tasks[u]
    BY <2>1, <2>2 DEF Ends
  <2>6. call[c].hook => \A u \in Tasks : tasks'[u].active # loop.run
    BY <1>1, <2>1, EndedHook
  <2>7. CASE Returns(c)
    <3>1. Finishes(c)
      BY <2>6, <2>7 DEF Finishes
    <3> QED  BY <1>1, <1>2, <2>3, <2>4, <2>5, <3>1 DEF GoodCall, CallMove
  <2>8. CASE /\ call' = [call EXCEPT ![c].pc = "arm",
                                     ![c].ref = [revision |-> tasks[t].revision + 1, runId |-> NoRun]]
             /\ loop' = loop
    <3> DEFINE next == [revision |-> tasks[t].revision + 1, runId |-> NoRun]
               rec == [call[c] EXCEPT !.pc = "arm", !.ref = next]
    <3>1. next = RefOf(tasks'[t])
      BY <2>1 DEF Ends, RefOf
    <3>2. next \in Reference
      <4>1. tasks[t].revision \in Nat
        BY <1>2, <1>3, RevisionsTyped
      <4> QED  BY <2>1, <4>1, MaxRevisionAssumption DEF RevisionLeft, Reference
    <3>3. call[c] \in CallRec
      BY <1>2
    <3>4. call' = [call EXCEPT ![c] = rec]
      BY <1>2, <2>8 DEF CallRec
    <3> HIDE DEF next
    <3>5. /\ rec \in CallRec /\ rec.pc = "arm" /\ rec.task = t /\ rec.hook = call[c].hook /\ rec.ref = next
      BY <3>2, <3>3 DEF CallRec
    <3> HIDE DEF rec
    <3>6. GoesOn(c, rec)
      BY <1>1, <2>2, <2>6, <2>8, <3>1, <3>4, <3>5 DEF GoesOn
    <3> QED  BY <1>1, <1>2, <2>3, <2>4, <2>5, <3>6 DEF GoodCall, CallMove
  <2> QED  BY <1>5, <2>7, <2>8 DEF Reassign
<1> QED  BY <1>4, <1>5 DEF Reassign

LEMMA ReformulationIsGood == ASSUME IInv, NEW c \in Calls, NoReformulation(c) PROVE GoodCall(c)
<1>1. /\ Busy(c) /\ call[c].pc = "act" /\ UNCHANGED <<storeVars, monitorVars, worldVars>> /\ UNCHANGED <<timer, level>>
      /\ Advances(c)
  BY DEF NoReformulation, At, Busy
<1> QED  BY <1>1, SameTimers, AdvanceGoes, QuietCall

LEMMA ArmIsGood == ASSUME IInv, NEW c \in Calls, Arm(c) PROVE GoodCall(c)
<1>1. /\ Busy(c) /\ call[c].pc = "arm" /\ UNCHANGED <<storeVars, monitorVars, worldVars>> /\ level' = level
      /\ timer' = [timer EXCEPT ![call[c].task] = [ref |-> call[c].ref, level |-> call[c].level]]
      /\ Returns(c) /\ tasks' = tasks
  BY DEF Arm, At, Busy, storeVars
<1>2. call[c].task \in Tasks /\ call[c].ref \in Reference /\ call[c].level \in 0..Len(policy)
      /\ Refers(call[c].task, call[c].ref)
  BY <1>1, CallFacts DEF CallRec
<1>3. TimersStep
  <2>1. timer \in [Tasks -> TimerRec] /\ level' \in [Tasks -> 0..Len(policy)]
    BY <1>1, Types
  <2>2. [ref |-> call[c].ref, level |-> call[c].level] \in TimerRec
    BY <1>2 DEF TimerRec
  <2>3. timer' \in [Tasks -> TimerRec]
    BY <1>1, <2>1, <2>2
  <2>4. ASSUME NEW t \in Tasks, timer'[t] # NoTimer PROVE Refers(t, timer'[t].ref)
    <3>1. CASE t = call[c].task
      <4>1. timer'[t].ref = call[c].ref
        BY <1>1, <2>1, <3>1
      <4> QED  BY <1>2, <3>1, <4>1
    <3>2. CASE t # call[c].task
      <4>1. timer'[t] = timer[t]
        BY <1>1, <2>1, <3>2
      <4> QED  BY <2>4, <4>1 DEF Refers
    <3> QED  BY <3>1, <3>2
  <2> QED  BY <2>1, <2>3, <2>4 DEF TimersStep
<1>4. Finishes(c)
  BY <1>1, HookFacts DEF Finishes
<1> QED  BY <1>1, <1>3, <1>4, QuietCall DEF CallMove

LEMMA AskHumanIsGood == ASSUME IInv, NEW c \in Calls, AskHuman(c) PROVE GoodCall(c)
<1> DEFINE t == call[c].task
           ref == call[c].ref
<1>1. /\ Busy(c) /\ call[c].pc = "act"
      /\ UNCHANGED monitorVars /\ UNCHANGED <<policy, up, people, crashes>>
      /\ timer' = timer /\ level' = level
  BY DEF AskHuman, At, Busy
<1>2. StoreInv /\ StatusInv /\ TimersStep /\ held \in [Tasks -> BOOLEAN]
  BY <1>1, SameTimers, Types DEF IInv
<1>3. t \in Tasks
  BY <1>1, CallFacts
<1>4. CASE /\ MutateTransition(t, ref, "awaiting_approval")
           /\ held' = [held EXCEPT ![t] = TRUE]
           /\ Returns(c)
  <2>1. CanMoveTo(t, ref, "awaiting_approval") /\ Ends(t, "awaiting_approval")
    BY <1>2, <1>3, <1>4, MutateRow DEF ReleasingStatus
  <2>2. ~held[t]
    BY <1>1, <2>1, CurrentIsFree DEF CanMoveTo
  <2>3. OthersHeld(t) /\ held'[t] /\ held' \in [Tasks -> BOOLEAN]
    BY <1>2, <1>3, <1>4 DEF OthersHeld
  <2>4. RowsStep /\ Unmarked
    BY <1>3, <2>1, <2>3, EndsSteps
  <2>5. StoreEffect
    BY <1>2, <1>3, <1>4, MutateTransitionIsEffect DEF TaskStatus
  <2>6. \A u \in Tasks : held[u] => tasks'[u] = tasks[u]
    BY <2>1, <2>2 DEF Ends
  <2>7. Finishes(c)
    BY <1>1, <1>4, <2>1, EndedHook DEF Finishes
  <2> QED  BY <1>1, <1>2, <2>3, <2>4, <2>5, <2>6, <2>7 DEF GoodCall, CallMove
<1>5. CASE /\ ~CanMoveTo(t, ref, "awaiting_approval")
           /\ IF Owns(c) /\ call[c].nested THEN Goes(c, "final") ELSE Returns(c)
           /\ UNCHANGED <<storeVars, held>>
  <2>1. UNCHANGED <<storeVars, monitorVars, worldVars>> /\ tasks' = tasks
    BY <1>1, <1>5 DEF worldVars, storeVars
  <2>2. CASE Goes(c, "final")
    BY <1>1, <1>2, <2>1, <2>2, PcGoes, QuietCall
  <2>3. CASE Returns(c)
    <3>1. ASSUME call[c].hook, NEW u \in Tasks, tasks'[u].active = loop.run PROVE tasks'[u].status \in TerminalStatus
      <4>1. u = t /\ Current(t, ref) /\ tasks[t].active # NoRun
        BY <1>1, <2>1, <3>1, HookFacts
      <4>2. "awaiting_approval" \notin VALID_TRANSITIONS(tasks[t].status)
        BY <1>5, <4>1 DEF CanMoveTo
      <4>3. /\ tasks[t].status \in TaskStatus \cup Missing /\ tasks[t].status \notin {"draft"} \cup Missing
            /\ tasks[t].status # "awaiting_approval"
        BY <1>2, <1>3, <4>1 DEF StoreInv, StoreTypeOK, TaskRow, StatusInv
      <4> QED  BY <2>1, <4>1, <4>2, <4>3 DEF VALID_TRANSITIONS, TaskStatus, TerminalStatus
    <3>2. Finishes(c)
      BY <2>3, <3>1 DEF Finishes
    <3>3. CallMove(c)
      BY <3>2 DEF CallMove
    <3> QED  BY <1>1, <1>2, <2>1, <3>3, QuietCall
  <2> QED  BY <1>5, <2>2, <2>3
<1> QED  BY <1>4, <1>5 DEF AskHuman

LEMMA FinalReadIsGood == ASSUME IInv, NEW c \in Calls, FinalRead(c) PROVE GoodCall(c)
<1> DEFINE t == call[c].task
<1>1. /\ Busy(c) /\ call[c].pc = "final" /\ UNCHANGED <<storeVars, monitorVars, worldVars>> /\ tasks' = tasks
  BY DEF FinalRead, At, Busy, storeVars
<1>2. StoreInv /\ StatusInv
  BY DEF IInv
<1>3. t \in Tasks
  BY <1>1, CallFacts
<1>4. CASE /\ Owns(c)
           /\ level' = [level EXCEPT ![t] = 0]
           /\ timer' = [timer EXCEPT ![t] = NoTimer]
           /\ IF Settled(tasks[t]) THEN Returns(c) ELSE Goes(c, "cancel")
  <2>1. TimersStep
    <3>1. level \in [Tasks -> 0..Len(policy)] /\ timer \in [Tasks -> TimerRec] /\ Len(policy) \in Nat
      BY Types
    <3>2. NoTimer \in TimerRec
      BY <3>1, MaxRevisionAssumption DEF NoTimer, TimerRec, Reference
    <3>3. level' \in [Tasks -> 0..Len(policy)] /\ timer' \in [Tasks -> TimerRec]
      <4>1. 0 \in 0..Len(policy)
        BY <3>1
      <4> QED  BY <1>4, <3>1, <3>2, <4>1
    <3>4. \A u \in Tasks : timer'[u] = IF u = t THEN NoTimer ELSE timer[u]
      BY <1>4, <3>1
    <3> QED  BY <3>3, <3>4 DEF TimersStep, Refers
  <2>2. CASE Goes(c, "cancel")
    BY <1>1, <2>1, <2>2, PcGoes, QuietCall
  <2>3. CASE Settled(tasks[t]) /\ Returns(c)
    <3>1. ASSUME call[c].hook, NEW u \in Tasks, tasks'[u].active = loop.run PROVE tasks'[u].status \in TerminalStatus
      <4>1. u = t /\ tasks[t].active # NoRun
        BY <1>1, <3>1, HookFacts
      <4> QED  BY <1>1, <1>2, <1>3, <2>3, <4>1 DEF Settled, StatusInv
    <3>2. Finishes(c)
      BY <2>3, <3>1 DEF Finishes
    <3> QED  BY <1>1, <2>1, <3>2, QuietCall DEF CallMove
  <2> QED  BY <1>4, <2>2, <2>3
<1>5. CASE ~Owns(c) /\ Returns(c) /\ UNCHANGED <<level, timer>>
  <2>1. TimersStep
    BY <1>5, SameTimers
  <2>2. Finishes(c)
    BY <1>1, <1>5, HookFacts DEF Finishes
  <2> QED  BY <1>1, <2>1, <2>2, QuietCall DEF CallMove
<1> QED  BY <1>4, <1>5 DEF FinalRead

LEMMA FinalCancelIsGood == ASSUME IInv, NEW c \in Calls, FinalCancel(c) PROVE GoodCall(c)
<1> DEFINE t == call[c].task
           ref == call[c].ref
<1>1. /\ Busy(c) /\ call[c].pc = "cancel" /\ Returns(c)
      /\ UNCHANGED <<monitorVars, worldVars>> /\ UNCHANGED <<policy, up, people, crashes>> /\ held' = held
      /\ UNCHANGED <<timer, level>>
  BY DEF FinalCancel, At, Busy, worldVars
<1>2. StoreInv /\ TimersStep /\ held \in [Tasks -> BOOLEAN] /\ t \in Tasks
  BY <1>1, SameTimers, Types, CallFacts DEF IInv
<1>3. ASSUME UNCHANGED storeVars,
             call[c].hook => ~Current(t, ref) \/ tasks[t].status \in TerminalStatus
      PROVE  GoodCall(c)
  <2>1. tasks' = tasks
    BY <1>3 DEF storeVars
  <2>2. Finishes(c)
    BY <1>1, <1>3, <2>1, HookFacts DEF Finishes
  <2> QED  BY <1>1, <1>2, <1>3, <2>2, QuietCall DEF CallMove
<1>4. CASE Cancel(t, ref)
  <2>1. /\ Current(t, ref)
        /\ \/ UNCHANGED storeVars /\ tasks[t].status \in TerminalStatus
           \/ \E status \in TerminalStatus : Ends(t, status)
    BY <1>2, <1>4, CancelRow
  <2>2. ASSUME NEW status \in TerminalStatus, Ends(t, status) PROVE GoodCall(c)
    <3>1. ~held[t]
      BY <1>1, <2>1, CurrentIsFree
    <3>2. RowsStep /\ Unmarked
      BY <1>1, <1>2, <2>2, EndsSteps DEF OthersHeld
    <3>3. StoreEffect
      BY <1>2, <1>4, CancelIsEffect
    <3>4. \A u \in Tasks : held[u] => tasks'[u] = tasks[u]
      BY <2>2, <3>1 DEF Ends
    <3>5. Finishes(c)
      BY <1>1, <2>2, EndedHook DEF Finishes
    <3> QED  BY <1>1, <1>2, <3>2, <3>3, <3>4, <3>5 DEF GoodCall, CallMove
  <2> QED  BY <1>3, <2>1, <2>2
<1>5. CASE ~Current(t, ref) /\ UNCHANGED storeVars
  BY <1>3, <1>5
<1> QED  BY <1>4, <1>5 DEF FinalCancel

LEMMA WakeIsGood == ASSUME IInv, NEW c \in Calls, Wake(c) PROVE GoodCall(c)
<1> DEFINE t == call[c].task
           row == tasks[t]
<1>1. /\ Busy(c) /\ call[c].pc = "wake" /\ UNCHANGED <<storeVars, monitorVars, worldVars>> /\ UNCHANGED <<timer, level>>
      /\ tasks' = tasks /\ held' = held
  BY DEF Wake, At, Busy, storeVars, worldVars
<1>2. ~call[c].hook /\ t \in Tasks /\ call[c] \in CallRec /\ call[c].ref \in Reference /\ StoreInv
  BY <1>1, HookFacts, CallFacts DEF IInv
<1>3. TimersStep
  BY <1>1, SameTimers
<1>4. CASE Returns(c)
  <2>1. Finishes(c)
    BY <1>2, <1>4 DEF Finishes
  <2> QED  BY <1>1, <1>3, <2>1, QuietCall DEF CallMove
<1>5. CASE /\ Follows(row, call[c].ref)
           /\ call' = [call EXCEPT ![c] = Advanced([call[c] EXCEPT !.ref = RefOf(row)])]
           /\ loop' = loop
  <2> DEFINE old == [call[c] EXCEPT !.ref = RefOf(row)]
             rec == Advanced(old)
  <2>1. RefOf(row) \in Reference
    BY <1>2, ReferenceOfRow
  <2>2. old \in CallRec /\ old.ref = RefOf(row) /\ old.task = t /\ old.hook = call[c].hook
    BY <1>2, <2>1 DEF CallRec
  <2>3. call' = [call EXCEPT ![c] = rec]
    BY <1>5
  <2> HIDE DEF old
  <2>4. /\ rec \in CallRec /\ rec.pc \in {"enter", "final"} /\ rec.task = t
        /\ rec.ref = RefOf(row) /\ rec.hook = call[c].hook
    BY <2>2, AdvancedRec, Types
  <2> HIDE DEF rec
  <2>5. ~held[t]
    <3>1. CASE RefOf(row) = call[c].ref
      BY <1>1, <3>1, CallFacts
    <3>2. CASE row.active # NoRun
      BY <1>2, <3>2 DEF IInv, HeldIsLeft, Left
    <3> QED  BY <1>5, <3>1, <3>2 DEF Follows
  <2>6. GoesOn(c, rec)
    BY <1>1, <1>2, <1>5, <2>3, <2>4, <2>5 DEF GoesOn
  <2> QED  BY <1>1, <1>3, <2>6, QuietCall DEF CallMove
<1> QED  BY <1>4, <1>5 DEF Wake

LEMMA CallStepIsGood == ASSUME IInv, NEW c \in Calls, CallStep(c) PROVE GoodCall(c)
BY EnterIsGood, ReassignIsGood, ReformulationIsGood, ArmIsGood, AskHumanIsGood, FinalReadIsGood,
   FinalCancelIsGood, WakeIsGood DEF CallStep

LEMMA GoodCallMoves == ASSUME IInv, NEW c \in Calls, GoodCall(c) PROVE GoodMove
<1>1. Busy(c) /\ StoreEffect /\ RowsStep /\ Unmarked /\ CallMove(c) /\ TimersStep
  BY DEF GoodCall
<1>2. call \in [Calls -> CallRec] /\ \A t \in Tasks : timer'[t] # NoTimer => Refers(t, timer'[t].ref)
  BY <1>1, Types DEF TimersStep
<1>3. CASE Finishes(c)
  <2>1. call' = [call EXCEPT ![c] = NoCall] /\ NoCall.pc = "none"
    BY <1>3 DEF Finishes, Returns, NoCall
  <2>2. NewRefs
    BY <1>2, <2>1, CallRefs
  <2> QED  BY <1>1, <2>2, UnmarkedMarks DEF GoodMove
<1>4. ASSUME NEW rec, GoesOn(c, rec) PROVE GoodMove
  <2>1. call' = [call EXCEPT ![c] = rec]
    BY <1>4 DEF GoesOn
  <2>2. Refers(rec.task, rec.ref) \/ (rec.ref = RefOf(tasks'[rec.task]) /\ ~held'[rec.task])
    <3>1. CASE rec.ref = call[c].ref
      <4>1. rec.task = call[c].task
        BY <1>4 DEF GoesOn
      <4> QED  BY <1>1, <3>1, <4>1 DEF Refers
    <3> QED  BY <1>4, <3>1 DEF GoesOn
  <2>3. NewRefs
    BY <1>2, <2>1, <2>2, CallRefs
  <2> QED  BY <1>1, <2>3, UnmarkedMarks DEF GoodMove
<1> QED  BY <1>1, <1>3, <1>4 DEF CallMove

-----------------------------------------------------------------------------
(* The result in the supervisor's hands.                                   *)

LEMMA HandsAge ==
  ASSUME IInv, RowsStep, RunsAge,
         \/ loop'.pc = "idle"
         \/ /\ loop.pc # "idle" /\ loop'.run = loop.run
            /\ loop'.pc = "ack" =>
                 \/ loop.pc = "ack"
                 \/ \A t \in Tasks : tasks'[t].active = loop.run => tasks'[t].status \in TerminalStatus
  PROVE  /\ loop'.pc # "idle" => loop'.run \in Runs /\ runs'[loop'.run].status \in RunOutcome
         /\ loop'.pc = "ack" => Decided(loop.run)'
<1>1. CASE loop'.pc = "idle"
  BY <1>1
<1>2. CASE /\ loop.pc # "idle" /\ loop'.run = loop.run
           /\ loop'.pc = "ack" =>
                \/ loop.pc = "ack"
                \/ \A t \in Tasks : tasks'[t].active = loop.run => tasks'[t].status \in TerminalStatus
  <2>1. loop.run \in Runs /\ runs[loop.run].status \in RunOutcome /\ (loop.pc = "ack" => Decided(loop.run))
    BY <1>2 DEF IInv, HookInv
  <2>2. runs[loop.run].status # "absent" /\ runs'[loop.run].status \in RunOutcome
    BY <2>1 DEF RunsAge, RunOutcome
  <2>3. StoreInv
    BY DEF IInv
  <2>4. loop'.pc = "ack" => \A t \in Tasks : tasks'[t].active = loop.run => tasks'[t].status \in TerminalStatus
    BY <1>2, <2>1, <2>2, <2>3, DecidedAges
  <2> QED  BY <1>2, <2>1, <2>2, <2>4 DEF Decided
<1> QED  BY <1>1, <1>2

LEMMA HookedAges ==
  ASSUME IInv, RowsStep, RunsAge, loop' = loop, NEW c \in Calls, call[c].hook, call'[c] = call[c]
  PROVE  Hooked(c)'
<1>1. Hooked(c) /\ StoreInv
  BY DEF IInv, HookInv
<1>2. loop.run \in Runs /\ runs[loop.run].status # "absent"
  BY HookFacts
<1>3. runs'[loop.run].task = runs[loop.run].task /\ runs'[loop.run].revision = runs[loop.run].revision
  BY <1>2 DEF RunsAge
<1>4. (\A t \in Tasks : tasks[t].active # loop.run) => \A t \in Tasks : tasks'[t].active # loop.run
  BY <1>1, <1>2, OwnersStay
<1> QED  BY <1>1, <1>3, <1>4 DEF Hooked, TaskOf, RunRef

LEMMA HookSame == ASSUME IInv, RowsStep, RunsAge, UNCHANGED <<call, loop>> PROVE HookInv'
<1>1. loop'.pc # "idle" => loop'.run \in Runs /\ runs'[loop'.run].status \in RunOutcome
  BY HandsAge
<1>2. loop'.pc = "ack" => Decided(loop.run)'
  BY HandsAge
<1>3. \A c \in Calls : call'[c].hook => Hooked(c)'
  BY HookedAges
<1>4. \A c, d \in Calls : call'[c].hook /\ call'[d].hook => c = d
  BY DEF IInv, HookInv
<1> QED  BY <1>1, <1>2, <1>3, <1>4 DEF HookInv

\* Without a call in the hook there is only the result.
LEMMA NoHook == ASSUME IInv, loop.pc # "hook", NEW c \in Calls PROVE ~call[c].hook
BY DEF IInv, HookInv, Hooked

LEMMA HookIdle ==
  ASSUME \A c \in Calls : ~call'[c].hook,
         loop'.pc # "idle" => loop'.run \in Runs /\ runs'[loop'.run].status \in RunOutcome,
         loop'.pc = "ack" => Decided(loop.run)'
  PROVE  HookInv'
BY DEF HookInv

LEMMA CollectHook == ASSUME IInv, NEW r \in Runs, Collect(r) PROVE HookInv'
<1>1. StoreInv /\ StatusInv
  BY DEF IInv
<1>2. loop = Idle /\ runs[r].status \in RunOutcome /\ runs' = runs /\ call' = call
  BY DEF Collect, managerVars
<1>3. \A c \in Calls : ~call'[c].hook
  BY <1>2, NoHook DEF Idle
<1>4. CASE /\ ~(Current(TaskOf(r), RunRef(r)) /\ tasks[TaskOf(r)].status \notin TerminalStatus)
           /\ loop' = [pc |-> "ack", run |-> r] /\ tasks' = tasks
  <2>1. ASSUME NEW t \in Tasks, tasks'[t].active = r PROVE tasks'[t].status \in TerminalStatus
    <3>1. t = TaskOf(r) /\ Current(t, RunRef(r))
      BY <1>1, <1>4, <2>1, OwnerIs
    <3> QED  BY <1>4, <3>1
  <2>2. loop'.run = r /\ loop'.pc = "ack"
    BY <1>4
  <2> QED  BY <1>2, <1>3, <2>1, <2>2, HookIdle DEF Decided
<1>5. CASE loop' = [pc |-> "judge", run |-> r]
  <2>1. loop'.run = r /\ loop'.pc = "judge"
    BY <1>5
  <2> QED  BY <1>2, <1>3, <2>1, HookIdle
<1> QED  BY <1>4, <1>5 DEF Collect

LEMMA AcceptHook == ASSUME IInv, RowsStep, RunsAge, JudgeAccepts PROVE HookInv'
<1> DEFINE r == loop.run
           t == TaskOf(r)
<1>1. StoreInv /\ StatusInv /\ loop \in LoopRec
  BY Types DEF IInv
<1>2. /\ loop.pc = "judge" /\ call' = call /\ r \in Runs /\ runs[r].status # "absent"
  BY DEF JudgeAccepts, managerVars, IInv, HookInv, RunOutcome
<1>3. \A c \in Calls : ~call'[c].hook
  BY <1>2, NoHook
<1>4. t \in Tasks
  BY <1>1, <1>2, KnownTask
<1>5. CASE loop' = Idle
  <2>1. loop'.pc = "idle"
    BY <1>5 DEF Idle
  <2> QED  BY <1>3, <2>1, HookIdle
<1>6. CASE ~(Current(t, RunRef(r)) /\ ~CanMoveTo(t, RunRef(r), "done")) /\ loop' = [loop EXCEPT !.pc = "ack"]
  <2>1. ASSUME NEW u \in Tasks, tasks'[u].active = r PROVE tasks'[u].status \in TerminalStatus
    <3>1. tasks[u].active = r
      BY <1>1, <1>2, <2>1, OwnersStay
    <3>2. u = t /\ Current(t, RunRef(r))
      BY <1>1, <1>2, <3>1, OwnerIs
    <3>3. MutateTransition(t, RunRef(r), "done")
      BY <1>6, <3>2 DEF JudgeAccepts
    <3>4. Sets(t, "done")
      BY <1>1, <1>4, <3>3, MutateRow DEF ReleasingStatus
    <3> QED  BY <3>2, <3>4 DEF Sets, TerminalStatus
  <2>2. loop'.run = r /\ loop'.pc = "ack" /\ loop.pc # "idle"
    BY <1>1, <1>2, <1>6 DEF LoopRec
  <2>3. /\ loop'.pc # "idle" => loop'.run \in Runs /\ runs'[loop'.run].status \in RunOutcome
        /\ loop'.pc = "ack" => Decided(loop.run)'
    BY <2>1, <2>2, HandsAge
  <2> QED  BY <1>3, <2>3, HookIdle
<1> QED  BY <1>5, <1>6 DEF JudgeAccepts

LEMMA AcknowledgeHook == ASSUME IInv, Acknowledge PROVE HookInv'
<1>1. loop.pc = "ack" /\ loop' = Idle /\ call' = call
  BY DEF Acknowledge, managerVars
<1>2. \A c \in Calls : ~call'[c].hook
  BY <1>1, NoHook
<1>3. loop'.pc = "idle"
  BY <1>1 DEF Idle
<1> QED  BY <1>2, <1>3, HookIdle

LEMMA ExhaustedHook == ASSUME IInv, RowsStep, RunsAge, JudgeExhausted PROVE HookInv'
<1> DEFINE r == loop.run
           t == TaskOf(r)
<1>1. StoreInv /\ StatusInv /\ loop \in LoopRec /\ call \in [Calls -> CallRec]
  BY Types DEF IInv
<1>2. /\ loop.pc = "judge" /\ tasks' = tasks /\ runs' = runs /\ r \in Runs /\ runs[r].status \in RunOutcome
  BY DEF JudgeExhausted, storeVars, IInv, HookInv
<1>3. \A c \in Calls : ~call[c].hook
  BY <1>2, NoHook
<1>4. CASE ~Current(t, RunRef(r)) /\ loop' = [loop EXCEPT !.pc = "ack"] /\ call' = call
  <2>1. \A u \in Tasks : tasks'[u].active # r
    BY <1>1, <1>2, <1>4, OwnerIs
  <2>2. loop'.run = r /\ loop'.pc = "ack" /\ loop.pc # "idle"
    BY <1>1, <1>2, <1>4 DEF LoopRec
  <2>3. /\ loop'.pc # "idle" => loop'.run \in Runs /\ runs'[loop'.run].status \in RunOutcome
        /\ loop'.pc = "ack" => Decided(loop.run)'
    BY <2>1, <2>2, HandsAge
  <2> QED  BY <1>3, <1>4, <2>3, HookIdle
<1>5. CASE loop' = [loop EXCEPT !.pc = "hook"] /\ Begin(HookCall(r))
  <2>1. PICK c \in Calls : call' = [call EXCEPT ![c] = HookCall(r)]
    BY <1>5, BeginPuts
  <2>2. loop'.run = r /\ loop'.pc = "hook"
    BY <1>1, <1>5 DEF LoopRec
  <2>3. call'[c] = HookCall(r) /\ \A d \in Calls : d # c => call'[d] = call[d]
    BY <1>1, <2>1
  <2>4. /\ call'[c].pc = "enter" /\ call'[c].task = t /\ call'[c].ref = RunRef(r)
    BY <2>3 DEF HookCall
  <2>5. Hooked(c)'
    BY <1>2, <2>2, <2>4 DEF Hooked, TaskOf, RunRef
  <2>6. \A d \in Calls : call'[d].hook => d = c
    BY <1>3, <2>3
  <2> QED  BY <1>2, <2>2, <2>5, <2>6 DEF HookInv
<1> QED  BY <1>4, <1>5 DEF JudgeExhausted, HookCall

LEMMA TimerHook == ASSUME IInv, RowsStep, RunsAge, NEW t \in Tasks, TimerFires(t) PROVE HookInv'
<1>1. loop' = loop /\ Begin(WakeCall(t)) /\ call \in [Calls -> CallRec]
  BY Types DEF TimerFires, WakeCall
<1>2. PICK c \in Calls : call' = [call EXCEPT ![c] = WakeCall(t)]
  BY <1>1, BeginPuts
<1>3. call'[c] = WakeCall(t) /\ \A d \in Calls : d # c => call'[d] = call[d]
  BY <1>1, <1>2
<1>4. ~call'[c].hook
  BY <1>3 DEF WakeCall
<1>5. loop'.pc # "idle" => loop'.run \in Runs /\ runs'[loop'.run].status \in RunOutcome
  BY <1>1, HandsAge
<1>6. loop'.pc = "ack" => Decided(loop.run)'
  BY <1>1, HandsAge
<1>7. \A d \in Calls : call'[d].hook => Hooked(d)'
  BY <1>1, <1>3, <1>4, HookedAges
<1>8. \A d, e \in Calls : call'[d].hook /\ call'[e].hook => d = e
  BY <1>3, <1>4 DEF IInv, HookInv
<1> QED  BY <1>5, <1>6, <1>7, <1>8 DEF HookInv

LEMMA CallHook == ASSUME IInv, RowsStep, RunsAge, NEW c \in Calls, GoodCall(c) PROVE HookInv'
<1>1. call \in [Calls -> CallRec] /\ loop \in LoopRec
  BY Types
<1>2. ASSUME NEW rec, GoesOn(c, rec) PROVE HookInv'
  <2>1. loop' = loop /\ call' = [call EXCEPT ![c] = rec]
    BY <1>2 DEF GoesOn
  <2>2. call'[c] = rec /\ \A d \in Calls : d # c => call'[d] = call[d]
    BY <1>1, <2>1
  <2>3. \A d \in Calls : call'[d].hook => call[d].hook
    BY <1>2, <2>2 DEF GoesOn
  <2>4. ASSUME rec.hook PROVE Hooked(c)'
    <3>1. Hooked(c)
      BY <1>2, <2>4 DEF GoesOn, IInv, HookInv
    <3>2. loop.run \in Runs /\ runs[loop.run].status # "absent"
      BY <1>2, <2>4, HookFacts DEF GoesOn
    <3>3. runs'[loop.run].task = runs[loop.run].task /\ runs'[loop.run].revision = runs[loop.run].revision
      BY <3>2 DEF RunsAge
    <3>4. /\ rec.pc \notin {"none", "wake"} /\ rec.task = call[c].task
          /\ IF rec.pc = "arm" THEN \A t \in Tasks : tasks'[t].active # loop.run ELSE rec.ref = RunRef(loop.run)
      BY <1>2, <2>4 DEF GoesOn
    <3> QED  BY <2>1, <2>2, <3>1, <3>3, <3>4 DEF Hooked, TaskOf, RunRef
  <2>5. \A d \in Calls : call'[d].hook => Hooked(d)'
    BY <2>1, <2>2, <2>3, <2>4, HookedAges
  <2>6. \A d, e \in Calls : call'[d].hook /\ call'[e].hook => d = e
    BY <2>3 DEF IInv, HookInv
  <2>7. loop'.pc # "idle" => loop'.run \in Runs /\ runs'[loop'.run].status \in RunOutcome
    BY <2>1, HandsAge
  <2>8. loop'.pc = "ack" => Decided(loop.run)'
    BY <2>1, HandsAge
  <2> QED  BY <2>5, <2>6, <2>7, <2>8 DEF HookInv
<1>3. CASE Finishes(c)
  <2>1. /\ call' = [call EXCEPT ![c] = NoCall]
        /\ loop' = IF call[c].hook THEN [loop EXCEPT !.pc = "ack"] ELSE loop
    BY <1>3 DEF Finishes, Returns
  <2>2. ~call'[c].hook /\ \A d \in Calls : d # c => call'[d] = call[d]
    BY <1>1, <2>1 DEF NoCall
  <2>3. CASE call[c].hook
    <3>1. loop'.pc = "ack" /\ loop'.run = loop.run /\ loop.pc # "idle"
      BY <1>1, <2>1, <2>3 DEF LoopRec, IInv, HookInv, Hooked
    <3>2. \A t \in Tasks : tasks'[t].active = loop.run => tasks'[t].status \in TerminalStatus
      BY <1>3, <2>3 DEF Finishes
    <3>3. /\ loop'.pc # "idle" => loop'.run \in Runs /\ runs'[loop'.run].status \in RunOutcome
          /\ loop'.pc = "ack" => Decided(loop.run)'
      BY <3>1, <3>2, HandsAge
    <3>4. \A d \in Calls : ~call'[d].hook
      BY <2>2, <2>3 DEF IInv, HookInv
    <3> QED  BY <3>3, <3>4, HookIdle
  <2>4. CASE ~call[c].hook
    <3>1. loop' = loop
      BY <2>1, <2>4
    <3>2. \A d \in Calls : call'[d].hook => Hooked(d)'
      BY <2>2, <3>1, HookedAges
    <3>3. \A d, e \in Calls : call'[d].hook /\ call'[e].hook => d = e
      BY <2>2 DEF IInv, HookInv
    <3>4. loop'.pc # "idle" => loop'.run \in Runs /\ runs'[loop'.run].status \in RunOutcome
      BY <3>1, HandsAge
    <3>5. loop'.pc = "ack" => Decided(loop.run)'
      BY <3>1, HandsAge
    <3> QED  BY <3>2, <3>3, <3>4, <3>5 DEF HookInv
  <2> QED  BY <2>3, <2>4
<1> QED  BY <1>2, <1>3 DEF GoodCall, CallMove

LEMMA CrashHook == ASSUME Crash PROVE HookInv'
<1>1. loop' = Idle /\ call' = [c \in Calls |-> NoCall]
  BY DEF Crash
<1>2. loop'.pc = "idle" /\ \A c \in Calls : ~call'[c].hook
  BY <1>1 DEF Idle, NoCall
<1> QED  BY <1>2, HookIdle

-----------------------------------------------------------------------------
(* Types and addresses.                                                    *)

Sound == TypeOK' /\ Addressed'

LEMMA TypesKept ==
  ASSUME StoreInv', MonitorsTypeOK', policy' = policy, policy \in Policies,
         level' \in [Tasks -> 0..Len(policy)], timer' \in [Tasks -> TimerRec], call' \in [Calls -> CallRec],
         loop' \in LoopRec, up' \in BOOLEAN, held' \in [Tasks -> BOOLEAN],
         people' \in 0..MaxPeople, crashes' \in 0..MaxCrashes
  PROVE  TypeOK'
BY DEF TypeOK, StoreInv, TimerRec, CallRec, LoopRec

LEMMA MonitorsSame == ASSUME IInv, UNCHANGED monitorVars
  PROVE  /\ MonitorsTypeOK'
         /\ \A q \in Reassessors : reassess'[q].pc \in {"judging", "moving"} => reassess'[q].task \in Tasks
BY DEF IInv, TypeOK, MonitorsTypeOK, monitorVars, Addressed

LEMMA OtherTypes == ASSUME IInv
  PROVE  /\ MonitorsTypeOK /\ up \in BOOLEAN /\ people \in 0..MaxPeople /\ crashes \in 0..MaxCrashes
         /\ MaxPeople \in Nat /\ MaxCrashes \in Nat
         /\ Addressed
BY EscalationAssumption DEF IInv, TypeOK

\* Calls and monitors as they were.
LEMMA SoundSame ==
  ASSUME IInv, StoreInv', UNCHANGED <<monitorVars, managerVars, policy>>, loop' \in LoopRec, up' \in BOOLEAN,
         held' \in [Tasks -> BOOLEAN], people' \in 0..MaxPeople, crashes' \in 0..MaxCrashes
  PROVE  Sound
<1>1. UNCHANGED <<level, timer, call, policy>>
  BY DEF managerVars
<1>2. TypeOK'
  BY <1>1, Types, MonitorsSame, TypesKept
<1>3. \A c \in Calls : call'[c].pc # "none" => call'[c].task \in Tasks
  BY <1>1, OtherTypes DEF Addressed, Busy
<1> QED  BY <1>2, <1>3, MonitorsSame DEF Sound, Addressed, Busy

LEMMA SoundClaims ==
  ASSUME IInv, StoreInv',
         \/ \E t \in Tasks : ClaimTask(t)
         \/ \E r \in Runs, outcome \in {"completed", "failed"} : RunEnds(r, outcome)
         \/ Restart \/ UNCHANGED vars
  PROVE  Sound
<1>1. UNCHANGED <<monitorVars, managerVars, policy, loop, held, people, crashes>> /\ (up' = up \/ up' = TRUE)
  BY DEF ClaimTask, RunEnds, Restart, vars, worldVars
<1> QED  BY <1>1, Types, OtherTypes, SoundSame

LEMMA SoundPeople ==
  ASSUME IInv, StoreInv', NEW t \in Tasks, NEW kept \in BOOLEAN, Decides(t, kept)
  PROVE  Sound
<1>1. /\ UNCHANGED <<monitorVars, managerVars, policy, loop, up, crashes>>
      /\ people < MaxPeople /\ people' = people + 1 /\ held' = [held EXCEPT ![t] = kept]
  BY DEF Decides
<1>2. people' \in 0..MaxPeople
  BY <1>1, OtherTypes
<1>3. held' \in [Tasks -> BOOLEAN]
  BY <1>1, Types
<1> QED  BY <1>1, <1>2, <1>3, Types, OtherTypes, SoundSame

LEMMA SoundSupervisor ==
  ASSUME IInv, StoreInv', (\E r \in Runs : Collect(r)) \/ Acknowledge
  PROVE  Sound
<1>1. UNCHANGED <<monitorVars, managerVars, policy, up, held, people, crashes>>
  BY DEF Collect, Acknowledge, worldVars
<1>2. loop' \in LoopRec
  BY Types, NoRunAssumption DEF Collect, Acknowledge, LoopRec, Idle
<1> QED  BY <1>1, <1>2, Types, OtherTypes, SoundSame

\* A call is put or replaced.
LEMMA SoundCall ==
  ASSUME IInv, StoreInv', NEW c \in Calls, NEW rec \in CallRec, call' = [call EXCEPT ![c] = rec],
         rec.pc # "none" => rec.task \in Tasks,
         UNCHANGED <<monitorVars, policy, up, people, crashes>>, loop' \in LoopRec, held' \in [Tasks -> BOOLEAN],
         level' \in [Tasks -> 0..Len(policy)], timer' \in [Tasks -> TimerRec]
  PROVE  Sound
<1>1. call' \in [Calls -> CallRec]
  BY Types
<1>2. TypeOK'
  BY <1>1, Types, OtherTypes, MonitorsSame, TypesKept
<1>3. ASSUME NEW d \in Calls, call'[d].pc # "none" PROVE call'[d].task \in Tasks
  <2>1. call'[d] = IF d = c THEN rec ELSE call[d]
    BY Types
  <2> QED  BY <1>3, <2>1, OtherTypes DEF Addressed, Busy
<1> QED  BY <1>2, <1>3, MonitorsSame DEF Sound, Addressed, Busy

LEMMA SoundExhausted == ASSUME IInv, StoreInv', JudgeExhausted PROVE Sound
<1> DEFINE r == loop.run
           t == TaskOf(r)
<1>1. /\ StoreInv /\ UNCHANGED <<monitorVars, policy, up, held, people, crashes, level, timer>>
      /\ r \in Runs /\ runs[r].status # "absent" /\ loop \in LoopRec
      /\ loop' = [loop EXCEPT !.pc = "hook"] \/ loop' = [loop EXCEPT !.pc = "ack"]
  BY Types DEF IInv, HookInv, JudgeExhausted, worldVars, RunOutcome
<1>2. loop' \in LoopRec
  BY <1>1 DEF LoopRec
<1>3. t \in Tasks /\ RunRef(r) \in Reference
  BY <1>1, KnownTask, ReferenceOfRun
<1>4. call' = call \/ Begin(HookCall(r))
  BY DEF JudgeExhausted, HookCall
<1>5. CASE call' = call
  <2>1. UNCHANGED <<monitorVars, managerVars, policy>>
    BY <1>1, <1>5 DEF managerVars
  <2> QED  BY <1>1, <1>2, <2>1, Types, OtherTypes, SoundSame
<1>6. CASE Begin(HookCall(r))
  <2>1. PICK c \in Calls : call' = [call EXCEPT ![c] = HookCall(r)]
    BY <1>6, BeginPuts
  <2>2. LevelFor(t) \in 0..Len(policy)
    BY <1>3, LevelsTyped, Types
  <2>3. HookCall(r) \in CallRec /\ HookCall(r).task = t
    BY <1>3, <2>2 DEF HookCall, CallRec
  <2> QED  BY <1>1, <1>2, <1>3, <2>1, <2>3, SoundCall, Types
<1> QED  BY <1>4, <1>5, <1>6

LEMMA SoundTimer == ASSUME IInv, StoreInv', NEW t \in Tasks, TimerFires(t) PROVE Sound
<1>1. /\ UNCHANGED <<monitorVars, policy, up, held, people, crashes, level, loop>>
      /\ timer' = [timer EXCEPT ![t] = NoTimer] /\ Begin(WakeCall(t))
  BY DEF TimerFires, WakeCall, worldVars
<1>2. timer \in [Tasks -> TimerRec] /\ Len(policy) \in Nat
  BY Types
<1>3. NoTimer \in TimerRec
  BY <1>2, MaxRevisionAssumption DEF NoTimer, TimerRec, Reference
<1>4. timer' \in [Tasks -> TimerRec]
  BY <1>1, <1>2, <1>3
<1>5. PICK c \in Calls : call' = [call EXCEPT ![c] = WakeCall(t)]
  BY <1>1, BeginPuts
<1>6. timer[t] \in TimerRec
  BY <1>2
<1>7. WakeCall(t) \in CallRec /\ WakeCall(t).task = t
  BY <1>6 DEF WakeCall, CallRec, TimerRec
<1> QED  BY <1>1, <1>4, <1>5, <1>7, SoundCall, Types

LEMMA SoundCalls == ASSUME IInv, StoreInv', NEW c \in Calls, GoodCall(c) PROVE Sound
<1>1. /\ UNCHANGED <<monitorVars, policy, up, people, crashes>> /\ held' \in [Tasks -> BOOLEAN]
      /\ level' \in [Tasks -> 0..Len(policy)] /\ timer' \in [Tasks -> TimerRec]
      /\ call[c] \in CallRec /\ call[c].task \in Tasks
  BY CallFacts DEF GoodCall, TimersStep
<1>2. ASSUME NEW rec, GoesOn(c, rec) PROVE Sound
  <2>1. call' = [call EXCEPT ![c] = rec] /\ rec \in CallRec /\ rec.task \in Tasks /\ loop' \in LoopRec
    BY <1>1, <1>2, Types DEF GoesOn
  <2> QED  BY <1>1, <2>1, SoundCall
<1>3. CASE Finishes(c)
  <2>1. call' = [call EXCEPT ![c] = NoCall] /\ loop' \in LoopRec
    BY <1>3, Types DEF Finishes, Returns, LoopRec
  <2>2. NoCall \in CallRec /\ NoCall.pc = "none"
    BY Types, MaxRevisionAssumption DEF NoCall, CallRec, NoTimer, Reference
  <2> QED  BY <1>1, <2>1, <2>2, SoundCall
<1> QED  BY <1>2, <1>3 DEF GoodCall, CallMove

\* Monitors and reassessments.
LEMMA SoundMonitors ==
  ASSUME IInv, StoreInv', UNCHANGED <<managerVars, policy, up, crashes>>, loop' \in LoopRec, MonitorsTypeOK',
         \A q \in Reassessors : reassess'[q].pc \in {"judging", "moving"} => reassess'[q].task \in Tasks,
         held' \in [Tasks -> BOOLEAN], people' \in 0..MaxPeople
  PROVE  Sound
<1>1. UNCHANGED <<level, timer, call, policy>>
  BY DEF managerVars
<1>2. TypeOK'
  BY <1>1, Types, OtherTypes, TypesKept
<1>3. \A c \in Calls : call'[c].pc # "none" => call'[c].task \in Tasks
  BY <1>1, OtherTypes DEF Addressed, Busy
<1> QED  BY <1>2, <1>3 DEF Sound, Addressed, Busy

LEMMA SoundMonitoring == ASSUME IInv, StoreInv', Monitoring PROVE Sound
<1>1. UNCHANGED <<managerVars, policy, up, crashes, loop, held, people>>
  BY DEF Monitoring, worldVars
<1>2. sla \in Monitor /\ reassess \in [Reassessors -> Request]
  BY OtherTypes DEF MonitorsTypeOK
<1>3. sla' \in Monitor /\ reassess' = reassess
  BY <1>2, MonitorsAssumption DEF Monitoring, SlaList, SlaFail, SlaListed, SlaDue, SlaTaken, Monitor
<1> QED  BY <1>1, <1>2, <1>3, SoundMonitors, Types, OtherTypes DEF MonitorsTypeOK, Addressed

LEMMA SoundAccept == ASSUME IInv, StoreInv', JudgeAccepts PROVE Sound
<1>1. /\ UNCHANGED <<reassess, managerVars, policy, up, held, people, crashes>>
      /\ sla' = sla \/ sla' = SlaForgets(sla, TaskOf(loop.run))
  BY DEF JudgeAccepts, worldVars
<1>2. loop' \in LoopRec
  BY Types, NoRunAssumption DEF JudgeAccepts, LoopRec, Idle
<1>3. sla \in Monitor /\ reassess \in [Reassessors -> Request]
  BY OtherTypes DEF MonitorsTypeOK
<1>4. sla' \in Monitor
  BY <1>1, <1>3 DEF SlaForgets, Monitor
<1> QED  BY <1>1, <1>2, <1>3, <1>4, SoundMonitors, Types, OtherTypes DEF MonitorsTypeOK, Addressed

LEMMA RequestGoes ==
  ASSUME IInv, NEW q \in Reassessors, NEW pc \in {"moving", "finished"}, reassess[q].pc \in {"judging", "moving"},
         ReassessGoes(q, pc)
  PROVE  /\ reassess' \in [Reassessors -> Request]
         /\ \A p \in Reassessors : reassess'[p].pc \in {"judging", "moving"} => reassess'[p].task \in Tasks
<1>1. reassess \in [Reassessors -> Request] /\ Addressed
  BY OtherTypes DEF MonitorsTypeOK
<1>2. CASE pc = "finished"
  <2>1. reassess' = [reassess EXCEPT ![q] = NoRequest(pc)]
    BY <1>2 DEF ReassessGoes
  <2>2. NoRequest(pc) \in Request /\ NoRequest(pc).pc = "finished"
    BY <1>2 DEF NoRequest, Request, TerminalStatus
  <2> HIDE DEF NoRequest
  <2> QED  BY <1>1, <2>1, <2>2 DEF Addressed
<1>3. CASE pc = "moving"
  <2> DEFINE rec == [reassess[q] EXCEPT !.pc = pc]
  <2>1. reassess' = [reassess EXCEPT ![q] = rec]
    BY <1>3 DEF ReassessGoes
  <2>2. reassess[q].task \in Tasks /\ reassess[q] \in Request
    BY <1>1 DEF Addressed
  <2>3. rec \in Request /\ rec.task \in Tasks
    BY <1>3, <2>2 DEF Request
  <2> HIDE DEF rec
  <2> QED  BY <1>1, <2>1, <2>3 DEF Addressed
<1> QED  BY <1>2, <1>3

LEMMA RequestsKept ==
  ASSUME IInv, NEW q \in Reassessors, Reassessment(q, Tasks)
  PROVE  /\ reassess' \in [Reassessors -> Request]
         /\ \A p \in Reassessors : reassess'[p].pc \in {"judging", "moving"} => reassess'[p].task \in Tasks
<1>1. reassess \in [Reassessors -> Request] /\ Addressed
  BY OtherTypes DEF MonitorsTypeOK
<1>3. ASSUME NEW t \in Tasks, ReassessBegin(q, t)
      PROVE  /\ reassess' \in [Reassessors -> Request]
             /\ \A p \in Reassessors : reassess'[p].pc \in {"judging", "moving"} => reassess'[p].task \in Tasks
  <2> DEFINE rec == [pc |-> "judging", step |-> 1, task |-> t, was |-> tasks[t].status]
  <2>1. reassess' = [reassess EXCEPT ![q] = rec]
    BY <1>3 DEF ReassessBegin
  <2>2. rec \in Request /\ rec.task \in Tasks
    BY <1>3 DEF Request, ReassessBegin
  <2> HIDE DEF rec
  <2> QED  BY <1>1, <2>1, <2>2 DEF Addressed
<1>4. CASE ReassessPasses(q)
  <2>1. reassess[q].pc = "judging" /\ \E pc \in {"moving", "finished"} : ReassessGoes(q, pc)
    BY <1>4 DEF ReassessPasses
  <2> QED  BY <2>1, RequestGoes
<1>5. CASE ReassessFails(q)
  <2>1. reassess[q].pc = "judging" /\ ReassessGoes(q, "finished")
    BY <1>5 DEF ReassessFails
  <2> QED  BY <2>1, RequestGoes
<1>6. CASE ReassessMoves(q)
  <2>1. /\ reassess[q].pc = "moving"
        /\ \/ ReassessGoes(q, "finished")
           \/ /\ Chain[reassess[q].step] # "done"
              /\ reassess' = [reassess EXCEPT ![q].step = @ + 1]
    BY <1>6 DEF ReassessMoves
  <2>2. CASE ReassessGoes(q, "finished")
    BY <2>1, <2>2, RequestGoes
  <2>3. CASE /\ Chain[reassess[q].step] # "done"
             /\ reassess' = [reassess EXCEPT ![q].step = @ + 1]
    <3> DEFINE rec == [reassess[q] EXCEPT !.step = @ + 1]
    <3>1. reassess[q] \in Request /\ reassess[q].task \in Tasks
      BY <1>1, <2>1 DEF Addressed
    <3>2. reassess[q].step \in 1..5 /\ reassess[q].step # 5
      BY <2>3, <3>1 DEF Request, Chain
    <3>3. reassess[q].step + 1 \in 1..5
      BY <3>2
    <3>4. rec \in Request /\ rec.task \in Tasks
      BY <3>1, <3>3 DEF Request
    <3>5. reassess' = [reassess EXCEPT ![q] = rec]
      BY <2>3
    <3> HIDE DEF rec
    <3> QED  BY <1>1, <3>4, <3>5 DEF Addressed
  <2> QED  BY <2>1, <2>2, <2>3
<1> QED  BY <1>3, <1>4, <1>5, <1>6 DEF Reassessment

LEMMA SoundReassessing == ASSUME IInv, StoreInv', NEW q \in Reassessors, Reassessing(q) PROVE Sound
<1>1. /\ UNCHANGED <<sla, managerVars, policy, up, crashes, loop>> /\ Reassessment(q, Tasks)
      /\ held' = [t \in Tasks |-> held[t] /\ tasks'[t] = tasks[t]]
      /\ people' = (IF reassess[q].pc = "idle" THEN people + 1 ELSE people) /\ people' <= MaxPeople
  BY DEF Reassessing
<1>2. people' \in 0..MaxPeople
  BY <1>1, OtherTypes
<1>3. held' \in [Tasks -> BOOLEAN]
  BY <1>1
<1>4. MonitorsTypeOK'
  BY <1>1, RequestsKept, OtherTypes DEF MonitorsTypeOK
<1> QED  BY <1>1, <1>2, <1>3, <1>4, RequestsKept, SoundMonitors, Types

LEMMA SoundCrash == ASSUME IInv, StoreInv', Crash PROVE Sound
<1>1. /\ up' = FALSE /\ crashes < MaxCrashes /\ crashes' = crashes + 1 /\ UNCHANGED <<policy, held, people>>
      /\ level' = [t \in Tasks |-> 0] /\ timer' = [t \in Tasks |-> NoTimer]
      /\ call' = [c \in Calls |-> NoCall] /\ loop' = Idle
      /\ sla' = NoMonitor /\ RequestsLost(Reassessors)
  BY DEF Crash
<1>2. crashes' \in 0..MaxCrashes
  BY <1>1, OtherTypes
<1>3. Len(policy) \in Nat
  BY Types
<1>4. NoTimer \in TimerRec /\ NoCall \in CallRec /\ Idle \in LoopRec /\ NoCall.pc = "none"
  BY <1>3, MaxRevisionAssumption DEF NoTimer, TimerRec, Reference, NoCall, CallRec, Idle, LoopRec
<1>5. /\ level' \in [Tasks -> 0..Len(policy)] /\ timer' \in [Tasks -> TimerRec] /\ call' \in [Calls -> CallRec]
      /\ \A c \in Calls : call'[c].pc = "none"
  BY <1>1, <1>3, <1>4
<1>6. /\ MonitorsTypeOK'
      /\ \A q \in Reassessors : reassess'[q].pc \notin {"judging", "moving"}
  <2>1. reassess \in [Reassessors -> Request]
    BY OtherTypes DEF MonitorsTypeOK
  <2>2. NoRequest("finished") \in Request /\ NoRequest("finished").pc = "finished"
    BY DEF NoRequest, Request, TerminalStatus
  <2>3. sla' \in Monitor
    BY <1>1 DEF Monitor, NoMonitor
  <2>4. \A q \in Reassessors : reassess'[q] = IF reassess[q].pc = "idle" THEN reassess[q] ELSE NoRequest("finished")
    BY <1>1 DEF RequestsLost
  <2>5. reassess' \in [Reassessors -> Request]
    BY <1>1, <2>1, <2>2 DEF RequestsLost
  <2> QED  BY <2>2, <2>3, <2>4, <2>5 DEF MonitorsTypeOK
<1>7. TypeOK'
  BY <1>1, <1>2, <1>4, <1>5, <1>6, Types, OtherTypes, TypesKept
<1> QED  BY <1>5, <1>6, <1>7 DEF Sound, Addressed, Busy

-----------------------------------------------------------------------------
(* The theorems.                                                           *)

LEMMA StepMoves ==
  ASSUME IInv, [Next]_vars
  PROVE  GoodMove
BY ClaimMoves, OutcomeMoves, KillMoves, RetryMoves, AnswerMoves, SlaMoves, ReassessingMoves, CollectMoves,
   AcceptMoves, AcknowledgeMoves, ExhaustedMoves, TimerMoves, CrashMoves, RestartMoves, CallStepIsGood, GoodCallMoves
   DEF Next, Supervise

LEMMA StepSound == ASSUME IInv, StoreInv', [Next]_vars PROVE Sound
<1>1. ASSUME NEW t \in Tasks, Kill(t) \/ RetryTask(t) PROVE Sound
  BY <1>1, SoundPeople DEF Kill, RetryTask
<1>2. ASSUME NEW t \in Tasks, NEW new \in {"pending", "done", "failed"}, Answer(t, new) PROVE Sound
  <2>1. (new # "pending") \in BOOLEAN /\ Decides(t, new # "pending")
    BY <1>2 DEF Answer
  <2> QED  BY <2>1, SoundPeople
<1> QED
  BY <1>1, <1>2, SoundClaims, SoundSupervisor, SoundAccept, SoundExhausted, SoundTimer, SoundCalls, SoundMonitoring,
     SoundReassessing, SoundCrash, CallStepIsGood DEF Next, Supervise

LEMMA StepHook == ASSUME IInv, RowsStep, RunsAge, [Next]_vars PROVE HookInv'
<1>1. ASSUME UNCHANGED <<call, loop>> PROVE HookInv'
  BY <1>1, HookSame
<1>2. ASSUME NEW t \in Tasks, ClaimTask(t) \/ Kill(t) \/ RetryTask(t) PROVE UNCHANGED <<call, loop>>
  BY <1>2 DEF ClaimTask, Kill, RetryTask, Decides, managerVars
<1>3. ASSUME NEW t \in Tasks, NEW new, Answer(t, new) PROVE UNCHANGED <<call, loop>>
  BY <1>3 DEF Answer, Decides, managerVars
<1>4. ASSUME NEW r \in Runs, NEW outcome, RunEnds(r, outcome) PROVE UNCHANGED <<call, loop>>
  BY <1>4 DEF RunEnds, managerVars
<1>5. ASSUME Monitoring \/ (\E q \in Reassessors : Reassessing(q)) \/ Restart \/ UNCHANGED vars
      PROVE  UNCHANGED <<call, loop>>
  BY <1>5 DEF Monitoring, Reassessing, Restart, vars, managerVars
<1> QED
  BY <1>1, <1>2, <1>3, <1>4, <1>5, CollectHook, AcceptHook, AcknowledgeHook, ExhaustedHook, TimerHook, CallHook,
     CrashHook, CallStepIsGood DEF Next, Supervise

LEMMA StepKept == ASSUME IInv, [Next]_vars PROVE IInv' /\ GoodStep
<1>1. StoreEffect /\ RowsStep /\ NewRefs /\ MarksHandled
  BY StepMoves DEF GoodMove
<1>2. GoodStep /\ RunsAge
  BY <1>1, EffectKeepsStore, EffectAges DEF IInv
<1>3. StoreInv' /\ OwnerFenced
  BY <1>2 DEF GoodStep
<1>4. TypeOK' /\ Addressed'
  BY <1>3, StepSound DEF Sound
<1>5. StatusInv' /\ RefsPast' /\ HeldIsLeft' /\ HandledIsDecided'
  BY <1>1, <1>3, StatusAges, RefsAge, HeldAges, HandledAges
<1>6. HookInv'
  BY <1>1, <1>2, StepHook
<1> QED  BY <1>2, <1>3, <1>4, <1>5, <1>6 DEF IInv

LEMMA InitKept == ASSUME Init PROVE IInv
<1>1. /\ \A t \in Tasks : tasks[t] = [status |-> "pending", revision |-> 0, active |-> NoRun, retries |-> 0]
      /\ \A r \in Runs : runs[r] = AbsentRun
      /\ tasks \in [Tasks -> TaskRow] /\ runs \in [Runs -> RunRow]
  BY MaxRevisionAssumption DEF Init, AbsentTask, AbsentRun, TaskRow, RunRow, TaskStatus
<1>2. StoreInv
  BY <1>1, NoTaskAssumption DEF StoreInv, StoreTypeOK, OwnerAgrees, Consistent, RunningIsOwned, PendingIsUnowned,
     RowsAreRooted, AbsentRun
<1>3. policy \in Policies /\ policy \in Seq(Level) /\ Len(policy) \in Nat
  BY DEF Init
<1>4. NoTimer \in TimerRec /\ NoCall \in CallRec /\ Idle \in LoopRec /\ NoCall.pc = "none" /\ ~NoCall.hook
  BY <1>3, MaxRevisionAssumption DEF NoTimer, TimerRec, Reference, NoCall, CallRec, Idle, LoopRec
<1>5. /\ level \in [Tasks -> 0..Len(policy)] /\ timer \in [Tasks -> TimerRec] /\ call \in [Calls -> CallRec]
      /\ loop \in LoopRec /\ up \in BOOLEAN /\ held \in [Tasks -> BOOLEAN]
      /\ people \in 0..MaxPeople /\ crashes \in 0..MaxCrashes
  BY <1>3, <1>4 DEF Init
<1>6. MonitorsTypeOK /\ \A q \in Reassessors : reassess[q].pc = "idle"
  BY DEF Init, ReassessInit, MonitorsTypeOK, Monitor, NoMonitor, NoRequest, Request, TerminalStatus
<1>7. TypeOK
  BY <1>2, <1>3, <1>5, <1>6 DEF TypeOK, StoreInv, TimerRec, CallRec, LoopRec
<1>8. /\ \A c \in Calls : call[c].pc = "none" /\ ~call[c].hook
      /\ \A t \in Tasks : timer[t] = NoTimer /\ ~held[t]
      /\ loop.pc = "idle"
  BY <1>4 DEF Init, Idle
<1>9. StatusInv /\ Addressed /\ RefsPast /\ HeldIsLeft
  BY <1>1, <1>6, <1>8 DEF StatusInv, Missing, Addressed, Busy, RefsPast, Refers, HeldIsLeft
<1>10. HookInv
  BY <1>8 DEF HookInv
<1>11. HandledIsDecided
  BY <1>1 DEF HandledIsDecided
<1> QED  BY <1>2, <1>7, <1>9, <1>10, <1>11 DEF IInv

\* References that calls and timers keep are of the past, what a person has
\* decided is left by all of them, and a hook that returns leaves a decided
\* result: in every state, for any policies and any number of calls and crashes.
THEOREM EscalationKept == Spec => []IInv
<1>1. Init => IInv
  BY InitKept
<1>2. IInv /\ [Next]_vars => IInv'
  BY StepKept
<1> QED  BY <1>1, <1>2, PTL DEF Spec

\* Levels, timers and calls are well typed, and no acknowledged result leaves its
\* Task undecided, whatever the hook met: a skipped level, a conflict, the end of
\* the policy or a crash of the host.
THEOREM ExhaustedIsDecided == Spec => []EscalationInv
<1>1. IInv => EscalationInv
  BY DEF IInv, EscalationInv
<1> QED  BY <1>1, EscalationKept, PTL

\* The word of a person outlives every call that waited for the store, a model
\* or its timeout.
THEOREM PeopleHaveTheWord == Spec => PeopleDecide
<1>1. IInv /\ [Next]_vars => [\A t \in Tasks : held[t] /\ tasks'[t] # tasks[t] => call' = call]_vars
  <2>1. ASSUME IInv, Next, NEW t \in Tasks, held[t], tasks'[t] # tasks[t] PROVE call' = call
    <3>1. ASSUME NEW c \in Calls, CallStep(c) PROVE FALSE
      BY <2>1, <3>1, CallStepIsGood DEF GoodCall
    <3>2. tasks' # tasks
      BY <2>1
    <3>3. ASSUME NEW u \in Tasks, ClaimTask(u) \/ Kill(u) \/ RetryTask(u) PROVE call' = call
      BY <3>3 DEF ClaimTask, Kill, RetryTask, Decides, managerVars
    <3>4. ASSUME NEW u \in Tasks, NEW new, Answer(u, new) PROVE call' = call
      BY <3>4 DEF Answer, Decides, managerVars
    <3>5. ASSUME NEW r \in Runs, NEW outcome, RunEnds(r, outcome) PROVE call' = call
      BY <3>5 DEF RunEnds, managerVars
    <3>6. ASSUME (\E r \in Runs : Collect(r)) \/ JudgeAccepts \/ Acknowledge PROVE call' = call
      BY <3>6 DEF Collect, JudgeAccepts, Acknowledge, managerVars
    <3>7. ASSUME Monitoring \/ (\E q \in Reassessors : Reassessing(q)) PROVE call' = call
      BY <3>7 DEF Monitoring, Reassessing, managerVars
    <3>8. ~(JudgeExhausted \/ (\E u \in Tasks : TimerFires(u)) \/ Crash \/ Restart)
      BY <3>2 DEF JudgeExhausted, TimerFires, Crash, Restart, storeVars
    <3> QED  BY <2>1, <3>1, <3>3, <3>4, <3>5, <3>6, <3>7, <3>8 DEF Next, Supervise
  <2> QED  BY <2>1
<1> QED  BY <1>1, EscalationKept, PTL DEF Spec, PeopleDecide

\* Escalation, monitors and people use the store as exclusive attempts.
THEOREM EscalationAttempts == Spec => Attempts!Spec
<1>1. Init => Attempts!Init
  BY DEF Init, AbsentTask, AbsentRun, Attempts!Init, genOf, liveOf, tokenOf, endedOf, RunningRunsOf, RunsOf, RunOutcome
<1>2. IInv /\ [Next]_vars => [Attempts!Next]_(Attempts!attemptVars)
  BY StepKept DEF GoodStep
<1> QED  BY <1>1, <1>2, EscalationKept, PTL DEF Spec, Attempts!Spec
=============================================================================
