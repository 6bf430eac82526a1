------------------------------ MODULE Assessment ------------------------------
(***************************************************************************)
(* What the assessment of a collected result decides about its Task        *)
(* (packages/core/src/assessment-orchestrator.ts).  Every write goes       *)
(* through the execution reference captured with the result; a conflict is *)
(* swallowed by handleResult, any other rejection leaves the supervisor's  *)
(* tick.  The verdict of models and judges is nondeterministic.            *)
(***************************************************************************)
EXTENDS TaskStore

CONSTANTS
  Assessed,       \* Tasks with expectations or metrics
  SideEffects,    \* Tasks declared to have irreversible side effects
  MaxRetries,     \* task.maxRetries
  MaxFix,         \* settings.maxFixAttempts
  MaxQuestions,   \* settings.maxQuestionRounds
  CompleteVeto,   \* a task:complete hook may block completion
  FailVeto        \* a task:fail hook may intercept the final failure

ASSUME AssessmentAssumption ==
  /\ Assessed \subseteq Tasks
  /\ SideEffects \subseteq Tasks
  /\ MaxRetries \in Nat /\ MaxFix \in Nat /\ MaxQuestions \in Nat
  /\ CompleteVeto \in BOOLEAN /\ FailVeto \in BOOLEAN

VARIABLES rounds   \* fixAttempts and questionRounds of each Task

RoundsTypeOK == rounds \in [Tasks -> [fixes : 0..MaxFix, questions : 0..MaxQuestions]]
RoundsInit == rounds = [t \in Tasks |-> [fixes |-> 0, questions |-> 0]]

assessVars == <<tasks, runs, rounds>>

-----------------------------------------------------------------------------

\* Mutant: a result whose review was interrupted is not taken up again.
Admits_OnlyInProgress(t, ref) == Current(t, ref) /\ tasks[t].status = "in_progress"

\* handleExecutionResult up to the first wait: the result is admitted.
Admits(t, ref) == Current(t, ref) /\ tasks[t].status \notin TerminalStatus

Admit(t, ref) ==
  /\ Admits(t, ref)
  /\ IF tasks[t].status = "in_progress" THEN SetTaskStatus(t, "review") ELSE UNCHANGED tasks
  /\ UNCHANGED <<runs, rounds>>

\* The attempt was taken away during the assessment.
Superseded(t, ref) == ~Current(t, ref) /\ UNCHANGED assessVars

\* resolveAndRerun: answer the agent's question and queue the Task again.
AnswerAndRerun(t, ref, succeeded) ==
  /\ succeeded
  /\ rounds[t].questions < MaxQuestions
  /\ Requeue(t, ref, FALSE, FALSE)
  /\ rounds' = [rounds EXCEPT ![t].questions = @ + 1]

\* transitionToDone, where the completion hook may keep the Task in review.
Accept(t, ref, succeeded) ==
  /\ succeeded
  /\ \/ /\ CompleteVeto
        /\ Current(t, ref)
        /\ UNCHANGED storeVars
     \/ MutateTransition(t, ref, "done")
  /\ UNCHANGED rounds

\* fixOrRetry while fix attempts are left.
Fix(t, ref, succeeded) ==
  /\ succeeded
  /\ t \in Assessed \ SideEffects
  /\ rounds[t].fixes < MaxFix
  /\ Requeue(t, ref, FALSE, FALSE)
  /\ rounds' = [rounds EXCEPT ![t].fixes = @ + 1]

\* fixOrRetry when none is left: the counter is reset first, then retryOrFail.
FixesExhausted(t, ref, succeeded) ==
  /\ succeeded
  /\ t \in Assessed \ SideEffects
  /\ rounds[t].fixes = MaxFix
  /\ Current(t, ref)
  /\ rounds' = [rounds EXCEPT ![t].fixes = 0]
  /\ UNCHANGED storeVars

\* retryOrFail is reached directly when the Run failed, when the checks of a
\* Task with side effects failed, or when the assessment itself failed.
ReachesRetry(t, succeeded) == ~succeeded \/ t \in Assessed

SuspendForHuman(t, ref) ==
  /\ t \in SideEffects
  /\ MutateTransition(t, ref, "awaiting_approval")
  /\ UNCHANGED rounds

Retry(t, ref) ==
  /\ t \notin SideEffects
  /\ tasks[t].retries < MaxRetries
  /\ Requeue(t, ref, TRUE, FALSE)
  /\ rounds' = [rounds EXCEPT ![t].fixes = 0]

FinalFailure(t, ref) ==
  /\ t \notin SideEffects
  /\ tasks[t].retries >= MaxRetries
  /\ \/ /\ FailVeto
        /\ Current(t, ref)
        /\ UNCHANGED storeVars
     \/ MutateTransition(t, ref, "failed")
  /\ UNCHANGED rounds

\* A rival made the Task done in the same generation: the requeue is a
\* conflict, which handleResult swallows.
RetryOvertaken(t, ref) ==
  /\ Current(t, ref)
  /\ tasks[t].status = "done"
  /\ t \notin SideEffects
  /\ tasks[t].retries < MaxRetries
  /\ UNCHANGED assessVars

RequeueOvertaken(t, ref, succeeded) ==
  /\ succeeded
  /\ Current(t, ref)
  /\ tasks[t].status = "done"
  /\ \/ rounds[t].questions < MaxQuestions
     \/ t \in Assessed \ SideEffects /\ rounds[t].fixes < MaxFix
  /\ UNCHANGED assessVars

RetryOrFail(t, ref) == SuspendForHuman(t, ref) \/ Retry(t, ref) \/ FinalFailure(t, ref)

\* The assessment returns: the Run will be acknowledged.
Decide(t, ref, succeeded) ==
  \/ Superseded(t, ref)
  \/ AnswerAndRerun(t, ref, succeeded)
  \/ Accept(t, ref, succeeded)
  \/ Fix(t, ref, succeeded)
  \/ ReachesRetry(t, succeeded) /\ (RetryOrFail(t, ref) \/ RetryOvertaken(t, ref))
  \/ RequeueOvertaken(t, ref, succeeded)

\* The state machine refuses the transition the assessment asked for: somebody
\* moved the Task inside the same generation.  Nothing is written and the error
\* ends the tick before the acknowledgement.
Refused(t, ref, succeeded) ==
  /\ Current(t, ref)
  /\ \/ succeeded /\ t \notin Assessed /\ ~CanMoveTo(t, ref, "done")
     \/ /\ ReachesRetry(t, succeeded)
        /\ IF t \in SideEffects
             THEN ~CanMoveTo(t, ref, "awaiting_approval")
             ELSE tasks[t].retries >= MaxRetries /\ ~CanMoveTo(t, ref, "failed")
  /\ UNCHANGED assessVars
=============================================================================
