\* Two Tasks: b waits for a, which has a deadline and may be reassessed while b
\* executes; a fails, a model decides about the blocked b while a is taken up again.
\* The system stops when every Task is settled and nobody takes one up again.
CONSTANTS
  a = a
  b = b
  c = c
  Supervisors = {s1}
  Tasks = {a, b}
  Runs = {r1, r2}
  NoTask = NoTask
  NoRun = NoRun
  MaxRevision = 9
  Assessed = {a}
  SideEffects = {}
  MaxRetries = 0
  MaxFix = 0
  MaxQuestions = 0
  CompleteVeto = FALSE
  FailVeto = FALSE
  DependsOn <- BAfterA
  MaxResolutions = 1
  MaxConcurrency = 1
  SpawnVeto = FALSE
  Killable = {}
  Clearable = {}
  MaxManual = 0
  MaxFaults = 0
  SlaTasks = {a}
  Reassessors = {q1}
SPECIFICATION Spec
INVARIANTS
  RetryBudget
  DependenciesDone
PROPERTIES
  DeadlockIsReal
  AbsorbedWorkFailed
CHECK_DEADLOCK FALSE
