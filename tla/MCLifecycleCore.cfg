\* One Task with a retry and a fix and a deadline; a user kills, retries and
\* deletes it, every hook may veto, the supervisor or a runner crashes once.
\* The system stops when the Task is settled and nobody retries it.
CONSTANTS
  a = a
  b = b
  c = c
  Supervisors = {s1}
  Tasks = {a}
  Runs = {r1, r2}
  NoTask = NoTask
  NoRun = NoRun
  MaxRevision = 9
  Assessed = {a}
  SideEffects = {}
  MaxRetries = 1
  MaxFix = 1
  MaxQuestions = 0
  CompleteVeto = TRUE
  FailVeto = TRUE
  DependsOn <- Independent
  MaxResolutions = 0
  MaxConcurrency = 1
  SpawnVeto = TRUE
  Killable = {a}
  Clearable = {a}
  MaxManual = 1
  MaxFaults = 1
  SlaTasks = {a}
  Reassessors = {}
SPECIFICATION Spec
INVARIANTS
  LifecycleInv
  RetryBudget
PROPERTIES
  CompletionIsAssessed
CHECK_DEADLOCK FALSE
