\* One Task with side effects whose agent may ask a question.
\* The system stops when the Task is settled.
CONSTANTS
  a = a
  b = b
  c = c
  Supervisors = {s1}
  Tasks = {a}
  Runs = {r1, r2, r3}
  NoTask = NoTask
  NoRun = NoRun
  MaxRevision = 9
  Assessed = {a}
  SideEffects = {a}
  MaxRetries = 0
  MaxFix = 0
  MaxQuestions = 1
  CompleteVeto = FALSE
  FailVeto = FALSE
  DependsOn <- Independent
  MaxResolutions = 0
  MaxConcurrency = 1
  SpawnVeto = FALSE
  Killable = {}
  Clearable = {}
  MaxManual = 0
  MaxFaults = 0
  SlaTasks = {}
  Reassessors = {}
SPECIFICATION Spec
PROPERTIES
  SideEffectsAwaitHuman
CHECK_DEADLOCK FALSE
