\* One Task, two supervisors of one host on the same store: both recover, both
\* collect the same results and both claim the same Task; its agent may ask.
\* The system stops when the Task is settled: a rerun needs a user.
CONSTANTS
  a = a
  b = b
  c = c
  Supervisors = {s1, s2}
  Tasks = {a}
  Runs = {r1, r2}
  NoTask = NoTask
  NoRun = NoRun
  MaxRevision = 9
  Assessed = {a}
  SideEffects = {}
  MaxRetries = 1
  MaxFix = 0
  MaxQuestions = 1
  CompleteVeto = FALSE
  FailVeto = FALSE
  DependsOn <- Independent
  MaxResolutions = 0
  MaxConcurrency = 1
  SpawnVeto = FALSE
  Killable = {}
  Clearable = {}
  MaxManual = 0
  MaxFaults = 1
  SlaTasks = {}
  Reassessors = {}
SYMMETRY Rivals
SPECIFICATION Spec
INVARIANTS
  DoneByNewestRun
  AcknowledgedIsDecided
CHECK_DEADLOCK FALSE
