\* Liveness: b waits for a; the supervisor or a runner crashes once, agents may
\* hang, a model decides about the blocked b, and every Task settles.
\* The system stops when every Task is settled.
CONSTANTS
  a = a
  b = b
  c = c
  Supervisors = {s1}
  Tasks = {a, b}
  Runs = {r1, r2, r3}
  NoTask = NoTask
  NoRun = NoRun
  MaxRevision = 9
  Assessed = {}
  SideEffects = {}
  MaxRetries = 0
  MaxFix = 0
  MaxQuestions = 0
  CompleteVeto = FALSE
  FailVeto = FALSE
  DependsOn <- InChain
  MaxResolutions = 1
  MaxConcurrency = 1
  SpawnVeto = FALSE
  Killable = {}
  Clearable = {}
  MaxManual = 0
  MaxFaults = 1
  SlaTasks = {}
  Reassessors = {}
SPECIFICATION FairSpec
PROPERTIES
  Settles
  SupersededStops
CHECK_DEADLOCK FALSE
