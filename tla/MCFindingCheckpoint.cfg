\* Two executions of a recurring Mission, each with a checkpoint between A and B,
\* and the checkpoint store of the database: removeGroup saves a copy of the
\* engine's state, which the engine takes over after the save.
CONSTANTS
  A = A
  B = B
  MaxCalls = 2
  Titles = {A, B}
  Tasks <- AllTasks
  Runs = {r1, r2, r3}
  NoTask = NoTask
  NoRun = NoRun
  MaxRevision = 8
  DependsOn <- BAfterA
  After <- OnlyA
  Blocks <- OnlyB
  Plans <- Checkpoints
  SharedState = FALSE
  MaxAsked = 0
  MaxFaults = 0
SPECIFICATION Spec
PROPERTIES
  HeldUntilReleased
CHECK_DEADLOCK FALSE
