\* One Mission of two Tasks; B depends on A and a gate stands between them.  Two
\* calls of executeMission, with one key or without, three attempts, one retry,
\* cancellation or resumption by a person and one crash.
\* The system stops when nothing is left to ask for.
CONSTANTS
  A = A
  B = B
  MaxCalls = 2
  Titles = {A, B}
  Tasks <- AllTasks
  Runs = {r1, r2, r3}
  NoTask = NoTask
  NoRun = NoRun
  MaxRevision = 8
  DependsOn <- BAfterA
  After <- OnlyA
  Blocks <- OnlyB
  Plans <- Several
  SharedState = TRUE
  MaxAsked = 1
  MaxFaults = 1
SPECIFICATION FairSpec
INVARIANT
  MissionInv
PROPERTIES
  CancelIsFinal
  HeldUntilReleased
  Settles
CHECK_DEADLOCK FALSE
