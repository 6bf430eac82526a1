\* One Task, two gates on its start and one on its completion, a person who
\* decides beside the timers; one edit, one reload, one crash. Three Runs: the one
\* that is suspended, the one that starts with consent, and after its recovery a
\* successor, which must not start with the same consent.
\* The system stops when the Task is settled.
CONSTANTS
  Tasks = {a}
  Runs = {r1, r2, r3}
  NoTask = NoTask
  NoRun = NoRun
  MaxRevision = 12
  Batches = {b1, b2}
  SpawnGates = {g1, g2}
  CompleteGates = {g2}
  Timed = {g1, g2}
  Lenient = {g1}
  MaxRevisions = 1
  Users = {u1}
  MaxEdits = 1
  MaxReloads = 1
  MaxCrashes = 1
  NoBatch = NoBatch
SPECIFICATION FairSpec
INVARIANTS
  ConsentIsForThisRun
  ApprovalsInv
PROPERTIES
  DoneIsApproved
  TimeoutsDecide
CHECK_DEADLOCK FALSE
