\* One Task, two Runs, two clients with copies of any age, four generations.
\* The system stops when every row is deleted and every copy is stale.
CONSTANTS
  Tasks = {t1}
  Runs = {r1, r2}
  Clients = {c1, c2}
  NoTask = NoTask
  NoRun = NoRun
  MaxRevision = 4
SPECIFICATION Spec
SYMMETRY Symmetry
INVARIANTS
  TypeOK
  OwnerAgrees
  NoReferenceReuse
PROPERTIES
  ImplementsAttempts
CHECK_DEADLOCK FALSE
