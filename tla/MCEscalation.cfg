\* One Task without retries left, under the SLA monitor; two policies, one that
\* ends with a person and one that ends with a failure; one decision of a user
\* or one reassessment, one crash of the host, fairness.
\* The system stops when the Task is settled and nobody takes it up again.
CONSTANTS
  Tasks = {t1}
  Runs = {r1, r2}
  NoTask = NoTask
  NoRun = NoRun
  MaxRevision = 9
  SlaTasks = {t1}
  Reassessors = {q1}
  Policies <- TwoPolicies
  MaxCalls = 2
  MaxPeople = 1
  MaxCrashes = 1
SPECIFICATION FairSpec
INVARIANTS
  EscalationInv
PROPERTIES
  PeopleDecide
  ResultsAreDecided
  HangIsCutShort
CHECK_DEADLOCK FALSE
