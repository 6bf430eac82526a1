\* Two workers and the service over one schedule: recurring with a page of two,
\* recurring with catch-up to the latest, or one-time; two occurrences, a manual
\* trigger, one call or fault.  Everything may be over.
CONSTANTS
  w1 = w1
  w2 = w2
  k1 = k1
  Horizon = 2
  Triggers = {k1}
  Workers = {w1, w2}
  Api = Api
  MaxConcurrency = 1
  Policies <- Timings
  Grace = 1
  Results = {"succeeded"}
  MaxEvents = 1
  NoKey = NoKey
SPECIFICATION FairSpec
INVARIANTS
  TypeOK
  NothingDropped
  ConcurrencyCap
  OverlapNeedsStall
  DecidedByNewest
PROPERTIES
  RunsSettle
  DueRuns
CHECK_DEADLOCK FALSE
