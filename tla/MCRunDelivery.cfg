\* Two attempts, one reader that reconciles, a follower and a cancellation, of
\* which two at a time take part beside the reader; two faults, both kinds of store.
\* The system stops when the run has ended and its followers have seen that.
CONSTANTS
  Owners = {o1, o2}
  Reconcilers = {r1}
  Followers = {f1}
  Cancellers = {c1}
  Stores = {"transactional", "sql"}
  MaxChunks = 1
  MaxActors = 2
  MaxFaults = 2
  PromptTerminal = TRUE
  None = None
SPECIFICATION FairSpec
INVARIANTS
  DeliveryInv
  OutcomeIsLast
PROPERTIES
  ImplementsRun
  StartedRunsEnd
  FollowersStop
  CancellationArrives
CHECK_DEADLOCK FALSE
