----------------------------- MODULE DurableRun -----------------------------
(***************************************************************************)
(* What durable delivery promises about one run id, whatever happens to    *)
(* processes and leases: at most one attempt is ever allowed to produce,   *)
(* none once the run has an outcome, and the run has at most one outcome.  *)
(***************************************************************************)
CONSTANTS Owners, Outcomes

VARIABLES
  producers,   \* attempts that were allowed to produce
  outcomes     \* terminal events of the journal

Init == producers = {} /\ outcomes = {}

Produce(o) ==
  /\ producers = {} /\ outcomes = {}
  /\ producers' = {o}
  /\ UNCHANGED outcomes

End(e) ==
  /\ outcomes = {}
  /\ outcomes' = {e}
  /\ UNCHANGED producers

Next == (\E o \in Owners : Produce(o)) \/ (\E e \in Outcomes : End(e))

Spec == Init /\ [][Next]_<<producers, outcomes>>
=============================================================================
