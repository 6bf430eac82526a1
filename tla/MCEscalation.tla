----------------------------- MODULE MCEscalation -----------------------------
(***************************************************************************)
(* Two escalation policies: one that ends with a person, one that ends     *)
(* with a failure.                                                         *)
(***************************************************************************)
EXTENDS Escalation

Lvl(handler, timed) == [handler |-> handler, timed |-> timed]

WithPerson == << Lvl("orchestrator", TRUE), Lvl("agent", TRUE), Lvl("human", FALSE) >>
WithoutPerson == << Lvl("agent", TRUE) >>

TwoPolicies == {WithPerson, WithoutPerson}
=============================================================================
