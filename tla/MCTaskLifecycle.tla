--------------------------- MODULE MCTaskLifecycle ---------------------------
(***************************************************************************)
(* Instances of TaskLifecycle: dependency graphs and sets for the .cfg     *)
(* files.                                                                  *)
(***************************************************************************)
EXTENDS TaskLifecycle, TLC

CONSTANTS a, b, c

\* Rival supervisors are interchangeable.
Rivals == Permutations(Supervisors)

\* No Task depends on another.
Independent == [t \in Tasks |-> {}]

\* b waits for a; c is independent and competes for the slots.
BAfterA == [t \in Tasks |-> IF t = b THEN {a} ELSE {}]

\* c waits for b, which waits for a.
InChain == [t \in Tasks |-> IF t = c THEN {b} ELSE IF t = b THEN {a} ELSE {}]
=============================================================================
