------------------------------ MODULE MCMissions ------------------------------
(***************************************************************************)
(* Instances of Missions: calls, keys and plans for the .cfg files.        *)
(***************************************************************************)
EXTENDS Missions

CONSTANTS A, B

AllTasks == Calls \X Titles

\* B depends on A, and a gate stands between them.
BAfterA == [x \in Titles |-> IF x = B THEN {A} ELSE {}]
OnlyA == {A}
OnlyB == {B}

Starts(origin, gate, keyed) == [origin |-> origin, gate |-> gate, keyed |-> keyed]

\* One execution behind each kind of gate; two executions without one and with a delay.
Several == {Starts("draft", "checkpoint", TRUE), Starts("scheduled", "delay", TRUE),
            Starts("recurring", "none", FALSE), Starts("recurring", "delay", FALSE)}

\* Two executions, each with a checkpoint.
Checkpoints == {Starts("recurring", "checkpoint", FALSE)}
=============================================================================
