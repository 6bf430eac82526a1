---------------------------- MODULE MCTaskClients ----------------------------
(***************************************************************************)
(* TaskClients on small instances: model values for the identities, which  *)
(* the store never compares except for equality, so they are symmetric.    *)
(***************************************************************************)
EXTENDS TaskClients, TLC

Symmetry == Permutations(Tasks) \cup Permutations(Runs) \cup Permutations(Clients)
=============================================================================
