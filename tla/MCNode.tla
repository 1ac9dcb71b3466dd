------------------------------- MODULE MCNode -------------------------------
(* Node.tla with the symmetry of the processes that are not roots. *)
EXTENDS Node, TLC

Spawned == Permutations(Pid \ Root)
=============================================================================
