-------------------------- MODULE MCShutdownTriage --------------------------
(* Instances of ShutdownTriage for TLC. *)
EXTENDS ShutdownTriage

Symmetry == Permutations(Pids)
=============================================================================
