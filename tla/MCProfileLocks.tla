--------------------------- MODULE MCProfileLocks ---------------------------
(* Small instances of ProfileLocks for TLC. *)
EXTENDS ProfileLocks, TLC

\* --config=all against --config=2, which all launches last.
MCSelections == {Configs, {2}}

Symmetry == Permutations(Pids) \cup Permutations(Supervisors)
=============================================================================
