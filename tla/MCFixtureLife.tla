---------------------------- MODULE MCFixtureLife ----------------------------
(* Instances of FixtureLife for TLC. *)
EXTENDS FixtureLife
=============================================================================
