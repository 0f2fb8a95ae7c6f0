---------------------------- MODULE MCCorpusWriter ----------------------------
(* Instances of CorpusWriter for TLC. *)
EXTENDS CorpusWriter, TLC

Symmetry == Permutations(Writers)
=============================================================================
