--------------------------- MODULE MCTransitioner ---------------------------
(* Small instances of Transitioner for TLC. *)
EXTENDS Transitioner, TLC

Symmetry == Permutations(Nodes)
=============================================================================
