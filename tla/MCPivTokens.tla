----------------------------- MODULE MCPivTokens -----------------------------
(* Small instances of PivTokens for TLC. *)
EXTENDS PivTokens, TLC

Symmetry == Permutations(Guids) \cup Permutations(Lives) \cup Permutations(Handlers)
=============================================================================
