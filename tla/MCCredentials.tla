--------------------------- MODULE MCCredentials ---------------------------
(* Two PIV tokens, the first one in the node's slot; two calls.             *)
EXTENDS Credentials, TLC

CONSTANTS c1, c2

Symmetry == Permutations(Calls)
=============================================================================
