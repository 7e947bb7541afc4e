-------------------------- MODULE MCConfigurations --------------------------
(* Small instances of Configurations for TLC. *)
EXTENDS Configurations, TLC

Symmetry == Permutations(Clients)
=============================================================================
