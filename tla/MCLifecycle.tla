---------------------------- MODULE MCLifecycle ----------------------------
(* Two servers that make two buckets, and a transitioner.                   *)
EXTENDS Lifecycle, TLC
=============================================================================
