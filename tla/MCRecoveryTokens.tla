-------------------------- MODULE MCRecoveryTokens --------------------------
(* Small instances of RecoveryTokens for TLC. *)
EXTENDS RecoveryTokens, TLC

Symmetry == Permutations(Tokens) \cup Permutations(Handlers)

(* Enough writes to expire and to reactivate a configuration. *)
TwoIfReactivatable == [c \in Configs |-> IF c \in Reactivatable THEN 2 ELSE 1]
Two == [c \in Configs |-> 2]
Three == [c \in Configs |-> 3]
None == [c \in Configs |-> 0]
=============================================================================
