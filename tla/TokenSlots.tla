----------------------------- MODULE TokenSlots -----------------------------
(***************************************************************************)
(* What the life of recovery tokens promises to a compute node: its PIV    *)
(* token has at most one created, one staged and one active recovery       *)
(* token.  A token only moves forward, from one slot to the next, and any  *)
(* slot may be vacated.                                                    *)
(***************************************************************************)
CONSTANTS PivTokens, Tokens, Nil

VARIABLES created, staged, active

vars == <<created, staged, active>>

Init ==
  /\ created = [p \in PivTokens |-> Nil]
  /\ staged = [p \in PivTokens |-> Nil]
  /\ active = [p \in PivTokens |-> Nil]

(* A new token takes the place of the one that was never staged. *)
Create(p, t) ==
  /\ \A q \in PivTokens : t \notin {created[q], staged[q], active[q]}
  /\ created' = [created EXCEPT ![p] = t]
  /\ UNCHANGED <<staged, active>>

(* A new PIV token comes with an active token, in an empty place.           *)
Provision(p, t) ==
  /\ active[p] = Nil
  /\ \A q \in PivTokens : t \notin {created[q], staged[q], active[q]}
  /\ active' = [active EXCEPT ![p] = t]
  /\ UNCHANGED <<created, staged>>

(* Staging takes the place of the staged token. *)
Stage(p) ==
  /\ created[p] # Nil
  /\ staged' = [staged EXCEPT ![p] = created[p]]
  /\ created' = [created EXCEPT ![p] = Nil]
  /\ UNCHANGED active

(* Activating takes the place of the active token. *)
Activate(p) ==
  /\ staged[p] # Nil
  /\ active' = [active EXCEPT ![p] = staged[p]]
  /\ staged' = [staged EXCEPT ![p] = Nil]
  /\ UNCHANGED created

Without(slot, S) == [p \in PivTokens |-> IF p \in S THEN Nil ELSE slot[p]]

(* Tokens expire or are deleted, possibly those of several PIV tokens. *)
Vacate ==
  /\ \E S \in SUBSET PivTokens : created' = Without(created, S)
  /\ \E S \in SUBSET PivTokens : staged' = Without(staged, S)
  /\ \E S \in SUBSET PivTokens : active' = Without(active, S)

Next ==
  \/ Vacate
  \/ \E p \in PivTokens : Stage(p) \/ Activate(p)
  \/ \E p \in PivTokens, t \in Tokens : Create(p, t) \/ Provision(p, t)

Spec == Init /\ [][Next]_vars
=============================================================================
