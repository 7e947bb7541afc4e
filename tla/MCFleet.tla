------------------------------ MODULE MCFleet ------------------------------
(* Two compute nodes; the second one may replace its PIV token.             *)
EXTENDS Fleet, TLC

CONSTANTS n1, n2, g1, g2, g3

NodeOf == (g1 :> n1) @@ (g2 :> n2)

NodeOfThree == (g1 :> n1) @@ (g2 :> n2) @@ (g3 :> n2)

(* The nodes are alike, with their PIV tokens.                              *)
Symmetry ==
  {[x \in {n1, n2, g1, g2} |->
      CASE x = n1 -> n2 [] x = n2 -> n1 [] x = g1 -> g2 [] x = g2 -> g1]}
=============================================================================
