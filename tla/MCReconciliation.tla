-------------------------- MODULE MCReconciliation --------------------------
(* Instances of Reconciliation for TLC: two attempts of different           *)
(* deliveries with usable coordinates, one without.                         *)
EXTENDS Reconciliation, TLC

CONSTANTS a1, a2, a3, none, g1, g2

MCGuidOf == a1 :> g1 @@ a2 :> g2 @@ a3 :> g1
=============================================================================
