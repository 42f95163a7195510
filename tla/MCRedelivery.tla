---------------------------- MODULE MCRedelivery ----------------------------
(* Instances of Redelivery for TLC: one attempt with usable repository      *)
(* coordinates, one without, of different deliveries.                       *)
EXTENDS Redelivery, TLC

CONSTANTS r1, r2, a1, a2, g1, g2

MCGuidOf == a1 :> g1 @@ a2 :> g2
RequestSymmetry == Permutations(Requests)
=============================================================================
