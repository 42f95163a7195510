-------------------------- MODULE MCDeliveryLedger --------------------------
(* Instances of DeliveryLedger for TLC.                                     *)
EXTENDS DeliveryLedger, TLC

CONSTANTS w1, w2, w3, d1, d2

WorkerSymmetry == Permutations(Workers) \cup Permutations(Identities)
=============================================================================
