------------------------ MODULE MCManagementIdentity ------------------------
(* Instances of ManagementIdentity for TLC.                                 *)
EXTENDS ManagementIdentity, TLC

CONSTANTS r1, r2, k1, k2

RequestKeySymmetry == Permutations(Requests) \cup Permutations(Keys)
=============================================================================
