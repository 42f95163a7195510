--------------------------- MODULE MCJournalLookup ---------------------------
(* An instance of JournalLookup for TLC.                                    *)
EXTENDS JournalLookup, TLC

CONSTANTS r1, r2, d1, a1, g1

MCGuidOf == a1 :> g1
RequestSymmetry == Permutations(Requests)
=============================================================================
