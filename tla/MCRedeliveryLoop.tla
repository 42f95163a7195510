-------------------------- MODULE MCRedeliveryLoop --------------------------
(* An instance of RedeliveryLoop for TLC.                                   *)
EXTENDS RedeliveryLoop

CONSTANTS g1, g2, a1, a2
=============================================================================
