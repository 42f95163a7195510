------------------------- MODULE MCSchemaMigrations -------------------------
(* An instance of SchemaMigrations for TLC.                                 *)
EXTENDS SchemaMigrations

CONSTANTS w1, w2
=============================================================================
