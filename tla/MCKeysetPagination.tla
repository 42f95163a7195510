------------------------- MODULE MCKeysetPagination -------------------------
(* An instance of KeysetPagination for TLC. Clients do not meet: one will   *)
(* do.                                                                      *)
EXTENDS KeysetPagination, TLC

CONSTANT c1
=============================================================================
