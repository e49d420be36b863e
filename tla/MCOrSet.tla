------------------------------ MODULE MCOrSet ------------------------------
(* Small instances of the OR-set.                                          *)
EXTENDS OrSet
=============================================================================
