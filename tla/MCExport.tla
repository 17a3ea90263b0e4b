------------------------------ MODULE MCExport ------------------------------
(***************************************************************************)
(* Three times and two pages. Value is numbers: NULL is a model value.     *)
(***************************************************************************)
EXTENDS Export

MCCombination == 1..3
=============================================================================
