----------------------------- MODULE MCBootMigrate -----------------------------
(***************************************************************************)
(* The model is finite as it is: the runs choose the faults and the phases *)
(* in which the power is cut.                                              *)
(***************************************************************************)
EXTENDS BootMigrate

Nowhere == {}

=============================================================================
