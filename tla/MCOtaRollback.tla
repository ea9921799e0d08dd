---------------------------- MODULE MCOtaRollback ---------------------------
(* Instances of OtaRollback for TLC; the constants are given in the .cfg. *)
EXTENDS OtaRollback
=============================================================================
