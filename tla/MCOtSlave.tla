------------------------------ MODULE MCOtSlave -----------------------------
(* Instances of OtSlave for TLC; the constants are given in the .cfg. *)
EXTENDS OtSlave
=============================================================================
