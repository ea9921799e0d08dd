----------------------------- MODULE MCFailsafe -----------------------------
(* Instances of Failsafe for TLC. *)
EXTENDS Failsafe

MCBounds == {[lb |-> 20, ub |-> 45]}
=============================================================================
