------------------------------ MODULE MCProbes ------------------------------
(* Instances of Probes for TLC. *)
EXTENDS Probes

\* Gone, implausible, two good values a step apart and a third, and the power-on value.
MCRaws == {-127, 10, 20, 30, 85, 130}
=============================================================================
