------------------------------ MODULE MCGateway -----------------------------
(* Small instances of Gateway: two slots for three ids. *)
EXTENDS Gateway
=============================================================================
