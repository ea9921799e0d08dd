---------------------------- MODULE MCMqttSession ----------------------------
(* Instances of MqttSession for TLC. *)
EXTENDS MqttSession
=============================================================================
