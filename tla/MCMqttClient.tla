---------------------------- MODULE MCMqttClient ----------------------------
(* MqttClient on a small instance: the main thread and one sampling thread. *)
EXTENDS MqttClient
=============================================================================
