----------------------------- MODULE MCMqttLite -----------------------------
(* A queue of two and a flight of two, so that a resend meets a full queue;  *)
(* identifiers do not wrap within the bounds.                                *)
EXTENDS MqttLite
=============================================================================
