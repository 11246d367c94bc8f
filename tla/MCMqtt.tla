------------------------------- MODULE MCMqtt -------------------------------
(* Two command topics for Mqtt.                                             *)
EXTENDS Mqtt

MCCommands == <<"Power/Set", "Mode/Set">>
=============================================================================
