------------------------- MODULE MCGatewayCommands -------------------------
(* Instances of GatewayCommands for TLC. *)
EXTENDS GatewayCommands
=============================================================================
