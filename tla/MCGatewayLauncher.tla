-------------------------- MODULE MCGatewayLauncher --------------------------
(* GatewayLauncher for TLC: it has no parameter, and every state is reached. *)
EXTENDS GatewayLauncher
=============================================================================
