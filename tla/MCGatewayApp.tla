---------------------------- MODULE MCGatewayApp ----------------------------
(* GatewayApp on a small instance. *)
EXTENDS GatewayApp
=============================================================================
