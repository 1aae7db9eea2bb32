---------------------------- MODULE ChatGatewayMC ---------------------------
(* ChatGateway for TLC. *)
EXTENDS ChatGateway

CONSTANTS alice, s1, q1
=============================================================================
