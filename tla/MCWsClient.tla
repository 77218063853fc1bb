------------------------------ MODULE MCWsClient ------------------------------
(* An instance of WsClient for TLC. *)
EXTENDS WsClient

CONSTANTS heartbeat, periodic
===============================================================================
