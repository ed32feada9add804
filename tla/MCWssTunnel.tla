---------------------------- MODULE MCWssTunnel ----------------------------
(* Small instances of WssTunnel for TLC: see the .cfg files. *)
EXTENDS WssTunnel
=============================================================================
