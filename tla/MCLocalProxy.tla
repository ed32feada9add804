---------------------------- MODULE MCLocalProxy ----------------------------
(* Small instances of LocalProxy for TLC. *)
EXTENDS LocalProxy
=============================================================================
