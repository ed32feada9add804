---------------------------- MODULE MCProxySystem ----------------------------
(* Small instances of ProxySystem for TLC: see the .cfg files.             *)
EXTENDS ProxySystem

One == {1}
=============================================================================
