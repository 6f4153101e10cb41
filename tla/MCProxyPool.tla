----------------------------- MODULE MCProxyPool -----------------------------
(* Instances of ProxyPool for TLC. *)
EXTENDS ProxyPool

CONSTANTS n1, n2, j1, a
=============================================================================
