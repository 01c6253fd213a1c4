---------------------- MODULE MCShadowsocksConnection -----------------------
(* The service's process dies twice at most.                                *)
EXTENDS ShadowsocksConnection
=============================================================================
