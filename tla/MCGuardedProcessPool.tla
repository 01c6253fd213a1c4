------------------------ MODULE MCGuardedProcessPool ------------------------
(* Two guards, as in the VPN service: sslocal, and tun2socks, which has a   *)
(* restart callback.                                                        *)
EXTENDS GuardedProcessPool
=============================================================================
