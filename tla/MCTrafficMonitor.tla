-------------------------- MODULE MCTrafficMonitor --------------------------
(* TrafficMonitor with up to MaxBytes bytes each way and MaxRestarts restarts *)
(* of sslocal; the session ends and stays ended.                              *)
EXTENDS TrafficMonitor
=============================================================================
