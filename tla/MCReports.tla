----------------------------- MODULE MCReports -----------------------------
(* What the service reports: its state, to the app, through a connection    *)
(* that lives and dies with both (the service's process dies twice at most, *)
(* and up to MaxWire calls are on their way), and its traffic, to the       *)
(* listeners and the database (up to MaxBytes bytes each way and            *)
(* MaxRestarts restarts of sslocal; the session ends and stays ended).      *)
(*                                                                          *)
(* The two share no state, so they need not be interleaved: part says which *)
(* of them moves in this behaviour; the other stays as it is.               *)
EXTENDS ShadowsocksConnection

CONSTANTS MaxBytes, MaxRestarts

ASSUME TrafficAssumption == MaxBytes \in Nat /\ MaxRestarts \in Nat

VARIABLES
  part,
  session, before, restarts, pipe, msg, sock, current, dirty, monitor, out,
  rate, listeners, inSession, row, fetched, persisted, seen, remarked, unseen,
  late, overtaken, reset

Traffic == INSTANCE TrafficMonitor
             WITH wire <- pipe, main <- monitor, told <- listeners,
                  alive <- inSession, missed <- unseen

trafficVars == <<session, before, restarts, pipe, msg, sock, current, dirty,
                 monitor, out, rate, listeners, inSession, row, fetched,
                 persisted, seen, remarked, unseen, late, overtaken, reset>>
all == <<part, vars, trafficVars>>

MCInit == part \in {"state", "traffic"} /\ Init /\ Traffic!Init

MCNext ==
  /\ UNCHANGED part
  /\ \/ part = "state" /\ Next /\ UNCHANGED trafficVars
     \/ part = "traffic" /\ Traffic!Next /\ UNCHANGED vars

MCSpec == MCInit /\ [][MCNext]_all

-----------------------------------------------------------------------------
(* The properties of the connection are those of ShadowsocksConnection.     *)
(* When both threads are at rest, what requestUpdate last handed out is     *)
(* what the socket delivered, unless the flag was set between its test and  *)
(* its reset; the listeners were told the same; and until sslocal is        *)
(* restarted no rate is negative and no total exceeds the traffic.          *)
MonitorCurrent ==
  /\ Traffic!TypeOK
  /\ Traffic!OutIsCurrent /\ Traffic!ListenersTold /\ Traffic!RatesPlausible

(* At the end the profile has grown by what the reports accounted for, with *)
(* the exceptions TrafficMonitor names.                                     *)
CountedOnce == Traffic!CountedOnce

(* Settings written by the app survive persistStats, unless they were       *)
(* written between its fetch and its update.                                *)
EditSurvives == Traffic!EditSurvives
=============================================================================
