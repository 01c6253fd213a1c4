----------------------------- MODULE MCSupport -----------------------------
(* What the VPN service stands on: the pool of its processes (two guards,   *)
(* sslocal and tun2socks, of which the second has a restart callback), the  *)
(* hand-over of the tun device to tun2socks (three processes in a row, and  *)
(* the attempts of the code), and the listener for the default network (two *)
(* instances of the service in a row, two networks).                        *)
(*                                                                          *)
(* The three share no state, so they need not be interleaved: part says     *)
(* which of them moves in this behaviour; the others stay as they are.      *)
EXTENDS GuardedProcessPool

CONSTANTS MaxAttempts, MaxStarts, Service, Network, None, NetSdks, MaxMail

ASSUME SupportAssumption ==
  MaxAttempts \in Nat /\ MaxStarts \in Nat \ {0} /\ None \notin Network

VARIABLES
  part,
  service, starts, tunProc, path, backlog, conn, told, fd, sender, attempts,
  overlap,
  api, default, mail, registered, fallback, listeners, network,
  pendingRequests, phase, underlyingNetwork, active, metered, builder, vpn,
  raced

Fd == INSTANCE TunFd
        WITH proc <- tunProc, tries <- attempts, MaxTries <- MaxAttempts
Net == INSTANCE DefaultNetworkListener WITH sdk <- api, Sdks <- NetSdks

fdVars == <<service, starts, tunProc, path, backlog, conn, told, fd, sender,
            attempts, overlap>>
netVars == <<api, default, mail, registered, fallback, listeners, network,
             pendingRequests, phase, underlyingNetwork, active, metered,
             builder, vpn, raced>>
all == <<part, vars, fdVars, netVars>>

MCInit ==
  /\ part \in {"pool", "fd", "net"}
  /\ Init /\ (part # "pool" => sdk = 26)
  /\ Fd!Init /\ (part # "fd" => path = "none")
  /\ Net!Init /\ (part # "net" => api = 26 /\ default = None)

MCNext ==
  /\ UNCHANGED part
  /\ \/ part = "pool" /\ Next /\ UNCHANGED <<fdVars, netVars>>
     \/ part = "fd" /\ Fd!Next /\ UNCHANGED <<vars, netVars>>
     \/ part = "net" /\ Net!Next /\ UNCHANGED <<vars, fdVars>>

(* The fairness of each component, for the one that moves.                  *)
MCSpec ==
  /\ MCInit /\ [][MCNext]_all
  /\ WF_vars(part = "pool" /\ stopping /\ Close)
  /\ \A g \in Guard :
       /\ WF_vars(part = "pool" /\ signal[g] = "kill" /\ ProcessExits(g))
       /\ WF_vars(part = "pool" /\ (WaitReturns(g) \/ HandOver(g)))
       /\ WF_vars(part = "pool" /\ Dispatched(g))
  /\ WF_fdVars(part = "fd" /\ Fd!Goes)
  /\ WF_fdVars(part = "fd" /\ fd = "minus1" /\ Fd!Exit)
  /\ WF_fdVars(part = "fd" /\ Fd!Restart)
  /\ \A s \in Fd!Senders : WF_fdVars(part = "fd" /\ Fd!Tries(s))
  /\ WF_netVars(part = "net" /\ Net!Deliver)
  /\ \A s \in Service : WF_netVars(part = "net" /\ Net!Establish(s))

-----------------------------------------------------------------------------
(* The properties of the pool are those of GuardedProcessPool.  While the   *)
(* service is there, tun2socks runs on nothing but the tun device.          *)
RunsOnTunUnlessOrphaned == Fd!TypeOK /\ Fd!RunsOnTunUnlessOrphaned

(* A service that stays up gets tun2socks to run on the tun device, after   *)
(* any crash at any point of the hand-over; a sender that gives up takes a  *)
(* working tun2socks down only where a restart overlapped with the start.   *)
TunArrives == (part = "fd" => Fd!TunArrives) /\ Fd!GivingUpIsJustified

(* Everyone has the network: once all callbacks are delivered the actor has *)
(* the system's, every listening service has the actor's, no Get is left    *)
(* waiting for one that is known, and what the system takes to be           *)
(* underneath the VPN is what the service was last told, unless it was told *)
(* between the builder and establish().                                     *)
NetworkKnown ==
  /\ Net!TypeOK
  /\ Net!Current /\ Net!InSync /\ Net!NoneWaitsForKnown /\ Net!VpnFollows

(* A Get is answered when the system has a network.                         *)
GetAnswered == Net!GetAnswered
=============================================================================
