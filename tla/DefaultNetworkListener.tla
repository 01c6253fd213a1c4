----------------------- MODULE DefaultNetworkListener -----------------------
(***************************************************************************)
(* How the VPN learns which network is underneath it: the actor of         *)
(* core/.../net/DefaultNetworkListener.kt, the network callback that feeds *)
(* it, and its client, bg/VpnService.kt, from preInit to establish().      *)
(*                                                                         *)
(* The actor is unconfined and its channel is a rendezvous: a message is   *)
(* handled as a whole, on the thread that sends it.  That is the main      *)
(* thread for the callbacks of API 26 to 30, and a thread of the system    *)
(* for the others, where a callback may run between any two statements of  *)
(* startVpn.                                                               *)
(***************************************************************************)
EXTENDS Naturals, Sequences

CONSTANTS Service,  \* instances of VpnService, one at a time in use
          Network,
          None,     \* null
          Sdks,     \* the versions Build.VERSION.SDK_INT may have
          MaxMail   \* bound: callbacks waiting for delivery

VARIABLES
  sdk,                \* Build.VERSION.SDK_INT
  default,            \* the default network of the system
  mail,               \* callbacks posted and not delivered yet
  registered,         \* the system knows the callback
  fallback,           \* it refused it
  listeners,          \* actor: the keys of the map
  network,            \* actor: the last network it was told of
  pendingRequests,    \* actor: the services whose Get has no answer
  phase,              \* service: how far its connecting job is
  underlyingNetwork,  \* service
  active,             \* service: is the setter to pass the network on
  metered,            \* service: of its profile
  builder,            \* service: the network given to the builder
  vpn,                \* service: the network the system thinks is underneath
  raced               \* history: services that were told of a network while
                      \* they were between the builder and establish()

actorVars == <<registered, fallback, listeners, network, pendingRequests>>
serviceVars ==
  <<phase, underlyingNetwork, active, metered, builder, vpn, raced>>
vars == <<sdk, default, mail, actorVars, serviceVars>>

Phase == {"idle", "started", "waiting", "opened", "failed", "building",
          "established"}

MainHandler == sdk \in 26..30
Message(kind, n) == [kind |-> kind, network |-> n]
Messages == [kind : {"Put", "Update", "Lost"}, network : Network]

-----------------------------------------------------------------------------
(* The system, when the default network changes.  It may report the loss of *)
(* the old network before or after the new one, or not at all.              *)
Post(messages) ==
  /\ Len(mail) + Len(messages) <= MaxMail
  /\ mail' = IF registered THEN mail \o messages ELSE mail

NetworkAvailable(n) ==
  /\ default # n
  /\ default' = n
  /\ \/ Post(<<Message("Put", n), Message("Update", n)>>)
     \/ default # None /\ Post(<<Message("Lost", default), Message("Put", n)>>)
     \/ default # None /\ Post(<<Message("Put", n), Message("Lost", default)>>)
  /\ UNCHANGED <<sdk, actorVars, serviceVars>>

NetworkLost ==
  /\ default # None
  /\ Post(<<Message("Lost", default)>>)
  /\ default' = None
  /\ UNCHANGED <<sdk, actorVars, serviceVars>>

CapabilitiesChanged ==
  /\ default # None
  /\ Post(<<Message("Update", default)>>)
  /\ UNCHANGED <<sdk, default, actorVars, serviceVars>>

-----------------------------------------------------------------------------
(* The network a service shows to the system: on Android 9 a metered one    *)
(* always passes null.                                                      *)
Shown(n, isMetered) == IF sdk = 28 /\ isMetered THEN None ELSE n

(* The setter of underlyingNetwork in each service of S.  The system takes  *)
(* no notice before the interface is established.  `active' is not          *)
(* volatile: a callback thread may miss it while the job is in startVpn.    *)
Notify(S, n) ==
  /\ underlyingNetwork' = [s \in Service |->
                             IF s \in S THEN n ELSE underlyingNetwork[s]]
  /\ vpn' = [s \in Service |->
               IF s \in S /\ active[s] /\ phase[s] = "established"
               THEN Shown(n, metered[s]) ELSE vpn[s]]

Raced(S) ==
  raced' = (raced \ S) \cup {s \in S : phase[s] = "building"}

(* The actor, for each message of the callback.                             *)
BugAnswerLater == UNCHANGED <<pendingRequests, phase>>

AnswerPending ==
  /\ pendingRequests' = {}
  /\ phase' = [s \in Service |->
                 IF s \in pendingRequests /\ phase[s] = "waiting"
                 THEN "opened" ELSE phase[s]]

Put(n) ==
  /\ network' = n
  /\ AnswerPending
  /\ Notify(listeners, n)
  /\ Raced(listeners)

BugAnyNetwork(n) == TRUE
Concerned(n) == network = n

Update(n) ==
  /\ \/ Concerned(n) /\ Notify(listeners, n) /\ Raced(listeners)
     \/ ~Concerned(n) /\ UNCHANGED <<underlyingNetwork, vpn, raced>>
  /\ UNCHANGED <<network, pendingRequests, phase>>

Lost(n) ==
  /\ \/ /\ Concerned(n)
        /\ network' = None
        /\ Notify(listeners, None)
        /\ Raced(listeners)
     \/ ~Concerned(n) /\ UNCHANGED <<network, underlyingNetwork, vpn, raced>>
  /\ UNCHANGED <<pendingRequests, phase>>

Deliver ==
  /\ mail # <<>>
  /\ MainHandler => \A s \in Service : phase[s] # "building"
  /\ LET m == Head(mail) IN
       \/ m.kind = "Put" /\ Put(m.network)
       \/ m.kind = "Update" /\ Update(m.network)
       \/ m.kind = "Lost" /\ Lost(m.network)
  /\ mail' = Tail(mail)
  /\ UNCHANGED <<sdk, default, registered, fallback, listeners, active, metered,
                 builder>>

-----------------------------------------------------------------------------
(* register(), when the first listener comes.  Where the code catches the   *)
(* exception the system may refuse.                                         *)
Register ==
  \/ listeners # {} /\ UNCHANGED <<registered, fallback, mail>>
  \/ /\ listeners = {}
     /\ registered' = TRUE
     /\ fallback' = FALSE
     /\ mail' = IF default # None THEN <<Message("Put", default)>> ELSE <<>>
  \/ /\ listeners = {}
     /\ sdk \notin 24..30
     /\ fallback' = TRUE
     /\ UNCHANGED <<registered, mail>>

(* preInit: the message Start.                                              *)
TellNetwork(s) ==
  underlyingNetwork' = IF network # None
                       THEN [underlyingNetwork EXCEPT ![s] = network]
                       ELSE underlyingNetwork

PreInit(s) ==
  /\ \A t \in Service : phase[t] = "idle"
  /\ phase' = [phase EXCEPT ![s] = "started"]
  /\ Register
  /\ listeners' = listeners \cup {s}
  /\ TellNetwork(s)
  /\ UNCHANGED <<sdk, default, network, pendingRequests, active, metered,
                 builder, vpn, raced>>

(* openConnection, for each file the rules import.                          *)
GetNetwork(s) ==
  /\ phase[s] \in {"started", "opened"}
  /\ ~fallback /\ listeners # {}
  /\ \/ /\ network # None
        /\ phase' = [phase EXCEPT ![s] = "opened"]
        /\ UNCHANGED pendingRequests
     \/ /\ network = None
        /\ phase' = [phase EXCEPT ![s] = "waiting"]
        /\ pendingRequests' = pendingRequests \cup {s}
  /\ UNCHANGED <<sdk, default, mail, registered, fallback, listeners, network,
                 underlyingNetwork, active, metered, builder, vpn, raced>>

GetFallback(s) ==
  /\ phase[s] \in {"started", "opened"}
  /\ fallback
  /\ phase' = [phase EXCEPT ![s] =
                 IF default = None THEN "failed" ELSE "opened"]
  /\ UNCHANGED <<sdk, default, mail, actorVars, underlyingNetwork, active,
                 metered, builder, vpn, raced>>

(* startVpn, with a profile that is metered or not, up to the builder, and  *)
(* establish().                                                             *)
StartVpn(s) ==
  /\ phase[s] \in {"started", "opened"}
  /\ phase' = [phase EXCEPT ![s] = "building"]
  /\ active' = [active EXCEPT ![s] = TRUE]
  /\ \E isMetered \in BOOLEAN :
       /\ metered' = [metered EXCEPT ![s] = isMetered]
       /\ builder' = [builder EXCEPT ![s] =
                        Shown(underlyingNetwork[s], isMetered)]
  /\ UNCHANGED <<sdk, default, mail, actorVars, underlyingNetwork, vpn, raced>>

Establish(s) ==
  /\ phase[s] = "building"
  /\ \/ /\ phase' = [phase EXCEPT ![s] = "established"]
        /\ vpn' = [vpn EXCEPT ![s] = builder[s]]
     \/ /\ phase' = [phase EXCEPT ![s] = "failed"]
        /\ UNCHANGED vpn
  /\ UNCHANGED <<sdk, default, mail, actorVars, underlyingNetwork, active,
                 metered, builder, raced>>

(* The key that killProcesses passes to stop() is the coroutine that calls  *)
(* it, which is never the key of a listener.                                *)
Removed(s) == {}

(* The job ends or is cancelled, and killProcesses runs.                    *)
StopService(s) ==
  /\ phase[s] \notin {"idle", "building"}
  /\ phase' = [phase EXCEPT ![s] = "idle"]
  /\ active' = [active EXCEPT ![s] = FALSE]
  /\ vpn' = [vpn EXCEPT ![s] = None]
  /\ raced' = raced \ {s}
  /\ listeners' = listeners \ Removed(s)
  /\ IF listeners # {} /\ listeners' = {}
     THEN network' = None /\ registered' = FALSE
     ELSE UNCHANGED <<network, registered>>
  /\ UNCHANGED <<sdk, default, mail, fallback, pendingRequests,
                 underlyingNetwork, metered, builder>>

-----------------------------------------------------------------------------
Init ==
  /\ sdk \in Sdks
  /\ default \in Network \cup {None}
  /\ mail = <<>>
  /\ registered = FALSE
  /\ fallback = FALSE
  /\ listeners = {}
  /\ network = None
  /\ pendingRequests = {}
  /\ phase = [s \in Service |-> "idle"]
  /\ underlyingNetwork = [s \in Service |-> None]
  /\ active = [s \in Service |-> FALSE]
  /\ metered = [s \in Service |-> FALSE]
  /\ builder = [s \in Service |-> None]
  /\ vpn = [s \in Service |-> None]
  /\ raced = {}

System == \/ NetworkLost
          \/ CapabilitiesChanged
          \/ \E n \in Network : NetworkAvailable(n)

ServiceStep(s) == \/ PreInit(s)
                  \/ GetNetwork(s)
                  \/ GetFallback(s)
                  \/ StartVpn(s)
                  \/ Establish(s)
                  \/ StopService(s)

Next == System \/ Deliver \/ \E s \in Service : ServiceStep(s)

Spec == Init /\ [][Next]_vars

(* Callbacks that were posted are delivered, and establish() returns.       *)
FairSpec == /\ Spec
            /\ WF_vars(Deliver)
            /\ \A s \in Service : WF_vars(Establish(s))

-----------------------------------------------------------------------------
TypeOK ==
  /\ sdk \in Sdks
  /\ default \in Network \cup {None}
  /\ mail \in Seq(Messages)
  /\ registered \in BOOLEAN /\ fallback \in BOOLEAN
  /\ listeners \subseteq Service
  /\ network \in Network \cup {None}
  /\ pendingRequests \subseteq Service
  /\ phase \in [Service -> Phase]
  /\ underlyingNetwork \in [Service -> Network \cup {None}]
  /\ active \in [Service -> BOOLEAN]
  /\ metered \in [Service -> BOOLEAN]
  /\ builder \in [Service -> Network \cup {None}]
  /\ vpn \in [Service -> Network \cup {None}]
  /\ raced \subseteq Service

(* Every listening service has the network of the actor, across losses,     *)
(* late messages and restarts of the service: the local DNS forwarder,      *)
(* which reads underlyingNetwork, never uses a network that was reported    *)
(* lost.                                                                    *)
InSync == \A s \in listeners : underlyingNetwork[s] = network

(* Once all callbacks are delivered the actor has the system's network: a   *)
(* loss that is reported after its replacement does not erase it.           *)
Current == registered /\ mail = <<>> => network = default

(* No Get is left waiting when there is a network to answer it with.        *)
NoneWaitsForKnown == pendingRequests # {} => network = None

(* Once it is established, what the system takes to be underneath the VPN   *)
(* is what the service was last told, unless it was told between the        *)
(* builder and establish().                                                 *)
VpnFollows ==
  \A s \in Service \ raced :
    phase[s] = "established" => vpn[s] = Shown(underlyingNetwork[s], metered[s])

(* A Get is answered when the system has a network.                         *)
GetAnswered ==
  \A s \in Service :
    (phase[s] = "waiting" /\ default # None)
      ~> (phase[s] # "waiting" \/ default = None)
=============================================================================
