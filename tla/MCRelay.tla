------------------------------ MODULE MCRelay ------------------------------
(* The native relay: a TCP connection of tun2socks (five bytes from the app *)
(* and four from the server, through a window and a send buffer of three    *)
(* bytes and a read buffer of two: each of them fills), the SOCKS handshake *)
(* it starts with (servers that grant the request, with either kind of      *)
(* address and method, and servers that end it at each of its points), and  *)
(* the UDP relay (three local addresses, room for two).                     *)
(*                                                                          *)
(* The three share no state, so they need not be interleaved: part says     *)
(* which of them moves in this behaviour; the others stay as they are.      *)
EXTENDS Tun2socks

CONSTANTS OwnerRead, Local, Remote, MaxConnections, BufferSize, MaxPackets

ASSUME RelayAssumption == OwnerRead \in Nat \ {0} /\ BufferSize \in Nat \ {0}

VARIABLES
  part,
  socksState, server, auth_info, held, misuse, fd, buffer, op, waits, is_hupd,
  dest, total, done, taken, got, sent, events, upRead,
  read, packet, reading, jobs, con, list, num_connections, failed, delivered,
  dropped, retyped, remixed

Address(n) == [i \in 1 .. n |-> 7]
Reply4 == <<5, 0, 0, 1>> \o Address(6)
Reply6 == <<5, 0, 0, 4>> \o Address(18)
Payload == <<21, 22, 23>>

Granting(h) == [handshake |-> h, payload |-> Payload, grants |-> TRUE]
Refusing(h) == [handshake |-> h, payload |-> <<>>, grants |-> FALSE]

MCServers ==
  {Granting(<<5, 0>> \o Reply4), Granting(<<5, 0>> \o Reply6),
   Granting(<<5, 2, 1, 0>> \o Reply4)}
  \cup {Refusing(h) : h \in
    {<<5>>, <<4, 0>>, <<5, 255>>, <<5, 2, 1, 1>>, <<5, 2, 2, 0>>,
     <<5, 0, 5, 5, 0, 1>> \o Address(6), <<5, 2, 1, 0, 4, 0, 0, 1>>,
     <<5, 0, 5, 0, 0, 3>> \o Address(6), <<5, 0, 5, 0, 0, 4>> \o Address(6)}}

MCAuthInfos == [methods : {<<0>>, <<0, 2>>}, fits : BOOLEAN]

Socks == INSTANCE BSocksClient
           WITH state <- socksState, Servers <- MCServers,
                AuthInfos <- MCAuthInfos
Udp == INSTANCE SocksUdpGwClient WITH buf <- packet

handshakeVars == <<socksState, server, auth_info, held, misuse, fd, buffer, op,
               waits, is_hupd, dest, total, done, taken, got, sent, events,
               upRead>>
udpVars == <<read, packet, reading, jobs, con, list, num_connections,
             failed, delivered, dropped, retyped, remixed>>
all == <<part, vars, handshakeVars, udpVars>>

MCInit ==
  /\ part \in {"tcp", "socks", "udp"}
  /\ Init /\ Udp!Init
  /\ Socks!Init
  /\ part # "socks" => /\ server = Granting(<<5, 0>> \o Reply4)
                       /\ auth_info = [methods |-> <<0>>, fits |-> TRUE]

MCNext ==
  /\ UNCHANGED part
  /\ \/ part = "tcp" /\ Next /\ UNCHANGED <<handshakeVars, udpVars>>
     \/ part = "socks" /\ Socks!Next /\ UNCHANGED <<vars, udpVars>>
     \/ part = "udp" /\ Udp!Next /\ UNCHANGED <<vars, handshakeVars>>

(* The fairness of each component, for the one that moves.                  *)
MCSpec ==
  /\ MCInit /\ [][MCNext]_all
  /\ WF_vars(part = "tcp" /\ CallBacks)
  /\ WF_vars(part = "tcp" /\ JobsRun)
  /\ WF_handshakeVars(part = "socks" /\ Socks!Connects)
  /\ SF_handshakeVars(part = "socks" /\ op # "none" /\ Socks!Progress)

-----------------------------------------------------------------------------
(* MemorySafe, NoWakeUpLost, Pipes and ClientEnds are those of Tun2socks.   *)

(* The handshake follows the protocol, however the stream is cut into       *)
(* portions: the request is sent after the authentication, UP is reported   *)
(* once and only if the server granted the request, and what the server     *)
(* sends right behind its reply is the first thing the owner reads.  The    *)
(* operation in progress stays in the buffer and does not wait for an fd    *)
(* that has hung up, and the parts of the client are freed once each.       *)
HandshakeCorrect ==
  /\ Socks!RequestAfterAuth /\ Socks!UpOnlyIfGranted /\ Socks!ReportsInOrder
  /\ Socks!PayloadIntact
  /\ Socks!TypeOK /\ Socks!OperationInBuffer /\ Socks!NoWaitAfterHup
  /\ Socks!PartsFreedOnce

(* The handshake ends.                                                      *)
HandshakeEnds == part = "socks" => Socks!HandshakeEnds

(* A UDP packet is sent from the socket of its local address, of which the  *)
(* least recently used gives way to a new one; the packet that opens a      *)
(* connection is sent too, and sent as it was; each goes to the gateway of  *)
(* its kind; and no job runs for a connection that was freed.               *)
PacketsSent ==
  /\ [](Udp!TableInOrder /\ Udp!FirstPacketSent /\ Udp!RightGateway)
  /\ [](Udp!JobsHaveOwner) /\ Udp!EvictsOldest

(* An app gets an answer from the address that it asked, unless it sent     *)
(* both kinds of packets or asked two DNS servers from one address.         *)
AnswerFromAsked == Udp!AnswerFromAsked
=============================================================================
