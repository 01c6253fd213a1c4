---------------------------- MODULE RelayProofs ----------------------------
(***************************************************************************)
(* The SOCKS handshake and the UDP relay that tun2socks uses: the          *)
(* handshake for the servers of MCRelay, whatever the portions the owner   *)
(* reads in, and the UDP relay for every set of addresses and every size   *)
(* of its table and buffers.                                               *)
(*                                                                         *)
(* HandInv is the invariant of the handshake.  What the client was told is *)
(* not in its state: it keeps a count of the bytes it has of a message,    *)
(* and the rest is known from the place in the server's stream (Synced).   *)
(* UdpInv is the invariant of the UDP relay.  It relates the jobs that are *)
(* left to the packet in the device's buffer (JobsAre), and every message  *)
(* to the packet it was made of (Sane).                                    *)
(***************************************************************************)
EXTENDS MCRelay, TLAPS

-----------------------------------------------------------------------------
(* What the client sees of the servers: their bytes in order, and that a    *)
(* reply that grants the request, with room for its address, ends the       *)
(* handshake of a server that grants.                                       *)
Joins(h, s, t) ==
  /\ h \in Seq(Nat) /\ Len(h) = Len(s) + Len(t)
  /\ \A i \in 1..Len(s) : h[i] = s[i]
  /\ \A i \in Len(s) + 1..Len(s) + Len(t) : h[i] = t[i - Len(s)]

(* The bytes of two sequences, one after the other.                         *)
LEMMA JoinedBytes ==
  ASSUME NEW s \in Seq(Nat), NEW t \in Seq(Nat)
  PROVE  Joins(s \o t, s, t)
  BY DEF Joins

(* An address is as long as it says.                                        *)
LEMMA AddressBytes ==
  \A n \in Nat : Address(n) \in Seq(Nat) /\ Len(Address(n)) = n
  BY DEF Address

(* The replies that grant the request, with either kind of address.         *)
LEMMA ReplyBytes ==
  /\ Reply4 \in Seq(Nat) /\ Len(Reply4) = 10
  /\ Reply4[1] = 5 /\ Reply4[2] = 0 /\ Reply4[4] = 1
  /\ Reply6 \in Seq(Nat) /\ Len(Reply6) = 22
  /\ Reply6[1] = 5 /\ Reply6[2] = 0 /\ Reply6[4] = 4
<1> DEFINE a == <<5, 0, 0, 1>>
           b == <<5, 0, 0, 4>>
<1>1. /\ a \in Seq(Nat) /\ Len(a) = 4 /\ a[1] = 5 /\ a[2] = 0 /\ a[4] = 1
      /\ b \in Seq(Nat) /\ Len(b) = 4 /\ b[1] = 5 /\ b[2] = 0 /\ b[4] = 4
  OBVIOUS
<1>2. /\ Address(6) \in Seq(Nat) /\ 4 + Len(Address(6)) = 10
      /\ Address(18) \in Seq(Nat) /\ 4 + Len(Address(18)) = 22
  <2>1. 6 \in Nat /\ 18 \in Nat /\ 4 + 6 = 10 /\ 4 + 18 = 22
    OBVIOUS
  <2> QED BY <2>1, AddressBytes, Zenon
<1>3. Reply4 = a \o Address(6) /\ Reply6 = b \o Address(18)
  BY Zenon DEF Reply4, Reply6
<1> HIDE DEF a, b
<1>4. Joins(Reply4, a, Address(6)) /\ Joins(Reply6, b, Address(18))
  BY <1>1, <1>2, <1>3, JoinedBytes, Zenon
<1>5. \A k \in {1, 2, 4} : k \in 1..Len(a) /\ k \in 1..Len(b)
  BY <1>1
<1>6. /\ Reply4 \in Seq(Nat) /\ Len(Reply4) = Len(a) + Len(Address(6))
      /\ Reply4[1] = a[1] /\ Reply4[2] = a[2] /\ Reply4[4] = a[4]
  BY <1>4, <1>5, Zenon DEF Joins
<1>7. /\ Reply6 \in Seq(Nat) /\ Len(Reply6) = Len(b) + Len(Address(18))
      /\ Reply6[1] = b[1] /\ Reply6[2] = b[2] /\ Reply6[4] = b[4]
  BY <1>4, <1>5, Zenon DEF Joins
<1> QED BY <1>1, <1>2, <1>6, <1>7, Zenon

(* A stream made of h and p.                                                *)
Room(s, k) == k + 4 + Socks!AddrLen(s[k + 4]) <= Len(s)
IsGrant(s, k) ==
  /\ k + 4 <= Len(s)
  /\ s[k + 1] = 5 /\ s[k + 2] = 0 /\ s[k + 4] \in {1, 4}
Start(s) == IF s[2] = 2 THEN 4 ELSE 2

Faithful(sv) ==
  LET h == sv.handshake
      s == h \o sv.payload
  IN /\ h \in Seq(Nat) /\ sv.payload \in Seq(Nat)
     /\ 2 <= Len(s) => s[2] = h[2]
     /\ 4 <= Len(s) /\ s[2] = 2 => s[4] = h[4]
     /\ Start(s) <= Len(s) /\ IsGrant(s, Start(s)) /\ Room(s, Start(s)) =>
          sv.grants /\ Len(h) = Start(s) + 4 + Socks!AddrLen(s[Start(s) + 4])

(* The servers that grant are what they say.                                *)
LEMMA GrantingFaithful ==
  \A sv \in {Granting(<<5, 0>> \o Reply4), Granting(<<5, 0>> \o Reply6),
             Granting(<<5, 2, 1, 0>> \o Reply4)} : Faithful(sv)
<1> DEFINE a == <<5, 0>>
           b == <<5, 2, 1, 0>>
<1>1. /\ a \in Seq(Nat) /\ Len(a) = 2 /\ a[1] = 5 /\ a[2] = 0
      /\ b \in Seq(Nat) /\ Len(b) = 4 /\ b[1] = 5 /\ b[2] = 2 /\ b[4] = 0
  OBVIOUS
<1>2. Payload \in Seq(Nat) /\ Len(Payload) = 3
  BY DEF Payload
<1> HIDE DEF a, b
<1>3. \A h \in Seq(Nat) : /\ Granting(h).handshake = h /\ Granting(h).payload = Payload
                          /\ Granting(h).grants
  BY Zenon DEF Granting
<1>4. Faithful(Granting(a \o Reply4))
  <2> DEFINE h == a \o Reply4
             s == h \o Payload
  <2>a. Joins(h, a, Reply4)
    BY <1>1, ReplyBytes, JoinedBytes, Zenon
  <2> HIDE DEF h
  <2>1. /\ h \in Seq(Nat) /\ Len(h) = 12 /\ h[2] = 0 /\ h[3] = 5 /\ h[4] = 0 /\ h[6] = 1
    BY <1>1, <2>a, ReplyBytes DEF Joins
  <2>b. Joins(s, h, Payload)
    BY <1>2, <2>1, JoinedBytes, Zenon
  <2> HIDE DEF s
  <2>2. Len(s) = 15 /\ s[2] = 0 /\ s[6] = 1
    BY <2>1, <1>2, <2>b DEF Joins
  <2>3. Start(s) = 2
    BY Zenon, <2>2 DEF Start
  <2>4. Len(h) = Start(s) + 4 + Socks!AddrLen(s[Start(s) + 4])
    BY <2>1, <2>2, <2>3 DEF Socks!AddrLen
  <2>5. h[2] = s[2] /\ (s[2] = 2 => s[4] = h[4])
    BY Zenon, <2>1, <2>2
  <2>6. Granting(h).handshake = h /\ Granting(h).payload = Payload /\ Granting(h).grants
    BY <1>3, <2>1, Zenon
  <2>7. Faithful(Granting(h))
    BY <1>2, <2>1, <2>4, <2>5, <2>6, Zenon DEF Faithful, s
  <2> QED BY Zenon, <2>7 DEF h
<1>5. Faithful(Granting(a \o Reply6))
  <2> DEFINE h == a \o Reply6
             s == h \o Payload
  <2>a. Joins(h, a, Reply6)
    BY <1>1, ReplyBytes, JoinedBytes, Zenon
  <2> HIDE DEF h
  <2>1. /\ h \in Seq(Nat) /\ Len(h) = 24 /\ h[2] = 0 /\ h[3] = 5 /\ h[4] = 0 /\ h[6] = 4
    BY <1>1, <2>a, ReplyBytes DEF Joins
  <2>b. Joins(s, h, Payload)
    BY <1>2, <2>1, JoinedBytes, Zenon
  <2> HIDE DEF s
  <2>2. Len(s) = 27 /\ s[2] = 0 /\ s[6] = 4
    BY <2>1, <1>2, <2>b DEF Joins
  <2>3. Start(s) = 2
    BY Zenon, <2>2 DEF Start
  <2>4. Len(h) = Start(s) + 4 + Socks!AddrLen(s[Start(s) + 4])
    BY <2>1, <2>2, <2>3 DEF Socks!AddrLen
  <2>5. h[2] = s[2] /\ (s[2] = 2 => s[4] = h[4])
    BY Zenon, <2>1, <2>2
  <2>6. Granting(h).handshake = h /\ Granting(h).payload = Payload /\ Granting(h).grants
    BY <1>3, <2>1, Zenon
  <2>7. Faithful(Granting(h))
    BY <1>2, <2>1, <2>4, <2>5, <2>6, Zenon DEF Faithful, s
  <2> QED BY Zenon, <2>7 DEF h
<1>6. Faithful(Granting(b \o Reply4))
  <2> DEFINE h == b \o Reply4
             s == h \o Payload
  <2>a. Joins(h, b, Reply4)
    BY <1>1, ReplyBytes, JoinedBytes, Zenon
  <2> HIDE DEF h
  <2>1. h \in Seq(Nat) /\ Len(h) = 14 /\ h[2] = 2 /\ h[4] = 0 /\ h[8] = 1
    BY <1>1, <2>a, ReplyBytes DEF Joins
  <2>b. Joins(s, h, Payload)
    BY <1>2, <2>1, JoinedBytes, Zenon
  <2> HIDE DEF s
  <2>2. Len(s) = 17 /\ s[2] = 2 /\ s[4] = 0 /\ s[8] = 1
    BY <2>1, <1>2, <2>b DEF Joins
  <2>3. Start(s) = 4
    BY Zenon, <2>2 DEF Start
  <2>4. Len(h) = Start(s) + 4 + Socks!AddrLen(s[Start(s) + 4])
    BY <2>1, <2>2, <2>3 DEF Socks!AddrLen
  <2>5. h[2] = s[2] /\ (s[2] = 2 => s[4] = h[4])
    BY Zenon, <2>1, <2>2
  <2>6. Granting(h).handshake = h /\ Granting(h).payload = Payload /\ Granting(h).grants
    BY <1>3, <2>1, Zenon
  <2>7. Faithful(Granting(h))
    BY <1>2, <2>1, <2>4, <2>5, <2>6, Zenon DEF Faithful, s
  <2> QED BY Zenon, <2>7 DEF h
<1> QED BY <1>4, <1>5, <1>6, Zenon DEF a, b

(* A server that sends no grant is faithful.                                *)
LEMMA NoGrant ==
  ASSUME NEW h \in Seq(Nat),
         ~(Start(h) <= Len(h) /\ IsGrant(h, Start(h)) /\ Room(h, Start(h)))
  PROVE  Faithful(Refusing(h))
<1>1. Refusing(h).handshake = h /\ Refusing(h).payload = <<>>
  BY Zenon DEF Refusing
<1>2. <<>> \in Seq(Nat) /\ h \o <<>> = h
  OBVIOUS
<1> QED BY Zenon, <1>1, <1>2 DEF Faithful

Refusals ==
  {<< 5 >>, <<4, 0>>, <<5, 255>>, <<5, 2, 1, 1>>, <<5, 2, 2, 0>>,
   <<5, 0, 5, 5, 0, 1>> \o Address(6), <<5, 2, 1, 0, 4, 0, 0, 1>>,
   <<5, 0, 5, 0, 0, 3>> \o Address(6), <<5, 0, 5, 0, 0, 4>> \o Address(6)}

(* So are the servers that refuse.                                          *)
LEMMA RefusingFaithful == \A h \in Refusals : Faithful(Refusing(h))
<1>1. /\ << 5 >> \in Seq(Nat) /\ Len(<< 5 >>) <= 4
      /\ <<4, 0>> \in Seq(Nat) /\ Len(<<4, 0>>) <= 4
      /\ <<5, 255>> \in Seq(Nat) /\ Len(<<5, 255>>) <= 4
  OBVIOUS
<1>2. /\ <<5, 2, 1, 1>> \in Seq(Nat) /\ Len(<<5, 2, 1, 1>>) <= 4
      /\ <<5, 2, 2, 0>> \in Seq(Nat) /\ Len(<<5, 2, 2, 0>>) <= 4
  OBVIOUS
<1>4. LET h == <<5, 2, 1, 0, 4, 0, 0, 1>>
      IN h \in Seq(Nat) /\ Len(h) = 8 /\ h[2] = 2 /\ h[5] = 4
  OBVIOUS
<1>5. \A h \in Seq(Nat) : Len(h) <= 4 \/ (h[2] = 2 /\ h[5] = 4) => ~IsGrant(h, Start(h))
  BY DEF IsGrant, Start
<1>6. \A h \in {<< 5 >>, <<4, 0>>, <<5, 255>>, <<5, 2, 1, 1>>, <<5, 2, 2, 0>>} : 
        h \in Seq(Nat) /\ ~IsGrant(h, Start(h))
  BY <1>1, <1>2, <1>5, Zenon
<1>7. LET h == <<5, 2, 1, 0, 4, 0, 0, 1>> IN h \in Seq(Nat) /\ ~IsGrant(h, Start(h))
  BY <1>4, <1>5, Zenon
<1>3. \A b \in {<<5, 0, 5, 5, 0, 1>>, <<5, 0, 5, 0, 0, 3>>, <<5, 0, 5, 0, 0, 4>>} :
        LET h == b \o Address(6)
        IN h \in Seq(Nat) /\ ~(IsGrant(h, Start(h)) /\ Room(h, Start(h)))
  <2> SUFFICES ASSUME NEW b \in {<<5, 0, 5, 5, 0, 1>>, <<5, 0, 5, 0, 0, 3>>, <<5, 0, 5, 0, 0, 4>>}
               PROVE  LET h == b \o Address(6)
                      IN h \in Seq(Nat) /\ ~(IsGrant(h, Start(h)) /\ Room(h, Start(h)))
    BY Zenon
  <2> DEFINE h == b \o Address(6)
  <2>1. /\ b \in Seq(Nat) /\ Len(b) = 6 /\ b[2] = 0
        /\ b[4] = 5 \/ b[6] = 3 \/ b[6] = 4
    <3>1. CASE b = <<5, 0, 5, 5, 0, 1>>
      BY <3>1
    <3>2. CASE b = <<5, 0, 5, 0, 0, 3>>
      BY <3>2
    <3>3. CASE b = <<5, 0, 5, 0, 0, 4>>
      BY <3>3
    <3> QED BY <3>1, <3>2, <3>3, Zenon
  <2>2. Address(6) \in Seq(Nat) /\ Len(Address(6)) = 6
    BY Zenon, AddressBytes
  <2>a. Joins(h, b, Address(6))
    BY <2>1, <2>2, JoinedBytes, Zenon
  <2> HIDE DEF h
  <2>3. h \in Seq(Nat) /\ Len(h) = 12 /\ h[2] = 0 /\ (h[4] = 5 \/ h[6] = 3 \/ h[6] = 4)
    <3>1. 2 \in 1..Len(b) /\ 4 \in 1..Len(b) /\ 6 \in 1..Len(b)
      BY <2>1
    <3>2. Len(b) + Len(Address(6)) = 12
      <4>1. 6 + 6 = 12
        OBVIOUS
      <4> QED BY <2>1, <2>2, <4>1, Zenon
    <3> QED BY <2>1, <2>a, <3>1, <3>2, Zenon DEF Joins
  <2>4. Start(h) = 2
    BY Zenon, <2>3 DEF Start
  <2>5. ~(IsGrant(h, Start(h)) /\ Room(h, Start(h)))
    BY <2>3, <2>4 DEF IsGrant, Room, Socks!AddrLen
  <2> QED BY Zenon, <2>3, <2>5 DEF h
<1>8. \A h \in {<< 5 >>, <<4, 0>>, <<5, 255>>, <<5, 2, 1, 1>>, <<5, 2, 2, 0>>} :
        Faithful(Refusing(h))
  <2> SUFFICES ASSUME NEW h \in {<< 5 >>, <<4, 0>>, <<5, 255>>, <<5, 2, 1, 1>>, <<5, 2, 2, 0>>}
               PROVE  Faithful(Refusing(h))
    BY Zenon
  <2>1. h \in Seq(Nat) /\ ~IsGrant(h, Start(h))
    BY <1>6, Zenon
  <2> QED BY <2>1, NoGrant, Zenon
<1>9. \A b \in {<<5, 0, 5, 5, 0, 1>>, <<5, 0, 5, 0, 0, 3>>, <<5, 0, 5, 0, 0, 4>>} :
        Faithful(Refusing(b \o Address(6)))
  BY <1>3, NoGrant, Zenon
<1>10. Faithful(Refusing(<<5, 2, 1, 0, 4, 0, 0, 1>>))
  BY <1>7, NoGrant, Zenon
<1> QED BY <1>8, <1>9, <1>10, Zenon DEF Refusals

(* So is every server.                                                      *)
LEMMA ServersFaithful == \A sv \in MCServers : Faithful(sv)
<1>1. MCServers = {Granting(<<5, 0>> \o Reply4), Granting(<<5, 0>> \o Reply6),
                   Granting(<<5, 2, 1, 0>> \o Reply4)} \cup {Refusing(h) : h \in Refusals}
  BY Zenon DEF MCServers, Refusals
<1> QED BY <1>1, GrantingFaithful, RefusingFaithful, Zenon
-----------------------------------------------------------------------------
(* The handshake.  The server's bytes are a hello, a password reply if the  *)
(* hello asks for one, and a reply; Auth is where the reply begins.         *)
Stream == Socks!Stream
Auth == Start(Stream)

(* The server chose an offered method and, if it has one, took the          *)
(* password.                                                                *)
Authed ==
  /\ Auth <= Len(Stream) /\ Socks!Offered(Stream[2])
  /\ Stream[2] = 0 \/ (Stream[2] = 2 /\ Stream[4] = 0)

(* It granted the request, with an address of a kind that the client knows. *)
Granted == IsGrant(Stream, Auth)

SendStates == {"SENDING_HELLO", "SENDING_PASSWORD", "SENDING_REQUEST"}
RecvStates == {"SENT_HELLO", "SENT_PASSWORD", "SENT_REQUEST", "RECEIVED_REPLY_HEADER"}
EndStates  == {"CONNECTING", "UP", "freed"}

HandTyped ==
  /\ socksState \in EndStates \cup SendStates \cup RecvStates
  /\ server \in MCServers /\ auth_info \in MCAuthInfos
  /\ buffer \in 0..258 /\ dest \in Nat /\ total \in Nat /\ done \in Nat
  /\ taken \in Nat /\ taken <= Len(Stream)
  /\ waits \in BOOLEAN /\ is_hupd \in BOOLEAN
  /\ is_hupd => ~waits

(* Which parts there are in which state.                                    *)
Parts ==
  /\ misuse = FALSE
  /\ socksState = "CONNECTING" => held = {"connector"} /\ fd = "connector"
  /\ socksState \in SendStates \cup RecvStates =>
       held = {"connector", "con", "control"} /\ fd = "con"
  /\ socksState = "UP" => held = {"connector", "con", "up"} /\ fd = "con"
  /\ socksState = "freed" => held = {} /\ fd = "closed"

(* The operation in progress, and the part of the buffer it is for.         *)
Placed ==
  /\ socksState \in {"CONNECTING", "freed"} => op = "none" /\ total = 0 /\ done = 0
  /\ socksState \in SendStates => op = "send" /\ dest = 0 /\ total = buffer /\ done < total
  /\ socksState \in RecvStates => op = "recv" /\ done < total
  /\ socksState \in {"SENT_HELLO", "SENT_PASSWORD"} => dest = 0 /\ total = 2 /\ buffer = 2
  /\ socksState = "SENT_REQUEST" => dest = 0 /\ total = 4 /\ buffer = 22
  /\ socksState = "RECEIVED_REPLY_HEADER" =>
       dest = 4 /\ total = Socks!AddrLen(Stream[Auth + 4]) /\ buffer = 22
  /\ socksState = "UP" => op \in {"none", "recv"} /\ done = 0 /\ got = <<>>

(* UP was reported for a server that grants, and then the end.              *)
Ended(reports) ==
  \/ reports \in {<<>>, <<"ERROR">>}
  \/ /\ Authed /\ server.grants
     /\ reports \in {<<"UP">>, <<"UP", "ERROR">>, <<"UP", "ERROR_CLOSED">>}

Reported ==
  /\ socksState \notin {"UP", "freed"} => events = <<>>
  /\ socksState = "UP" => events = <<"UP">>
  /\ socksState = "freed" => Ended(events)

(* What was sent: the request is the last message, after the messages that  *)
(* the server asked for.                                                    *)
Greeting == IF Stream[2] = 2 THEN <<"hello", "password">> ELSE <<"hello">>
WithRequest == IF Stream[2] = 2 THEN <<"hello", "password", "request">>
               ELSE <<"hello", "request">>

Told ==
  /\ socksState \in {"CONNECTING", "SENDING_HELLO"} => sent = <<>>
  /\ socksState \in {"SENT_HELLO", "SENDING_PASSWORD"} => sent = <<"hello">>
  /\ socksState = "SENT_PASSWORD" => sent = <<"hello", "password">>
  /\ socksState = "SENDING_REQUEST" => sent = Greeting
  /\ socksState \in {"SENT_REQUEST", "RECEIVED_REPLY_HEADER", "UP"} => sent = WithRequest
  /\ socksState = "freed" => \/ sent \in {<<>>, <<"hello">>, <<"hello", "password">>}
                             \/ Authed /\ sent = WithRequest

(* Where the client is in the stream: it has the bytes after the first b.   *)
Took(b) ==
  /\ taken = b + done /\ got \in Seq(Nat) /\ Len(got) = done
  /\ \A i \in 1..done : got[i] = Stream[b + i]

Chosen == 2 <= Len(Stream) /\ Stream[2] = 2 /\ Socks!Offered(2)

Synced ==
  /\ socksState \notin {"UP", "freed"} => upRead = <<>>
  /\ socksState \in {"CONNECTING", "SENDING_HELLO"} => taken = 0
  /\ socksState = "SENT_HELLO" => Took(0)
  /\ socksState = "SENDING_PASSWORD" => taken = 2 /\ Chosen
  /\ socksState = "SENT_PASSWORD" => Took(2) /\ Chosen
  /\ socksState = "SENDING_REQUEST" => taken = Auth /\ Authed
  /\ socksState = "SENT_REQUEST" => Took(Auth) /\ Authed
  /\ socksState = "RECEIVED_REPLY_HEADER" => Took(Auth + 4) /\ Authed /\ Granted
  /\ socksState = "UP" =>
       /\ Authed /\ server.grants
       /\ upRead \in Seq(Nat) /\ taken = Len(server.handshake) + Len(upRead)
       /\ \A i \in 1..Len(upRead) : upRead[i] = server.payload[i]

HandInv == HandTyped /\ Parts /\ Placed /\ Reported /\ Told /\ Synced
-----------------------------------------------------------------------------
(* The second of two joined sequences.                                      *)
LEMMA JoinsTail ==
  ASSUME NEW h, NEW s \in Seq(Nat), NEW t \in Seq(Nat), Joins(h, s, t)
  PROVE  /\ h \in Seq(Nat) /\ Len(h) \in Nat /\ Len(h) = Len(s) + Len(t)
         /\ \A i \in Len(s) + 1..Len(h) : h[i] = t[i - Len(s)]
<1>1. /\ h \in Seq(Nat) /\ Len(h) = Len(s) + Len(t)
      /\ \A i \in Len(s) + 1..Len(s) + Len(t) : h[i] = t[i - Len(s)]
  BY Zenon DEF Joins
<1>2. \A z \in Seq(Nat) : Len(z) \in Nat
  OBVIOUS
<1> QED BY <1>1, <1>2, Zenon

(* The stream of a server is its handshake and then its payload.            *)
LEMMA StreamFacts ==
  ASSUME server \in MCServers
  PROVE  /\ Stream \in Seq(Nat) /\ Len(Stream) \in Nat
         /\ server.handshake \in Seq(Nat) /\ server.payload \in Seq(Nat)
         /\ Len(Stream) = Len(server.handshake) + Len(server.payload)
         /\ \A i \in Len(server.handshake) + 1..Len(Stream) :
              Stream[i] = server.payload[i - Len(server.handshake)]
         /\ Auth \in {2, 4} /\ (Stream[2] = 2 => Auth = 4) /\ (Stream[2] # 2 => Auth = 2)
         /\ 2 <= Len(Stream) => Stream[2] = server.handshake[2]
         /\ 4 <= Len(Stream) /\ Stream[2] = 2 => Stream[4] = server.handshake[4]
         /\ Auth <= Len(Stream) /\ Granted /\ Room(Stream, Auth) =>
              /\ server.grants
              /\ Len(server.handshake) = Auth + 4 + Socks!AddrLen(Stream[Auth + 4])
<1>1. Faithful(server)
  BY Zenon, ServersFaithful
<1>2. Stream = server.handshake \o server.payload
  BY Zenon DEF Stream, Socks!Stream
<1>3. server.handshake \in Seq(Nat) /\ server.payload \in Seq(Nat)
  BY Zenon, <1>1 DEF Faithful
<1>4. Joins(Stream, server.handshake, server.payload)
  BY <1>2, <1>3, JoinedBytes, Zenon
<1>5. Auth \in {2, 4} /\ (Stream[2] = 2 => Auth = 4) /\ (Stream[2] # 2 => Auth = 2)
  BY Zenon DEF Auth, Start
<1>6. /\ 2 <= Len(Stream) => Stream[2] = server.handshake[2]
      /\ 4 <= Len(Stream) /\ Stream[2] = 2 => Stream[4] = server.handshake[4]
      /\ Auth <= Len(Stream) /\ Granted /\ Room(Stream, Auth) =>
              /\ server.grants
              /\ Len(server.handshake) = Auth + 4 + Socks!AddrLen(Stream[Auth + 4])
  BY <1>1, <1>2, Zenon DEF Faithful, Auth, Granted
<1>7. /\ Stream \in Seq(Nat) /\ Len(Stream) \in Nat
      /\ Len(Stream) = Len(server.handshake) + Len(server.payload)
      /\ \A i \in Len(server.handshake) + 1..Len(Stream) :
              Stream[i] = server.payload[i - Len(server.handshake)]
  <2>1. PICK s \in Seq(Nat) : s = server.handshake
    BY <1>3, Zenon
  <2>2. PICK t \in Seq(Nat) : t = server.payload
    BY <1>3, Zenon
  <2>3. Joins(Stream, s, t)
    BY <1>4, <2>1, <2>2, Zenon
  <2>4. /\ Stream \in Seq(Nat) /\ Len(Stream) \in Nat /\ Len(Stream) = Len(s) + Len(t)
        /\ \A i \in Len(s) + 1..Len(Stream) : Stream[i] = t[i - Len(s)]
    BY <2>3, JoinsTail, Zenon
  <2> QED BY <2>1, <2>2, <2>4, Zenon
<1> QED BY <1>3, <1>5, <1>6, <1>7, Zenon

(* Which server it is, and what it sends, does not change.                  *)
Same == server' = server /\ auth_info' = auth_info

(* What is known of the server stays true while the server is the same.     *)
LEMMA SameStream ==
  ASSUME Same
  PROVE  /\ Stream' = Stream /\ Auth' = Auth /\ Authed' = Authed /\ Granted' = Granted
         /\ Chosen' = Chosen /\ Greeting' = Greeting /\ WithRequest' = WithRequest
  BY Zenon DEF Same, Stream, Auth, Authed, Granted, Chosen, Greeting, WithRequest, Socks!Stream,
         Socks!Offered, Start, IsGrant

-----------------------------------------------------------------------------
(* Sequences of a few messages.                                             *)
LEMMA AppendToOne ==
  ASSUME NEW S, NEW a \in S, NEW b \in S
  PROVE  Append(<<a>>, b) = <<a, b>>
<1> DEFINE x == Append(<<a>>, b)
           y == <<a, b>>
<1>1. x \in Seq(S) /\ Len(x) = 2 /\ x[1] = a /\ x[2] = b
  OBVIOUS
<1>2. y \in Seq(S) /\ Len(y) = 2 /\ y[1] = a /\ y[2] = b
  OBVIOUS
<1> HIDE DEF x, y
<1>3. x = y
  BY <1>1, <1>2
<1> QED BY <1>3, Zenon DEF x, y

(* The third element of a sequence.                                         *)
LEMMA AppendToTwo ==
  ASSUME NEW S, NEW a \in S, NEW b \in S, NEW c \in S
  PROVE  Append(<<a, b>>, c) = <<a, b, c>>
<1> DEFINE x == Append(<<a, b>>, c)
           y == <<a, b, c>>
<1>1. x \in Seq(S) /\ Len(x) = 3 /\ x[1] = a /\ x[2] = b /\ x[3] = c
  OBVIOUS
<1>2. y \in Seq(S) /\ Len(y) = 3 /\ y[1] = a /\ y[2] = b /\ y[3] = c
  OBVIOUS
<1> HIDE DEF x, y
<1>3. x = y
  BY <1>1, <1>2
<1> QED BY <1>3, Zenon DEF x, y

(* The reports to the owner, one after the other.                           *)
LEMMA Reports ==
  /\ Append(<<>>, "ERROR") = <<"ERROR">> /\ Append(<<>>, "UP") = <<"UP">>
  /\ Append(<<"UP">>, "ERROR") = <<"UP", "ERROR">>
  /\ Append(<<"UP">>, "ERROR_CLOSED") = <<"UP", "ERROR_CLOSED">>
<1> DEFINE S == {"UP", "ERROR", "ERROR_CLOSED"}
<1>1. "UP" \in S /\ "ERROR" \in S /\ "ERROR_CLOSED" \in S
  BY Zenon
<1>2. Append(<<>>, "ERROR") = <<"ERROR">> /\ Append(<<>>, "UP") = <<"UP">>
  OBVIOUS
<1> QED BY <1>1, <1>2, AppendToOne, Zenon

(* The messages to the server, one after the other.                         *)
LEMMA Messages ==
  /\ Append(<<>>, "hello") = <<"hello">>
  /\ Append(<<"hello">>, "password") = <<"hello", "password">>
  /\ Append(<<"hello">>, "request") = <<"hello", "request">>
  /\ Append(<<"hello", "password">>, "request") = <<"hello", "password", "request">>
<1> DEFINE S == {"hello", "password", "request"}
<1>1. "hello" \in S /\ "password" \in S /\ "request" \in S
  BY Zenon
<1>2. Append(<<>>, "hello") = <<"hello">>
  OBVIOUS
<1> QED BY <1>1, <1>2, AppendToOne, AppendToTwo, Zenon

-----------------------------------------------------------------------------
(* Freeing the client, in any state.                                        *)
LEMMA SentSoFar ==
  ASSUME HandInv
  PROVE  \/ sent \in {<<>>, <<"hello">>, <<"hello", "password">>}
         \/ Authed /\ sent = WithRequest
<1>1. Greeting \in {<<"hello">>, <<"hello", "password">>}
  BY Zenon DEF Greeting
<1> QED BY <1>1, Zenon DEF HandInv, HandTyped, Told, Synced, EndStates, SendStates, RecvStates

(* BSocksClient_Free leaves nothing behind.                                 *)
LEMMA FreedKeeps ==
  ASSUME HandInv, Same, socksState # "freed", Socks!FreeAll(held), is_hupd' = is_hupd,
         sent' = sent, taken' \in Nat, taken' <= Len(Stream), Ended(events')
  PROVE  HandInv'
<1>0. Stream' = Stream /\ Authed' = Authed /\ WithRequest' = WithRequest
  BY Zenon, SameStream
<1>1. /\ socksState' = "freed" /\ buffer' = 0 /\ op' = "none" /\ waits' = FALSE
      /\ dest' = 0 /\ total' = 0 /\ done' = 0
  BY Zenon DEF Socks!FreeAll, Socks!NoOp
<1>2. misuse' = FALSE /\ held' = {} /\ fd' = "closed"
  <2>2. CASE socksState = "CONNECTING"
    BY Zenon, <2>2 DEF HandInv, Parts, Socks!FreeAll, Socks!FreedParts
  <2>3. CASE socksState = "UP"
    BY Zenon, <2>3 DEF HandInv, Parts, Socks!FreeAll, Socks!FreedParts
  <2>4. CASE socksState \in SendStates \cup RecvStates
    BY Zenon, <2>4 DEF HandInv, Parts, Socks!FreeAll, Socks!FreedParts, SendStates, RecvStates
  <2> QED BY Zenon, <2>2, <2>3, <2>4 DEF HandInv, HandTyped, EndStates
<1>3. HandTyped'
  <2>1. buffer' \in 0..258 /\ dest' \in Nat /\ total' \in Nat /\ done' \in Nat
    BY <1>1
  <2> QED BY <1>0, <1>1, <2>1, Zenon DEF HandInv, HandTyped, Same, EndStates
<1>4. Parts'
  BY <1>1, <1>2, Zenon DEF Parts, SendStates, RecvStates
<1>5. Placed'
  BY <1>1, Zenon DEF Placed, SendStates, RecvStates
<1>6. Reported'
  BY <1>0, <1>1, Zenon DEF Reported, Ended, Same
<1>7. Told'
  BY <1>0, <1>1, SentSoFar, Zenon DEF Told
<1>8. Synced'
  BY <1>1, Zenon DEF Synced
<1> QED BY <1>3, <1>4, <1>5, <1>6, <1>7, <1>8, Zenon DEF HandInv

(* report_error: the owner is told and frees the client.                    *)
LEMMA ErrorKeeps ==
  ASSUME HandInv, Same, socksState # "freed", is_hupd' = is_hupd, sent' = sent,
         taken' \in Nat, taken' <= Len(Stream),
         NEW event \in {"ERROR", "ERROR_CLOSED"},
         event = "ERROR_CLOSED" => socksState = "UP",
         Socks!ReportError(event, held)
  PROVE  HandInv'
<1>1. (socksState = "UP" /\ events = <<"UP">>) \/ (events = <<>> /\ event = "ERROR")
  BY Zenon DEF HandInv, Reported
<1>2. socksState = "UP" => Authed /\ server.grants
  BY Zenon DEF HandInv, Synced
<1>3. Ended(events')
  BY <1>1, <1>2, Reports, Zenon DEF Socks!ReportError, Ended
<1> QED BY <1>3, FreedKeeps, Zenon DEF Socks!ReportError

-----------------------------------------------------------------------------
(* The steps of the handshake.  A message is sent next.                     *)
LEMMA SendKeeps ==
  ASSUME HandInv, Same, NEW next \in {"SENDING_PASSWORD", "SENDING_REQUEST"},
         NEW len \in 1..258, Socks!Send(next, len), socksState \in RecvStates,
         is_hupd' = is_hupd, upRead' = upRead, taken' \in Nat, taken' <= Len(Stream),
         next = "SENDING_PASSWORD" => taken' = 2 /\ Chosen /\ sent = <<"hello">>,
         next = "SENDING_REQUEST" => taken' = Auth /\ Authed /\ sent = Greeting
  PROVE  HandInv'
<1>0. /\ Stream' = Stream /\ Auth' = Auth /\ Authed' = Authed /\ Chosen' = Chosen
      /\ Greeting' = Greeting
  BY Zenon, SameStream
<1>1. /\ socksState' = next /\ buffer' = len /\ op' = "send" /\ waits' = FALSE
      /\ dest' = 0 /\ total' = len /\ done' = 0
      /\ held' = held /\ misuse' = misuse /\ fd' = fd /\ events' = events /\ sent' = sent
  BY Zenon DEF Socks!Send, Socks!StartOp
<1>2. /\ held = {"connector", "con", "control"} /\ fd = "con" /\ misuse = FALSE
      /\ events = <<>> /\ upRead = <<>>
  BY Zenon DEF HandInv, Parts, Reported, Synced, RecvStates
<1>3. HandTyped'
  <2>1. buffer' \in 0..258 /\ dest' \in Nat /\ total' \in Nat /\ done' \in Nat
    BY <1>1
  <2> QED BY <1>0, <1>1, <2>1, Zenon DEF HandInv, HandTyped, Same, SendStates
<1>4. Parts'
  BY Zenon, <1>1, <1>2 DEF Parts, SendStates
<1>5. Placed'
  BY <1>1 DEF Placed, SendStates, RecvStates
<1>6. Reported'
  BY <1>1, <1>2, Zenon DEF Reported
<1>7. Told'
  BY <1>0, <1>1, Zenon DEF Told
<1>8. Synced'
  BY <1>0, <1>1, <1>2, Zenon DEF Synced
<1> QED BY <1>3, <1>4, <1>5, <1>6, <1>7, <1>8, Zenon DEF HandInv

(* An answer is awaited next, of which nothing has come yet.                *)
LEMMA NothingTaken ==
  ASSUME NEW b \in Nat, taken' = b, done' = 0, got' = <<>>
  PROVE  Took(b)'
<1>1. <<>> \in Seq(Nat) /\ Len(<<>>) = 0 /\ 1..0 = {} /\ b = b + 0
  OBVIOUS
<1> QED BY <1>1, Zenon DEF Took

(* A message is sent: the client waits for the answer to it.                *)
LEMMA AwaitKeeps ==
  ASSUME HandInv, Same, NEW next \in {"SENT_HELLO", "SENT_PASSWORD", "SENT_REQUEST"},
         NEW size, NEW len,
         next \in {"SENT_HELLO", "SENT_PASSWORD"} => size = 2 /\ len = 2,
         next = "SENT_REQUEST" => size = 22 /\ len = 4,
         Socks!Receive(next, size, len), socksState \in SendStates,
         is_hupd' = is_hupd, upRead' = upRead, taken' = taken,
         next = "SENT_HELLO" => taken = 0 /\ sent' = <<"hello">>,
         next = "SENT_PASSWORD" => taken = 2 /\ Chosen /\ sent' = <<"hello", "password">>,
         next = "SENT_REQUEST" => taken = Auth /\ Authed /\ sent' = WithRequest
  PROVE  HandInv'
<1>0. /\ Stream' = Stream /\ Auth' = Auth /\ Authed' = Authed /\ Chosen' = Chosen
      /\ WithRequest' = WithRequest
  BY Zenon, SameStream
<1>1. /\ socksState' = next /\ buffer' = size /\ op' = "recv" /\ waits' = FALSE
      /\ dest' = 0 /\ total' = len /\ done' = 0 /\ got' = <<>>
      /\ held' = held /\ misuse' = misuse /\ fd' = fd /\ events' = events
  BY Zenon DEF Socks!Receive, Socks!StartReceive, Socks!StartOp
<1>2. /\ held = {"connector", "con", "control"} /\ fd = "con" /\ misuse = FALSE
      /\ events = <<>> /\ upRead = <<>>
  BY Zenon DEF HandInv, Parts, Reported, Synced, SendStates
<1>3. HandTyped'
  <2>1. buffer' \in 0..258 /\ dest' \in Nat /\ total' \in Nat /\ done' \in Nat
    BY <1>1
  <2> QED BY <1>0, <1>1, <2>1, Zenon DEF HandInv, HandTyped, Same, RecvStates
<1>4. Parts'
  BY Zenon, <1>1, <1>2 DEF Parts, RecvStates
<1>5. Placed'
  BY <1>1 DEF Placed, SendStates, RecvStates
<1>6. Reported'
  BY <1>1, <1>2, Zenon DEF Reported
<1>7. Told'
  BY <1>0, <1>1, Zenon DEF Told
<1>8. Synced'
  <2>1. taken \in Nat
    BY Zenon DEF HandInv, HandTyped
  <2>2. Took(taken)'
    BY <1>1, <2>1, NothingTaken, Zenon
  <2> QED BY <1>0, <1>1, <1>2, <2>2, Zenon DEF Synced
<1> QED BY <1>3, <1>4, <1>5, <1>6, <1>7, <1>8, Zenon DEF HandInv

(* send_handler_done: each message is followed by its answer.               *)
LEMMA SendDoneKeeps ==
  ASSUME HandInv, Same, Socks!SendHandlerDone, op = "send",
         is_hupd' = is_hupd, upRead' = upRead, taken' = taken
  PROVE  HandInv'
<1>0. socksState \in SendStates /\ socksState # "freed"
  BY Zenon DEF HandInv, HandTyped, Placed, EndStates, RecvStates, SendStates
<1>1. CASE Socks!OutOfMemory
  <2>1. taken' \in Nat /\ taken' <= Len(Stream) /\ sent' = sent
    BY <1>1, Zenon DEF HandInv, HandTyped, Socks!OutOfMemory
  <2> QED BY <1>0, <1>1, <2>1, ErrorKeeps, Zenon DEF Socks!OutOfMemory
<1>2. CASE socksState = "SENDING_HELLO" /\ Socks!Receive("SENT_HELLO", 2, 2)
  <2>1. Socks!Message = "hello"
    BY Zenon, <1>2 DEF Socks!Message
  <2>2. taken = 0 /\ sent' = <<"hello">>
    BY <1>2, <2>1, Messages, Zenon DEF HandInv, Told, Synced, Socks!Receive
  <2> QED BY <1>0, <1>2, <2>2, AwaitKeeps, Zenon
<1>3. CASE socksState = "SENDING_REQUEST" /\ Socks!Receive("SENT_REQUEST", 22, 4)
  <2>1. Socks!Message = "request"
    BY Zenon, <1>3 DEF Socks!Message
  <2>2. taken = Auth /\ Authed /\ sent' = WithRequest
    BY <1>3, <2>1, Messages, Zenon DEF HandInv, Told, Synced, Socks!Receive, Greeting, WithRequest
  <2> QED BY <1>0, <1>3, <2>2, AwaitKeeps, Zenon
<1>4. CASE socksState = "SENDING_PASSWORD" /\ Socks!Receive("SENT_PASSWORD", 2, 2)
  <2>1. Socks!Message = "password"
    BY Zenon, <1>4 DEF Socks!Message
  <2>2. taken = 2 /\ Chosen /\ sent' = <<"hello", "password">>
    BY <1>4, <2>1, Messages, Zenon DEF HandInv, Told, Synced, Socks!Receive
  <2> QED BY <1>0, <1>4, <2>2, AwaitKeeps, Zenon
<1>5. Socks!ServerHello = 2 /\ Socks!PasswordReply = 2 /\ Socks!ReplyHeader = 4 /\ Socks!ReplyBuffer = 22
  BY DEF Socks!ServerHello, Socks!PasswordReply, Socks!ReplyHeader, Socks!ReplyBuffer, Socks!AddrLen
<1> QED BY <1>1, <1>2, <1>3, <1>4, <1>5, Zenon DEF Socks!SendHandlerDone

(* The control I/O has sent a portion of a message.                         *)
LEMMA BytesSentKeeps ==
  ASSUME HandInv, NEW n \in 1..18, Socks!BytesSent(n)
  PROVE  HandInv'
<1>0. Same /\ op = "send" /\ is_hupd' = is_hupd /\ upRead' = upRead /\ taken' = taken
  BY Zenon DEF Socks!BytesSent, Socks!Keep, Same
<1>1. CASE done + n < total
  <2>0. socksState \in SendStates
    BY <1>0, Zenon DEF HandInv, HandTyped, Placed, EndStates, RecvStates
  <2>1. /\ done' = done + n /\ waits' = FALSE /\ socksState' = socksState /\ held' = held
        /\ misuse' = misuse /\ fd' = fd /\ buffer' = buffer /\ op' = op /\ dest' = dest
        /\ total' = total /\ got' = got /\ sent' = sent /\ events' = events
    BY <1>1, Zenon DEF Socks!BytesSent, Socks!resVars
  <2>2. /\ Stream' = Stream /\ Auth' = Auth /\ Authed' = Authed /\ Chosen' = Chosen
        /\ Greeting' = Greeting /\ WithRequest' = WithRequest
    BY Zenon, <1>0, SameStream
  <2>3. HandTyped'
    <3>1. done' \in Nat
      BY <2>1 DEF HandInv, HandTyped
    <3> QED BY <1>0, <2>1, <2>2, <3>1, Zenon DEF HandInv, HandTyped, Same
  <2>4. Parts'
    BY <2>1, Zenon DEF HandInv, Parts
  <2>5. Placed'
    BY Zenon, <1>1, <2>0, <2>1 DEF HandInv, Placed, SendStates, RecvStates
  <2>6. Reported'
    BY <2>0, <2>1, Zenon DEF HandInv, Reported, SendStates
  <2>7. Told'
    BY <2>1, <2>2, Zenon DEF HandInv, Told
  <2>8. Synced'
    BY <1>0, <2>0, <2>1, <2>2, Zenon DEF HandInv, Synced, SendStates
  <2> QED BY <2>3, <2>4, <2>5, <2>6, <2>7, <2>8, Zenon DEF HandInv
<1>2. CASE ~(done + n < total)
  BY <1>0, <1>2, SendDoneKeeps, Zenon DEF Socks!BytesSent
<1> QED BY Zenon, <1>1, <1>2

-----------------------------------------------------------------------------
(* What is received, when a portion of n bytes comes.                       *)
Data(n) == got \o SubSeq(Stream, taken + 1, taken + n)

(* The bytes that are there after a portion was read.                       *)
LEMMA DataPortion ==
  ASSUME NEW n \in 1..18, got \in Seq(Nat), Stream \in Seq(Nat), taken \in Nat,
         taken + n <= Len(Stream)
  PROVE  /\ Data(n) \in Seq(Nat) /\ Len(Data(n)) = Len(got) + n
         /\ \A i \in 1..Len(got) : Data(n)[i] = got[i]
         /\ \A i \in Len(got) + 1..Len(got) + n : Data(n)[i] = Stream[taken + (i - Len(got))]
<1>a. PICK g \in Seq(Nat) : g = got
  BY Zenon
<1>b. PICK s \in Seq(Nat) : s = Stream
  BY Zenon
<1>c. PICK k \in Nat : k = taken
  BY Zenon
<1>d. k + n <= Len(s)
  BY <1>b, <1>c, Zenon
<1> DEFINE t == SubSeq(s, k + 1, k + n)
<1>1. t \in Seq(Nat) /\ Len(t) = n /\ \A i \in 1..n : t[i] = s[k + i]
  BY <1>d
<1> HIDE DEF t
<1>2. Joins(g \o t, g, t)
  BY <1>1, JoinedBytes, Zenon
<1>3. LET d == g \o t
      IN /\ d \in Seq(Nat) /\ Len(d) = Len(g) + n
         /\ \A i \in 1..Len(g) : d[i] = g[i]
         /\ \A i \in Len(g) + 1..Len(g) + n : d[i] = s[k + (i - Len(g))]
  <2> DEFINE d == g \o t
  <2>1. Joins(d, g, t)
    BY Zenon, <1>2
  <2> HIDE DEF d
  <2>2. /\ d \in Seq(Nat) /\ Len(d) = Len(g) + n
        /\ \A i \in 1..Len(g) : d[i] = g[i]
        /\ \A i \in Len(g) + 1..Len(g) + n : d[i] = s[k + (i - Len(g))]
    <3>1. /\ d \in Seq(Nat) /\ Len(d) = Len(g) + n
          /\ \A i \in 1..Len(g) : d[i] = g[i]
          /\ \A i \in Len(g) + 1..Len(g) + n : d[i] = t[i - Len(g)]
      BY <1>1, <2>1, Zenon DEF Joins
    <3>2. \A i \in Len(g) + 1..Len(g) + n : i - Len(g) \in 1..n
      OBVIOUS
    <3> QED BY <1>1, <3>1, <3>2, Zenon
  <2> QED BY <2>2, Zenon DEF d
<1> QED BY <1>a, <1>b, <1>c, <1>3, Zenon DEF t, Data

(* They are the bytes of the stream from the place the message begins at.   *)
LEMMA DataIs ==
  ASSUME HandInv, NEW b \in Nat, Took(b), NEW n \in 1..18, taken + n <= Len(Stream)
  PROVE  /\ Data(n) \in Seq(Nat) /\ Len(Data(n)) = done + n /\ taken + n = b + (done + n)
         /\ \A i \in 1..done + n : Data(n)[i] = Stream[b + i]
<1>1. /\ done \in Nat /\ taken \in Nat /\ taken = b + done /\ got \in Seq(Nat)
      /\ Len(got) = done /\ \A i \in 1..done : got[i] = Stream[b + i]
  BY Zenon DEF HandInv, HandTyped, Took
<1>2. Stream \in Seq(Nat)
  BY StreamFacts, Zenon DEF HandInv, HandTyped
<1>4. /\ Data(n) \in Seq(Nat) /\ Len(Data(n)) = Len(got) + n
      /\ \A i \in 1..Len(got) : Data(n)[i] = got[i]
      /\ \A i \in Len(got) + 1..Len(got) + n : Data(n)[i] = Stream[taken + (i - Len(got))]
  BY <1>1, <1>2, DataPortion, Zenon
<1>5. \A i \in 1..done + n : i \in 1..done \/ (i \in done + 1..done + n /\ taken + (i - done) = b + i)
  BY <1>1
<1>6. taken + n = b + (done + n)
  BY <1>1
<1>7. Data(n) \in Seq(Nat) /\ Len(Data(n)) = done + n
  BY <1>1, <1>4, Zenon
<1>8. ASSUME NEW i \in 1..done + n
      PROVE  Data(n)[i] = Stream[b + i]
  <2>1. CASE i \in 1..done
    BY <1>1, <1>4, <2>1, Zenon
  <2>2. CASE i \in done + 1..done + n /\ taken + (i - done) = b + i
    BY <1>1, <1>4, <2>2, Zenon
  <2> QED BY <1>5, <2>1, <2>2, Zenon
<1> QED BY <1>6, <1>7, <1>8, Zenon

(* The part of an operation.                                                *)
LEMMA PartKeeps ==
  ASSUME HandInv, Same, NEW n \in 1..18, socksState \in RecvStates, done + n < total,
         taken + n <= Len(Stream), taken' = taken + n, got' = Data(n), done' = done + n,
         waits' = FALSE, is_hupd' = is_hupd,
         UNCHANGED <<socksState, held, misuse, fd, buffer, op, dest, total, sent, events, upRead>>
  PROVE  HandInv'
<1>2. /\ Stream' = Stream /\ Auth' = Auth /\ Authed' = Authed /\ Chosen' = Chosen
      /\ Greeting' = Greeting /\ WithRequest' = WithRequest /\ Granted' = Granted
  BY Zenon, SameStream
<1>1. /\ socksState' = socksState /\ held' = held
      /\ misuse' = misuse /\ fd' = fd /\ buffer' = buffer /\ op' = op /\ dest' = dest
      /\ total' = total /\ sent' = sent /\ events' = events /\ upRead' = upRead
  BY Zenon
<1>3. HandTyped'
  <2>1. done' \in Nat /\ taken' \in Nat /\ taken' <= Len(Stream)
    BY DEF HandInv, HandTyped
  <2> QED BY <1>1, <1>2, <2>1, Zenon DEF HandInv, HandTyped, Same
<1>4. Parts'
  BY <1>1, Zenon DEF HandInv, Parts
<1>5. Placed'
  <2>1. done' < total
    BY Zenon
  <2> QED BY <1>1, <1>2, <2>1, Zenon DEF HandInv, Placed, SendStates, RecvStates
<1>6. Reported'
  BY <1>1, Zenon DEF HandInv, Reported, RecvStates
<1>7. Told'
  BY <1>1, <1>2, Zenon DEF HandInv, Told
<1>8. \A b \in Nat : Took(b) => Took(b)'
  <2> SUFFICES ASSUME NEW b \in Nat, Took(b)
               PROVE  Took(b)'
    BY Zenon
  <2>1. /\ Data(n) \in Seq(Nat) /\ Len(Data(n)) = done + n /\ taken + n = b + (done + n)
        /\ \A i \in 1..done + n : Data(n)[i] = Stream[b + i]
    BY DataIs, Zenon
  <2> QED BY <1>2, <2>1, Zenon DEF Took
<1>9. 0 \in Nat /\ 2 \in Nat /\ Auth \in Nat /\ Auth + 4 \in Nat
  <2>1. Auth \in {2, 4}
    BY StreamFacts, Zenon DEF HandInv, HandTyped
  <2> QED BY <2>1
<1>10. Synced'
  BY <1>1, <1>2, <1>8, <1>9, Zenon DEF HandInv, Synced, RecvStates
<1> QED BY <1>3, <1>4, <1>5, <1>6, <1>7, <1>10, Zenon DEF HandInv

(* auth_finished: the request is sent once the server is satisfied.         *)
LEMMA AuthFinishedKeeps ==
  ASSUME HandInv, Same, Socks!AuthFinished, socksState \in RecvStates,
         is_hupd' = is_hupd, upRead' = upRead, taken' \in Nat, taken' <= Len(Stream),
         taken' = Auth, Authed, sent = Greeting
  PROVE  HandInv'
<1>0. socksState # "freed"
  BY Zenon DEF RecvStates
<1>1. CASE Socks!OutOfMemory
  <2>1. sent' = sent
    BY <1>1, Zenon DEF Socks!OutOfMemory
  <2> QED BY <1>0, <1>1, <2>1, ErrorKeeps, Zenon DEF Socks!OutOfMemory
<1>2. ASSUME NEW atyp \in {1, 4}, Socks!Send("SENDING_REQUEST", 4 + Socks!AddrLen(atyp))
      PROVE  HandInv'
  <2>1. 4 + Socks!AddrLen(atyp) \in 1..258
    BY DEF Socks!AddrLen
  <2> QED BY <1>2, <2>1, SendKeeps, Zenon
<1> QED BY <1>1, <1>2, Zenon DEF Socks!AuthFinished

(* recv_handler_done for the hello of the server.                           *)
LEMMA HelloKeeps ==
  ASSUME HandInv, Same, NEW n \in 1..18, socksState = "SENT_HELLO", done + n = total,
         taken + n <= Len(Stream), taken' = taken + n, upRead' = upRead, is_hupd' = is_hupd,
         Socks!GotHello(Data(n))
  PROVE  HandInv'
<1>0. socksState # "freed" /\ socksState \in RecvStates /\ sent = <<"hello">> /\ Took(0) /\ total = 2
  BY Zenon DEF HandInv, RecvStates, Told, Synced, Placed
<1>1. taken' \in Nat /\ taken' <= Len(Stream)
  BY DEF HandInv, HandTyped
<1>2. /\ taken + n = 0 + total /\ \A i \in 1..total : Data(n)[i] = Stream[0 + i]
  <2>1. 0 \in Nat
    OBVIOUS
  <2> QED BY <1>0, <2>1, DataIs, Zenon
<1>3. taken' = 2 /\ 2 <= Len(Stream) /\ Data(n)[2] = Stream[2]
  BY <1>0, <1>1, <1>2
<1>4. CASE Socks!ReportError("ERROR", held) /\ sent' = sent
  BY <1>0, <1>1, <1>4, ErrorKeeps, Zenon
<1>5. CASE Data(n)[2] = 2 /\ Socks!OutOfMemory
  <2>1. sent' = sent
    BY <1>5, Zenon DEF Socks!OutOfMemory
  <2> QED BY <1>0, <1>1, <1>5, <2>1, ErrorKeeps, Zenon DEF Socks!OutOfMemory
<1>6. CASE Data(n)[2] = 0 /\ Socks!Offered(Data(n)[2]) /\ Socks!AuthFinished
  <2>1. Stream[2] = 0 /\ Stream[2] # 2
    BY <1>3, <1>6
  <2>2. Auth = 2 /\ Authed /\ sent = Greeting
    BY Zenon, <1>0, <1>3, <1>6, <2>1 DEF Auth, Start, Authed, Greeting
  <2> QED BY <1>0, <1>1, <1>3, <1>6, <2>2, AuthFinishedKeeps, Zenon
<1>7. CASE Data(n)[2] = 2 /\ Socks!Offered(Data(n)[2]) /\ Socks!Send("SENDING_PASSWORD", 5)
  <2>1. Chosen
    BY <1>3, <1>7, Zenon DEF Chosen
  <2>2. 5 \in 1..258
    OBVIOUS
  <2> QED BY <1>0, <1>1, <1>3, <1>7, <2>1, <2>2, SendKeeps, Zenon
<1> QED BY <1>4, <1>5, <1>6, <1>7, Zenon DEF Socks!GotHello

(* recv_handler_done for the answer to the password.                        *)
LEMMA PasswordKeeps ==
  ASSUME HandInv, Same, NEW n \in 1..18, socksState = "SENT_PASSWORD", done + n = total,
         taken + n <= Len(Stream), taken' = taken + n, upRead' = upRead, is_hupd' = is_hupd,
         Socks!GotPasswordReply(Data(n))
  PROVE  HandInv'
<1>0. /\ socksState # "freed" /\ socksState \in RecvStates /\ sent = <<"hello", "password">>
      /\ Took(2) /\ Chosen /\ total = 2
  BY Zenon DEF HandInv, RecvStates, Told, Synced, Placed
<1>1. taken' \in Nat /\ taken' <= Len(Stream)
  BY DEF HandInv, HandTyped
<1>a. 2 \in Nat
  BY Zenon
<1>2. /\ taken + n = 2 + total /\ \A i \in 1..total : Data(n)[i] = Stream[2 + i]
  BY <1>0, <1>a, DataIs, Zenon
<1>3. taken' = 4 /\ 4 <= Len(Stream) /\ Data(n)[2] = Stream[4]
  BY <1>0, <1>1, <1>2
<1>4. CASE Socks!ReportError("ERROR", held) /\ sent' = sent
  BY <1>0, <1>1, <1>4, ErrorKeeps, Zenon
<1>5. CASE Data(n)[2] = 0 /\ Socks!AuthFinished
  <2>1. Auth = 4 /\ Authed /\ sent = Greeting
    BY <1>0, <1>3, <1>5, Zenon DEF Auth, Start, Authed, Greeting, Chosen
  <2> QED BY <1>0, <1>1, <1>3, <1>5, <2>1, AuthFinishedKeeps, Zenon
<1> QED BY <1>4, <1>5, Zenon DEF Socks!GotPasswordReply, Socks!PasswordAccepted

(* recv_handler_done for the header of the reply.                           *)
LEMMA HeaderKeeps ==
  ASSUME HandInv, Same, NEW n \in 1..18, socksState = "SENT_REQUEST", done + n = total,
         taken + n <= Len(Stream), taken' = taken + n, upRead' = upRead, is_hupd' = is_hupd,
         Socks!GotReplyHeader(Data(n))
  PROVE  HandInv'
<1>0. /\ socksState # "freed" /\ socksState \in RecvStates /\ sent = WithRequest
      /\ Took(Auth) /\ Authed /\ total = 4 /\ buffer = 22 /\ server \in MCServers
      /\ held = {"connector", "con", "control"} /\ fd = "con" /\ misuse = FALSE
      /\ events = <<>> /\ upRead = <<>>
  BY Zenon DEF HandInv, HandTyped, RecvStates, Told, Synced, Placed, Parts, Reported
<1>1. taken' \in Nat /\ taken' <= Len(Stream)
  BY DEF HandInv, HandTyped
<1>a. Auth \in {2, 4}
  BY <1>0, StreamFacts, Zenon
<1>b. Auth \in Nat
  BY <1>a
<1>2. /\ taken + n = Auth + total /\ \A i \in 1..total : Data(n)[i] = Stream[Auth + i]
  BY <1>0, <1>b, DataIs, Zenon
<1>3. /\ taken' = Auth + 4 /\ Auth + 4 <= Len(Stream)
      /\ Data(n)[1] = Stream[Auth + 1] /\ Data(n)[2] = Stream[Auth + 2]
      /\ Data(n)[4] = Stream[Auth + 4]
  <2>1. 1 \in 1..4 /\ 2 \in 1..4 /\ 4 \in 1..4
    OBVIOUS
  <2> QED BY <1>0, <1>1, <1>2, <2>1, Zenon
<1>4. CASE Socks!ReportError("ERROR", held) /\ sent' = sent
  BY <1>0, <1>1, <1>4, ErrorKeeps, Zenon
<1>5. CASE /\ Data(n)[1] = 5 /\ Data(n)[2] = 0 /\ Data(n)[4] \in {1, 4}
           /\ Socks!StartReceive(4, Socks!AddrLen(Data(n)[4]))
           /\ socksState' = "RECEIVED_REPLY_HEADER"
           /\ UNCHANGED <<Socks!resVars, events, sent>>
  <2>0. /\ Stream' = Stream /\ Auth' = Auth /\ Authed' = Authed /\ Granted' = Granted
        /\ WithRequest' = WithRequest
    BY Zenon, SameStream
  <2>a. Granted
    BY <1>3, <1>5, Zenon DEF Granted, IsGrant
  <2>1. /\ op' = "recv" /\ waits' = FALSE /\ dest' = 4 /\ total' = Socks!AddrLen(Stream[Auth + 4])
        /\ done' = 0 /\ got' = <<>> /\ socksState' = "RECEIVED_REPLY_HEADER"
        /\ held' = held /\ misuse' = misuse /\ fd' = fd /\ buffer' = buffer
        /\ events' = events /\ sent' = sent
    BY <1>3, <1>5, Zenon DEF Socks!StartReceive, Socks!StartOp, Socks!resVars
  <2>2. total' \in Nat /\ 0 < total' /\ done' \in Nat /\ dest' \in Nat
    BY <2>1 DEF Socks!AddrLen
  <2>3. HandTyped'
    BY <1>0, <1>1, <2>0, <2>1, <2>2, Zenon DEF HandInv, HandTyped, Same, RecvStates
  <2>4. Parts'
    BY Zenon, <1>0, <2>1 DEF Parts, RecvStates
  <2>5. Placed'
    BY <1>0, <2>0, <2>1, <2>2, Zenon DEF Placed, SendStates, RecvStates
  <2>6. Reported'
    BY <1>0, <2>1, Zenon DEF Reported
  <2>7. Told'
    BY <1>0, <2>0, <2>1, Zenon DEF Told
  <2>8. Synced'
    <3>1. Auth + 4 \in Nat
      BY <1>b
    <3>2. Took(Auth + 4)'
      BY Zenon, <1>3, <2>0, <2>1, <3>1, NothingTaken DEF Took
    <3> QED BY <1>0, <2>0, <2>a, <2>1, <3>2, Zenon DEF Synced
  <2> QED BY <2>3, <2>4, <2>5, <2>6, <2>7, <2>8, Zenon DEF HandInv
<1>6. Socks!ReplyHeader = 4
  BY Zenon DEF Socks!ReplyHeader
<1> QED
  BY <1>4, <1>5, <1>6, Zenon DEF Socks!GotReplyHeader, Socks!ReplyGranted, Socks!ReplyAddrLen

(* The rest of the reply: the stream is the owner's now, and what comes     *)
(* next is the payload.                                                     *)
LEMMA RestKeeps ==
  ASSUME HandInv, Same, NEW n \in 1..18, socksState = "RECEIVED_REPLY_HEADER",
         done + n = total, taken + n <= Len(Stream), taken' = taken + n, upRead' = upRead,
         is_hupd' = is_hupd, Socks!GotReplyRest
  PROVE  HandInv'
<1>0. /\ sent = WithRequest /\ Took(Auth + 4) /\ Authed /\ Granted
      /\ total = Socks!AddrLen(Stream[Auth + 4]) /\ server \in MCServers
      /\ held = {"connector", "con", "control"} /\ fd = "con" /\ misuse = FALSE
      /\ events = <<>> /\ upRead = <<>>
  BY Zenon DEF HandInv, HandTyped, RecvStates, Told, Synced, Placed, Parts, Reported
<1>1. taken' \in Nat /\ taken' <= Len(Stream)
  BY DEF HandInv, HandTyped
<1>2. Auth \in Nat /\ Auth <= Len(Stream)
  BY <1>0, StreamFacts DEF Authed
<1>3. taken' = Auth + 4 + Socks!AddrLen(Stream[Auth + 4])
  <2>1. Auth + 4 \in Nat
    BY <1>2
  <2>2. taken + n = Auth + 4 + (done + n)
    BY <1>0, <2>1, DataIs, Zenon
  <2> QED BY <1>0, <2>2, Zenon
<1>4. server.grants /\ Len(server.handshake) = taken' /\ server.payload \in Seq(Nat)
  <2>1. Room(Stream, Auth)
    BY <1>1, <1>3, Zenon DEF Room
  <2> QED BY <1>0, <1>2, <1>3, <2>1, StreamFacts, Zenon
<1>5. /\ Stream' = Stream /\ Auth' = Auth /\ Authed' = Authed /\ WithRequest' = WithRequest
  BY Zenon, SameStream
<1>6. /\ socksState' = "UP" /\ buffer' = 0 /\ op' = "none" /\ waits' = FALSE
      /\ dest' = 0 /\ total' = 0 /\ done' = 0 /\ got' = <<>> /\ fd' = fd /\ sent' = sent
  BY Zenon DEF Socks!GotReplyRest, Socks!NoOp
<1>7. held' = {"connector", "con", "up"} /\ misuse' = FALSE
  BY Zenon, <1>0 DEF Socks!GotReplyRest
<1>8. events' = <<"UP">>
  BY <1>0, Reports, Zenon DEF Socks!GotReplyRest
<1>9. HandTyped'
  <2>1. buffer' \in 0..258 /\ dest' \in Nat /\ total' \in Nat /\ done' \in Nat
    BY <1>6
  <2> QED BY <1>1, <1>5, <1>6, <2>1, Zenon DEF HandInv, HandTyped, Same, EndStates
<1>10. Parts'
  BY <1>0, <1>6, <1>7, Zenon DEF Parts, SendStates, RecvStates
<1>11. Placed'
  BY <1>6, Zenon DEF Placed, SendStates, RecvStates
<1>12. Reported'
  BY <1>6, <1>8, Zenon DEF Reported
<1>13. Told'
  BY <1>0, <1>5, <1>6, Zenon DEF Told
<1>14. Synced'
  <2>1. <<>> \in Seq(Nat) /\ taken' = taken' + Len(<<>>) /\ 1..Len(<<>>) = {}
    BY <1>1
  <2>2. /\ upRead' \in Seq(Nat) /\ taken' = Len(server.handshake) + Len(upRead')
        /\ \A i \in 1..Len(upRead') : upRead'[i] = server.payload[i]
    BY <1>0, <1>4, <2>1, Zenon
  <2> QED BY <1>0, <1>4, <1>5, <1>6, <2>2, Zenon DEF Synced, Same
<1> QED BY <1>9, <1>10, <1>11, <1>12, <1>13, <1>14, Zenon DEF HandInv

(* The owner reads the payload in order.                                    *)
LEMMA Places ==
  ASSUME NEW h \in Nat, NEW l \in Nat, NEW n \in Nat, NEW m \in Nat, h + l + n <= m
  PROVE  /\ \A i \in l + 1..l + n : /\ i - l \in 1..n /\ h + l + (i - l) = h + i
                                    /\ h + i \in h + 1..m /\ (h + i) - h = i
         /\ \A i \in 1..l + n : i \in 1..l \/ i \in l + 1..l + n
  OBVIOUS

(* What the owner reads goes on where it stopped.                           *)
LEMMA ReadOn ==
  ASSUME NEW n \in Nat, NEW h \in Nat, upRead \in Seq(Nat), Stream \in Seq(Nat),
         Data(n) \in Seq(Nat), Len(Data(n)) = n, h + Len(upRead) + n <= Len(Stream),
         \A i \in h + 1..Len(Stream) : Stream[i] = server.payload[i - h],
         \A i \in 1..Len(upRead) : upRead[i] = server.payload[i],
         \A i \in 1..n : Data(n)[i] = Stream[h + Len(upRead) + i]
  PROVE  LET u == upRead \o Data(n)
         IN /\ u \in Seq(Nat) /\ Len(u) = Len(upRead) + n
            /\ \A i \in 1..Len(u) : u[i] = server.payload[i]
<1> DEFINE u == upRead \o Data(n)
           l == Len(upRead)
<1>1. Joins(u, upRead, Data(n))
  BY JoinedBytes, Zenon
<1> HIDE DEF u
<1>2. /\ u \in Seq(Nat) /\ Len(u) = l + n
      /\ \A i \in 1..l : u[i] = upRead[i]
      /\ \A i \in l + 1..l + n : u[i] = Data(n)[i - l]
  BY <1>1, Zenon DEF Joins
<1>3. l \in Nat /\ Len(Stream) \in Nat
  OBVIOUS
<1>4. h + l + n <= Len(Stream)
  BY Zenon
<1>5. /\ \A i \in l + 1..l + n : /\ i - l \in 1..n /\ h + l + (i - l) = h + i
                                 /\ h + i \in h + 1..Len(Stream) /\ (h + i) - h = i
      /\ \A i \in 1..l + n : i \in 1..l \/ i \in l + 1..l + n
  BY <1>3, <1>4, Places, Zenon
<1>6. /\ \A i \in 1..l : upRead[i] = server.payload[i]
      /\ \A i \in 1..n : Data(n)[i] = Stream[h + l + i]
  BY Zenon
<1> HIDE DEF l
<1>7. ASSUME NEW i \in l + 1..l + n
      PROVE  u[i] = server.payload[i]
  <2>1. u[i] = Data(n)[i - l] /\ i - l \in 1..n /\ h + l + (i - l) = h + i
    BY <1>2, <1>5, Zenon
  <2>2. Data(n)[i - l] = Stream[h + i]
    BY <1>6, <2>1, Zenon
  <2>3. h + i \in h + 1..Len(Stream) /\ (h + i) - h = i
    BY <1>5, Zenon
  <2>4. Stream[h + i] = server.payload[(h + i) - h]
    BY Zenon, <2>3
  <2> QED BY <2>1, <2>2, <2>3, <2>4, Zenon
<1>8. \A i \in 1..Len(u) : u[i] = server.payload[i]
  BY <1>2, <1>5, <1>6, <1>7, Zenon
<1> QED BY <1>2, <1>8, Zenon DEF u, l

(* The owner reads a portion of the payload.                                *)
LEMMA OwnerGetsKeeps ==
  ASSUME HandInv, Same, NEW n \in 1..18, socksState = "UP",
         taken + n <= Len(Stream), taken' = taken + n, is_hupd' = is_hupd,
         Socks!OwnerGets(Data(n))
  PROVE  HandInv'
<1>0. /\ sent = WithRequest /\ Authed /\ server.grants /\ server \in MCServers
      /\ held = {"connector", "con", "up"} /\ fd = "con" /\ misuse = FALSE
      /\ events = <<"UP">> /\ got = <<>> /\ done = 0
      /\ upRead \in Seq(Nat) /\ taken = Len(server.handshake) + Len(upRead)
      /\ \A i \in 1..Len(upRead) : upRead[i] = server.payload[i]
  BY Zenon DEF HandInv, HandTyped, Told, Synced, Placed, Parts, Reported
<1>1. taken \in Nat /\ taken' \in Nat /\ taken' <= Len(Stream) /\ n \in Nat
  BY DEF HandInv, HandTyped
<1>2. /\ Stream' = Stream /\ Auth' = Auth /\ Authed' = Authed /\ WithRequest' = WithRequest
  BY Zenon, SameStream
<1>3. /\ socksState' = "UP" /\ op' = "none" /\ waits' = FALSE
      /\ dest' = 0 /\ total' = 0 /\ done' = 0 /\ got' = <<>> /\ fd' = fd /\ sent' = sent
      /\ held' = held /\ misuse' = misuse /\ buffer' = buffer /\ events' = events
      /\ upRead' = upRead \o Data(n)
  BY Zenon DEF Socks!OwnerGets, Socks!NoOp, Socks!resVars
<1>4. HandTyped'
  <2>1. dest' \in Nat /\ total' \in Nat /\ done' \in Nat
    BY Zenon, <1>3
  <2> QED BY <1>1, <1>2, <1>3, <2>1, Zenon DEF HandInv, HandTyped, Same, EndStates
<1>5. Parts'
  BY <1>0, <1>3, Zenon DEF Parts, SendStates, RecvStates
<1>6. Placed'
  BY <1>3, Zenon DEF Placed, SendStates, RecvStates
<1>7. Reported'
  BY <1>0, <1>3, Zenon DEF Reported
<1>8. Told'
  BY <1>0, <1>2, <1>3, Zenon DEF Told
<1>9. Synced'
  <2> DEFINE h == Len(server.handshake)
  <2>1. /\ Stream \in Seq(Nat) /\ server.payload \in Seq(Nat) /\ h \in Nat
        /\ \A i \in h + 1..Len(Stream) : Stream[i] = server.payload[i - h]
    <3>1. /\ Stream \in Seq(Nat) /\ server.handshake \in Seq(Nat) /\ server.payload \in Seq(Nat)
          /\ \A i \in h + 1..Len(Stream) : Stream[i] = server.payload[i - h]
      BY <1>0, StreamFacts, Zenon
    <3>2. h \in Nat
      BY <3>1
    <3> QED BY <3>1, <3>2, Zenon
  <2> HIDE DEF h
  <2>2. /\ Data(n) \in Seq(Nat) /\ Len(Data(n)) = n
        /\ \A i \in 1..n : Data(n)[i] = Stream[taken + i]
    <3>1. <<>> \in Seq(Nat) /\ Len(<<>>) = 0 /\ 1..0 = {} /\ taken = taken + 0 /\ 0 + n = n
      BY <1>1
    <3>2. Took(taken)
      BY <1>0, <3>1, Zenon DEF Took
    <3>3. /\ Data(n) \in Seq(Nat) /\ Len(Data(n)) = done + n
          /\ \A i \in 1..done + n : Data(n)[i] = Stream[taken + i]
      BY <1>1, <3>2, DataIs, Zenon
    <3>4. done + n = n
      BY <1>0, <1>1
    <3> QED BY <3>3, <3>4, Zenon
  <2>3. taken = h + Len(upRead)
    BY <1>0, Zenon DEF h
  <2>4. /\ upRead' \in Seq(Nat) /\ Len(upRead') = Len(upRead) + n
        /\ \A i \in 1..Len(upRead') : upRead'[i] = server.payload[i]
    <3>1. \A i \in 1..n : Data(n)[i] = Stream[h + Len(upRead) + i]
      BY <2>2, <2>3, Zenon
    <3>2. h + Len(upRead) + n <= Len(Stream)
      BY <2>3, Zenon
    <3> QED BY <1>0, <1>1, <1>3, <2>1, <2>2, <3>1, <3>2, ReadOn, Zenon
  <2>5. taken' = h + Len(upRead')
    <3>1. Len(upRead) \in Nat
      BY <1>0
    <3> QED BY <2>1, <2>3, <2>4, <3>1
  <2>6. taken' = Len(server.handshake) + Len(upRead')
    BY <2>5, Zenon DEF h
  <2> QED BY <1>0, <1>2, <1>3, <2>4, <2>6, Zenon DEF Synced, Same
<1> QED BY <1>4, <1>5, <1>6, <1>7, <1>8, <1>9, Zenon DEF HandInv

(* The control I/O, or the owner, has received a portion.                   *)
LEMMA BytesReceivedKeeps ==
  ASSUME HandInv, NEW n \in 1..18, Socks!BytesReceived(n)
  PROVE  HandInv'
<1>0. Same /\ op = "recv" /\ is_hupd' = is_hupd /\ taken' = taken + n
  BY Zenon DEF Socks!BytesReceived, Socks!Keep, Same
<1>1. Data(n) = got \o SubSeq(Socks!Stream, taken + 1, taken + n) /\ taken + n <= Len(Stream)
  BY Zenon DEF Data, Stream, Socks!BytesReceived
<1>2. CASE socksState = "UP" /\ Socks!OwnerGets(Data(n))
  BY <1>0, <1>1, <1>2, OwnerGetsKeeps, Zenon
<1>3. CASE done + n = total /\ Socks!MessageReceived(Data(n)) /\ upRead' = upRead
  BY <1>0, <1>1, <1>3, HelloKeeps, PasswordKeeps, HeaderKeeps, RestKeeps, Zenon DEF Socks!MessageReceived
<1>4. CASE /\ socksState # "UP" /\ done + n < total /\ got' = Data(n) /\ done' = done + n /\ waits' = FALSE
           /\ UNCHANGED <<socksState, Socks!resVars, op, dest, total, sent, events, upRead>>
  <2>1. socksState \in RecvStates
    BY <1>0, <1>4, Zenon DEF HandInv, HandTyped, Placed, EndStates, SendStates
  <2>2. UNCHANGED <<socksState, held, misuse, fd, buffer, op, dest, total, sent, events, upRead>>
    BY <1>4, Zenon DEF Socks!resVars
  <2> QED BY <1>0, <1>1, <1>4, <2>1, <2>2, PartKeeps, Zenon
<1> QED BY <1>1, <1>2, <1>3, <1>4, Zenon DEF Socks!BytesReceived

-----------------------------------------------------------------------------
(* The other steps.                                                         *)
LEMMA ConnectedKeeps ==
  ASSUME HandInv, Socks!Connected
  PROVE  HandInv'
<1>0. /\ Same /\ is_hupd' = is_hupd /\ taken' = taken /\ sent' = sent /\ events' = events
      /\ upRead' = upRead /\ misuse' = misuse
  BY Zenon DEF Socks!Connected, Socks!Keep, Same
<1>1. /\ Stream' = Stream
  BY Zenon, <1>0, SameStream
<1> DEFINE k == 2 + Len(auth_info.methods)
<1>2. k \in 1..258
  <2>1. Len(auth_info.methods) \in 1..255
    BY Zenon DEF Socks!Connected
  <2>2. \A l \in 1..255 : 2 + l \in 1..258
    OBVIOUS
  <2> QED BY <2>1, <2>2, Zenon
<1>3. /\ socksState' = "SENDING_HELLO" /\ buffer' = k /\ op' = "send" /\ waits' = FALSE
      /\ dest' = 0 /\ total' = k /\ done' = 0 /\ fd' = "con" /\ socksState = "CONNECTING"
  BY Zenon DEF Socks!Connected, Socks!StartOp
<1> HIDE DEF k
<1>4. held' = {"connector", "con", "control"} /\ misuse' = FALSE
  BY Zenon, <1>0, <1>3 DEF HandInv, Parts, Socks!Connected
<1>5. HandTyped'
  <2>1. buffer' \in 0..258 /\ dest' \in Nat /\ total' \in Nat /\ done' \in Nat
    BY <1>2, <1>3
  <2> QED BY <1>0, <1>1, <1>3, <2>1, Zenon DEF HandInv, HandTyped, Same, SendStates
<1>6. Parts'
  BY <1>3, <1>4, Zenon DEF Parts
<1>7. Placed'
  BY <1>2, <1>3 DEF Placed, SendStates, RecvStates
<1>8. Reported'
  BY <1>0, <1>3, Zenon DEF HandInv, Reported
<1>9. Told'
  BY <1>0, <1>3, Zenon DEF HandInv, Told
<1>10. Synced'
  BY <1>0, <1>3, Zenon DEF HandInv, Synced
<1> QED BY <1>5, <1>6, <1>7, <1>8, <1>9, <1>10, Zenon DEF HandInv

(* Only what the descriptor is watched for changes.                         *)
LEMMA WatchKeeps ==
  ASSUME HandInv, Same, waits' \in BOOLEAN, is_hupd' \in BOOLEAN, is_hupd' => ~waits',
         UNCHANGED <<socksState, held, misuse, fd, buffer, op, dest, total, done, got, taken,
                     sent, events, upRead>>
  PROVE  HandInv'
<1>0. /\ Stream' = Stream /\ Auth' = Auth /\ Authed' = Authed /\ Granted' = Granted
      /\ Chosen' = Chosen /\ Greeting' = Greeting /\ WithRequest' = WithRequest
  BY Zenon, SameStream
<1>1. /\ socksState' = socksState /\ held' = held /\ misuse' = misuse /\ fd' = fd
      /\ buffer' = buffer /\ op' = op /\ dest' = dest /\ total' = total /\ done' = done
      /\ got' = got /\ taken' = taken /\ sent' = sent /\ events' = events /\ upRead' = upRead
  BY Zenon
<1>2. HandTyped'
  BY <1>0, <1>1, Zenon DEF HandInv, HandTyped, Same
<1>3. Parts'
  BY <1>1, Zenon DEF HandInv, Parts
<1>4. Placed'
  BY <1>0, <1>1, Zenon DEF HandInv, Placed
<1>5. Reported'
  BY <1>0, <1>1, Zenon DEF HandInv, Reported, Ended, Same
<1>6. Told'
  BY <1>0, <1>1, Zenon DEF HandInv, Told
<1>7. Synced'
  <2>1. /\ Took(0)' <=> Took(0)
        /\ Took(2)' <=> Took(2)
        /\ Took(Auth)' <=> Took(Auth)
        /\ Took(Auth + 4)' <=> Took(Auth + 4)
    BY <1>0, <1>1, Zenon DEF Took
  <2> QED BY <1>0, <1>1, <2>1, Zenon DEF HandInv, Synced, Same
<1> QED BY <1>2, <1>3, <1>4, <1>5, <1>6, <1>7, Zenon DEF HandInv

(* A step of another component leaves the handshake alone.                  *)
LEMMA HandStutter ==
  ASSUME HandInv, UNCHANGED handshakeVars
  PROVE  HandInv'
<1>1. /\ Same /\ waits' = waits /\ is_hupd' = is_hupd
      /\ UNCHANGED <<socksState, held, misuse, fd, buffer, op, dest, total, done, got, taken,
                     sent, events, upRead>>
  BY Zenon DEF handshakeVars, Same
<1>2. waits \in BOOLEAN /\ is_hupd \in BOOLEAN /\ (is_hupd => ~waits)
  BY Zenon DEF HandInv, HandTyped
<1>3. waits' \in BOOLEAN /\ is_hupd' \in BOOLEAN /\ (is_hupd' => ~waits')
  BY <1>1, <1>2, Zenon
<1> QED BY <1>1, <1>3, WatchKeeps, Zenon

(* The owner starts to read.                                                *)
LEMMA OwnerReadsKeeps ==
  ASSUME HandInv, Socks!OwnerReads
  PROVE  HandInv'
<1>0. /\ Same /\ socksState = "UP" /\ socksState' = socksState /\ held' = held
      /\ misuse' = misuse /\ fd' = fd /\ buffer' = buffer /\ is_hupd' = is_hupd
      /\ taken' = taken /\ sent' = sent /\ events' = events /\ upRead' = upRead
  BY Zenon DEF Socks!OwnerReads, Socks!Keep, Socks!resVars, Same
<1>1. /\ op' = "recv" /\ waits' = FALSE /\ dest' = 0 /\ total' = OwnerRead /\ done' = 0
      /\ got' = <<>>
  BY Zenon DEF Socks!OwnerReads, Socks!StartOp
<1>2. /\ Stream' = Stream /\ Auth' = Auth /\ Authed' = Authed /\ WithRequest' = WithRequest
  BY Zenon, <1>0, SameStream
<1>3. HandTyped'
  <2>1. dest' \in Nat /\ total' \in Nat /\ done' \in Nat
    BY Zenon, <1>1, RelayAssumption
  <2> QED BY <1>0, <1>1, <1>2, <2>1, Zenon DEF HandInv, HandTyped, Same, EndStates
<1>4. Parts'
  BY <1>0, Zenon DEF HandInv, Parts
<1>5. Placed'
  BY <1>0, <1>1, Zenon DEF Placed, SendStates, RecvStates
<1>6. Reported'
  BY <1>0, Zenon DEF HandInv, Reported
<1>7. Told'
  BY <1>0, <1>2, Zenon DEF HandInv, Told
<1>8. Synced'
  BY <1>0, <1>2, Zenon DEF HandInv, Synced, Same
<1> QED BY <1>3, <1>4, <1>5, <1>6, <1>7, <1>8, Zenon DEF HandInv

(* Every step of the SOCKS client keeps the invariant.                      *)
LEMMA HandStep ==
  ASSUME HandInv, Socks!Next
  PROVE  HandInv'
<1>0. taken \in Nat /\ taken <= Len(Stream)
  BY Zenon DEF HandInv, HandTyped
<1>1. CASE Socks!ConnectFails
  <2>1. /\ Same /\ socksState # "freed" /\ is_hupd' = is_hupd /\ sent' = sent
        /\ taken' = taken /\ Socks!ReportError("ERROR", held)
    BY <1>1, Zenon DEF Socks!ConnectFails, Socks!Keep, Same
  <2> QED BY <1>0, <2>1, ErrorKeeps, Zenon
<1>2. CASE Socks!HelloFails
  <2>1. held \cup Socks!HeldAfterFail1 = held
    BY Zenon DEF Socks!HeldAfterFail1
  <2>2. /\ Same /\ socksState # "freed" /\ is_hupd' = is_hupd /\ sent' = sent
        /\ taken' = taken /\ Socks!ReportError("ERROR", held)
    BY <1>2, <2>1, Zenon DEF Socks!HelloFails, Socks!Keep, Same
  <2> QED BY <1>0, <2>2, ErrorKeeps, Zenon
<1>3. CASE Socks!Connected
  BY Zenon, <1>3, ConnectedKeeps
<1>4. CASE Socks!Blocks
  <2>1. Same /\ waits' \in BOOLEAN /\ is_hupd' \in BOOLEAN /\ (is_hupd' => ~waits')
    BY <1>4, Zenon DEF Socks!Blocks, Socks!Keep, Same, Socks!MayWait, HandInv, HandTyped
  <2>2. UNCHANGED <<socksState, held, misuse, fd, buffer, op, dest, total, done, got, taken,
                    sent, events, upRead>>
    BY <1>4, Zenon DEF Socks!Blocks, Socks!resVars
  <2> QED BY <2>1, <2>2, WatchKeeps, Zenon
<1>5. CASE Socks!HangUp
  <2>1. Same /\ waits' \in BOOLEAN /\ is_hupd' \in BOOLEAN /\ (is_hupd' => ~waits')
    BY <1>5, Zenon DEF Socks!HangUp, Socks!Keep, Same
  <2>2. UNCHANGED <<socksState, held, misuse, fd, buffer, op, dest, total, done, got, taken,
                    sent, events, upRead>>
    BY <1>5, Zenon DEF Socks!HangUp, Socks!resVars
  <2> QED BY <2>1, <2>2, WatchKeeps, Zenon
<1>6. CASE Socks!OperationFails
  <2>1. /\ Same /\ "con" \in held /\ is_hupd' = is_hupd /\ sent' = sent
        /\ taken' = taken /\ Socks!ReportError("ERROR", held)
    BY <1>6, Zenon DEF Socks!OperationFails, Socks!Keep, Same
  <2>2. socksState # "freed"
    BY <2>1, Zenon DEF HandInv, Parts
  <2> QED BY <1>0, <2>1, <2>2, ErrorKeeps, Zenon
<1>7. CASE Socks!StreamEnds
  <2>1. /\ Same /\ op = "recv" /\ is_hupd' = is_hupd /\ sent' = sent
        /\ taken' = taken /\ Socks!ReportError(Socks!ClosedEvent, held)
    BY <1>7, Zenon DEF Socks!StreamEnds, Socks!Keep, Same
  <2>2. socksState # "freed"
    BY <2>1, Zenon DEF HandInv, Placed
  <2>3. /\ Socks!ClosedEvent \in {"ERROR", "ERROR_CLOSED"}
        /\ Socks!ClosedEvent = "ERROR_CLOSED" => socksState = "UP"
    BY Zenon DEF Socks!ClosedEvent
  <2> QED BY <1>0, <2>1, <2>2, <2>3, ErrorKeeps, Zenon
<1>8. ASSUME NEW n \in 1..18, Socks!BytesSent(n) \/ Socks!BytesReceived(n)
      PROVE  HandInv'
  BY <1>8, BytesSentKeeps, BytesReceivedKeeps, Zenon
<1>9. CASE Socks!OwnerReads
  BY Zenon, <1>9, OwnerReadsKeeps
<1>10. CASE Socks!OwnerFrees
  <2>1. /\ Same /\ socksState # "freed" /\ is_hupd' = is_hupd /\ sent' = sent
        /\ taken' = taken /\ events' = events /\ Socks!FreeAll(held)
    BY <1>10, Zenon DEF Socks!OwnerFrees, Socks!Keep, Same
  <2>2. Ended(events')
    BY <2>1, Zenon DEF HandInv, Reported, Ended, Synced
  <2> QED BY <1>0, <2>1, <2>2, FreedKeeps, Zenon
<1>11. CASE Socks!Terminated
  <2>1. UNCHANGED handshakeVars
    BY <1>11, Zenon DEF Socks!Terminated, Socks!vars, Socks!resVars, Socks!opVars, handshakeVars
  <2> QED BY Zenon, <2>1, HandStutter
<1> QED
  BY <1>1, <1>2, <1>3, <1>4, <1>5, <1>6, <1>7, <1>8, <1>9, <1>10, <1>11, Zenon DEF Socks!Next

(* The invariant of the handshake holds at first.                           *)
LEMMA HandInit ==
  ASSUME Socks!Init
  PROVE  HandInv
<1>1. /\ socksState = "CONNECTING" /\ server \in MCServers /\ auth_info \in MCAuthInfos
      /\ held = {"connector"} /\ misuse = FALSE /\ fd = "connector" /\ buffer = 0
      /\ op = "none" /\ waits = FALSE /\ dest = 0 /\ total = 0 /\ done = 0
      /\ is_hupd = FALSE /\ taken = 0 /\ sent = <<>> /\ events = <<>> /\ upRead = <<>>
  BY Zenon DEF Socks!Init
<1>2. HandTyped
  <2>1. Len(Stream) \in Nat
    BY <1>1, StreamFacts, Zenon
  <2>2. buffer \in 0..258 /\ dest \in Nat /\ total \in Nat /\ done \in Nat /\ taken \in Nat /\ taken <= Len(Stream)
    BY <1>1, <2>1
  <2> QED BY <1>1, <2>2, Zenon DEF HandTyped, EndStates
<1>3. Parts
  BY <1>1, Zenon DEF Parts, SendStates, RecvStates
<1>4. Placed
  BY <1>1, Zenon DEF Placed, SendStates, RecvStates
<1>5. Reported
  BY <1>1, Zenon DEF Reported
<1>6. Told
  BY <1>1, Zenon DEF Told
<1>7. Synced
  BY <1>1, Zenon DEF Synced
<1> QED BY <1>2, <1>3, <1>4, <1>5, <1>6, <1>7, Zenon DEF HandInv

(* The invariant of the SOCKS client: which parts there are, what operation *)
(* is in progress, what was sent and reported, and the place in the stream. *)
THEOREM HandshakeInvariant == MCSpec => []HandInv
<1>1. MCInit => HandInv
  BY Zenon, HandInit DEF MCInit
<1>2. HandInv /\ [MCNext]_all => HandInv'
  <2> SUFFICES ASSUME HandInv, [MCNext]_all
               PROVE  HandInv'
    BY Zenon
  <2>1. CASE MCNext
    <3>1. CASE Socks!Next
      BY Zenon, <3>1, HandStep
    <3>2. CASE UNCHANGED handshakeVars
      BY Zenon, <3>2, HandStutter
    <3> QED BY <2>1, <3>1, <3>2, Zenon DEF MCNext
  <2>2. CASE UNCHANGED all
    <3>1. UNCHANGED handshakeVars
      BY <2>2, Zenon DEF all
    <3> QED BY Zenon, <3>1, HandStutter
  <2> QED BY Zenon, <2>1, <2>2
<1> QED BY <1>1, <1>2, PTL DEF MCSpec

-----------------------------------------------------------------------------
(* A sequence that agrees with the beginning of another is its prefix.      *)
LEMMA PrefixIs ==
  ASSUME NEW u \in Seq(Nat), NEW p \in Seq(Nat), Len(u) <= Len(p),
         \A i \in 1..Len(u) : u[i] = p[i]
  PROVE  u = SubSeq(p, 1, Len(u))
<1> DEFINE v == SubSeq(p, 1, Len(u))
<1>1. v \in Seq(Nat) /\ Len(v) = Len(u) /\ \A i \in 1..Len(u) : v[i] = p[i]
  OBVIOUS
<1> HIDE DEF v
<1>2. \A i \in 1..Len(u) : u[i] = v[i]
  BY <1>1, Zenon
<1>3. u \in [1..Len(u) -> Nat] /\ v \in [1..Len(u) -> Nat]
  <2>1. ASSUME NEW z \in Seq(Nat) PROVE z \in [1..Len(z) -> Nat]
    OBVIOUS
  <2>2. v \in [1..Len(v) -> Nat]
    BY <1>1, <2>1, Zenon
  <2> QED BY <1>1, <2>1, <2>2, Zenon
<1>4. u = v
  BY <1>2, <1>3
<1> QED BY <1>4, Zenon DEF v

(* What the invariant says of the handshake.                                *)
LEMMA HandshakeFacts ==
  ASSUME HandInv
  PROVE  /\ Socks!RequestAfterAuth /\ Socks!UpOnlyIfGranted /\ Socks!ReportsInOrder
         /\ Socks!PayloadIntact
<1>s. /\ server \in MCServers /\ taken <= Len(Stream)
  BY Zenon DEF HandInv, HandTyped
<1>t. socksState \in EndStates \cup SendStates \cup RecvStates
  BY Zenon DEF HandInv, HandTyped
<1>h. Authed => /\ Auth \in {2, 4} /\ server.handshake[2] = Stream[2]
                /\ Stream[2] = 2 => server.handshake[4] = 0
                /\ Stream[2] = 0 \/ Stream[2] = 2
  <2>1. /\ Auth \in {2, 4} /\ (Stream[2] = 2 => Auth = 4) /\ Len(Stream) \in Nat
        /\ 2 <= Len(Stream) => Stream[2] = server.handshake[2]
        /\ 4 <= Len(Stream) /\ Stream[2] = 2 => Stream[4] = server.handshake[4]
    BY <1>s, StreamFacts, Zenon
  <2> SUFFICES ASSUME Authed
               PROVE  /\ server.handshake[2] = Stream[2]
                      /\ Stream[2] = 2 => server.handshake[4] = 0
                      /\ Stream[2] = 0 \/ Stream[2] = 2
    BY <2>1, Zenon
  <2>2. Auth <= Len(Stream) /\ (Stream[2] = 0 \/ (Stream[2] = 2 /\ Stream[4] = 0))
    BY Zenon DEF Authed
  <2>3. 2 <= Len(Stream) /\ (Stream[2] = 2 => 4 <= Len(Stream))
    BY <2>1, <2>2
  <2> QED BY Zenon, <2>1, <2>2, <2>3
<1>1. Socks!RequestAfterAuth
  <2>3. \A s \in {<<>>, <<"hello">>, <<"hello", "password">>} :
          /\ s # <<"hello", "request">> /\ s # <<"hello", "password", "request">>
          /\ \A i \in 1..Len(s) : s[i] # "request"
    <3>1. \A i \in 1..Len(<<>>) : <<>>[i] # "request"
      OBVIOUS
    <3>2. \A i \in 1..Len(<<"hello">>) : <<"hello">>[i] # "request"
      OBVIOUS
    <3>3. \A i \in 1..Len(<<"hello", "password">>) : <<"hello", "password">>[i] # "request"
      OBVIOUS
    <3>4. /\ <<>> # <<"hello", "request">> /\ <<>> # <<"hello", "password", "request">>
          /\ <<"hello">> # <<"hello", "request">>
          /\ <<"hello">> # <<"hello", "password", "request">>
      BY Zenon
    <3>5. /\ <<"hello", "password">> # <<"hello", "request">>
          /\ <<"hello", "password">> # <<"hello", "password", "request">>
      BY Zenon
    <3> QED BY <3>1, <3>2, <3>3, <3>4, <3>5, Zenon
  <2>4. CASE sent \in {<<>>, <<"hello">>, <<"hello", "password">>}
    BY <2>3, <2>4, Zenon DEF Socks!RequestAfterAuth
  <2>5. CASE Authed /\ sent = WithRequest /\ Stream[2] = 2
    <3>1. sent = <<"hello", "password", "request">> /\ server.handshake[2] = 2 /\ server.handshake[4] = 0
      BY <1>h, <2>5, Zenon DEF WithRequest
    <3>2. \A i \in 1..Len(sent) : sent[i] = "request" => i = Len(sent) /\ i > 1
      BY <3>1
    <3>3. sent # <<"hello", "request">>
      BY Zenon, <3>1
    <3> QED BY <3>1, <3>2, <3>3, Zenon DEF Socks!RequestAfterAuth
  <2>6. CASE Authed /\ sent = WithRequest /\ Stream[2] = 0
    <3>0. 0 # 2
      OBVIOUS
    <3>1. sent = <<"hello", "request">> /\ server.handshake[2] = 0
      BY <1>h, <2>6, <3>0, Zenon DEF WithRequest
    <3>2. \A i \in 1..Len(sent) : sent[i] = "request" => i = Len(sent) /\ i > 1
      BY <3>1
    <3>3. sent # <<"hello", "password", "request">>
      BY Zenon, <3>1
    <3> QED BY <3>1, <3>2, <3>3, Zenon DEF Socks!RequestAfterAuth
  <2> QED BY <1>h, <2>4, <2>5, <2>6, SentSoFar, Zenon
<1>e. Ended(events)
  BY Zenon DEF HandInv, Reported, Ended, Synced
<1>2. Socks!UpOnlyIfGranted
  <2> SUFFICES ASSUME events # <<>>, Head(events) = "UP"
               PROVE  server.grants /\ Socks!Offered(server.handshake[2])
    BY Zenon DEF Socks!UpOnlyIfGranted
  <2>1. events # <<"ERROR">>
    <3>1. Head(<<"ERROR">>) = "ERROR"
      OBVIOUS
    <3> QED BY <3>1, Zenon
  <2>2. Authed /\ server.grants
    BY <1>e, <2>1, Zenon DEF Ended
  <2> QED BY <1>h, <2>2, Zenon DEF Authed
<1>3. Socks!ReportsInOrder
  <2>2. <<>> # <<"UP">>
    BY Zenon
  <2> QED BY <1>e, <2>2, Zenon DEF HandInv, Reported, Ended, Socks!ReportsInOrder
<1>4. Socks!PayloadIntact
  <2> SUFFICES ASSUME socksState = "UP"
               PROVE  /\ upRead = SubSeq(server.payload, 1, Len(upRead))
                      /\ taken = Len(server.handshake) + Len(upRead)
    BY Zenon DEF Socks!PayloadIntact
  <2>1. /\ upRead \in Seq(Nat) /\ taken = Len(server.handshake) + Len(upRead)
        /\ \A i \in 1..Len(upRead) : upRead[i] = server.payload[i]
    BY Zenon DEF HandInv, Synced
  <2>2. /\ server.handshake \in Seq(Nat) /\ server.payload \in Seq(Nat)
        /\ Len(Stream) = Len(server.handshake) + Len(server.payload)
    BY <1>s, StreamFacts, Zenon
  <2>3. Len(upRead) <= Len(server.payload)
    BY <1>s, <2>1, <2>2
  <2>4. upRead = SubSeq(server.payload, 1, Len(upRead))
    BY <2>1, <2>2, <2>3, PrefixIs, Zenon
  <2> QED BY <2>1, <2>4, Zenon
<1> QED BY <1>1, <1>2, <1>3, <1>4, Zenon

(* The parts of the SOCKS client, the operation in progress and the buffer. *)
LEMMA HandSafe ==
  ASSUME HandInv
  PROVE  /\ Socks!TypeOK /\ Socks!PartsFreedOnce /\ Socks!OperationInBuffer
         /\ Socks!NoWaitAfterHup
<1>1. HandTyped /\ Parts /\ Placed
  BY Zenon DEF HandInv
<1>2. /\ buffer \in 0..258 /\ dest \in Nat /\ total \in Nat /\ done \in Nat /\ taken \in Nat
      /\ taken <= Len(Stream) /\ server \in MCServers
  BY <1>1, Zenon DEF HandTyped
<1>3. \/ socksState \in {"CONNECTING", "freed"}
      \/ socksState \in SendStates \cup RecvStates
      \/ socksState = "UP"
  BY <1>1, Zenon DEF HandTyped, EndStates
<1>4. done <= total /\ op \in {"none", "send", "recv"}
  <2>1. CASE socksState \in {"CONNECTING", "freed"}
    <3>1. op = "none" /\ total = 0 /\ done = 0
      BY <1>1, <2>1, Zenon DEF Placed
    <3> QED BY <3>1
  <2>2. CASE socksState \in SendStates \cup RecvStates
    <3>1. op \in {"send", "recv"} /\ done < total
      BY <1>1, <2>2, Zenon DEF Placed
    <3> QED BY <1>2, <3>1
  <2>3. CASE socksState = "UP"
    <3>1. op \in {"none", "recv"} /\ done = 0
      BY <1>1, <2>3, Zenon DEF Placed
    <3> QED BY <1>2, <3>1
  <2> QED BY Zenon, <1>3, <2>1, <2>2, <2>3
<1>5. done \in 0..total /\ taken \in 0..Len(Stream)
  <2>1. Len(Stream) \in Nat
    BY <1>2, StreamFacts, Zenon
  <2> QED BY <1>2, <1>4, <2>1
<1>6. /\ held \subseteq {"connector", "con", "control", "up"}
      /\ fd \in {"connector", "con", "closed"} /\ misuse = FALSE
  BY <1>1, <1>3, Zenon DEF Parts
<1>7. Socks!TypeOK
  <2>1. socksState \in {"CONNECTING", "SENDING_HELLO", "SENT_HELLO",
                "SENDING_PASSWORD", "SENT_PASSWORD", "SENDING_REQUEST",
                "SENT_REQUEST", "RECEIVED_REPLY_HEADER", "UP", "freed"}
    BY <1>3, Zenon DEF SendStates, RecvStates
  <2>2. {waits, is_hupd, misuse} \subseteq BOOLEAN
    BY <1>1, <1>6, Zenon DEF HandTyped
  <2> QED BY <1>2, <1>4, <1>5, <1>6, <2>1, <2>2, Zenon DEF Socks!TypeOK, Stream
<1>8. Socks!PartsFreedOnce
  BY <1>1, Zenon DEF Parts, Socks!PartsFreedOnce
<1>9. Socks!OperationInBuffer
  <2> SUFFICES ASSUME socksState \notin {"CONNECTING", "UP", "freed"}
               PROVE  op # "none" /\ done < total /\ dest + total <= buffer
    BY Zenon DEF Socks!OperationInBuffer
  <2>1. CASE socksState \in SendStates
    <3>1. op = "send" /\ dest = 0 /\ total = buffer /\ done < total
      BY <1>1, <2>1, Zenon DEF Placed
    <3> QED BY <1>2, <3>1
  <2>2. CASE socksState \in RecvStates
    <3>1. op = "recv" /\ done < total
      BY <1>1, <2>2, Zenon DEF Placed
    <3>2. CASE socksState \in {"SENT_HELLO", "SENT_PASSWORD"}
      <4>1. dest = 0 /\ total = 2 /\ buffer = 2
        BY <1>1, <3>2, Zenon DEF Placed
      <4> QED BY <3>1, <4>1
    <3>3. CASE socksState = "SENT_REQUEST"
      <4>1. dest = 0 /\ total = 4 /\ buffer = 22
        BY <1>1, <3>3, Zenon DEF Placed
      <4> QED BY <3>1, <4>1
    <3>4. CASE socksState = "RECEIVED_REPLY_HEADER"
      <4>1. dest = 4 /\ total = Socks!AddrLen(Stream[Auth + 4]) /\ buffer = 22 /\ Granted
        BY <1>1, <3>4, Zenon DEF Placed, HandInv, Synced
      <4>2. total <= 18
        BY <4>1, <1>2 DEF Socks!AddrLen
      <4> QED BY <1>2, <3>1, <4>1, <4>2
    <3> QED BY <2>2, <3>2, <3>3, <3>4, Zenon DEF RecvStates
  <2> QED BY <1>3, <2>1, <2>2, Zenon
<1>10. Socks!NoWaitAfterHup
  BY <1>1, Zenon DEF HandTyped, Socks!NoWaitAfterHup
<1> QED BY Zenon, <1>7, <1>8, <1>9, <1>10

(* The handshake follows the protocol, however the server's bytes are cut   *)
(* into portions: the request is sent after the authentication, UP is       *)
(* reported once and only if the server granted the request with a method   *)
(* that was offered, and the owner reads exactly what follows the reply.    *)
(* BSocksClient_Free finds each part once, and what control I/O reads or    *)
(* writes stays in the buffer.                                              *)
THEOREM HandshakeIsCorrect == MCSpec => []HandshakeCorrect
<1>1. ASSUME HandInv PROVE HandshakeCorrect
  <2>1. /\ Socks!RequestAfterAuth /\ Socks!UpOnlyIfGranted /\ Socks!ReportsInOrder
        /\ Socks!PayloadIntact
    BY <1>1, HandshakeFacts, Zenon
  <2>2. /\ Socks!TypeOK /\ Socks!PartsFreedOnce /\ Socks!OperationInBuffer
        /\ Socks!NoWaitAfterHup
    BY <1>1, HandSafe, Zenon
  <2> QED BY <2>1, <2>2, Zenon DEF HandshakeCorrect
<1> QED BY <1>1, HandshakeInvariant, PTL
-----------------------------------------------------------------------------
(* The UDP relay.                                                           *)
Packet == [local : Local, remote : Remote, dns : BOOLEAN]
Letter == [content : Nat, to : Remote \cup {0}, header : BOOLEAN]
Link   == [id : Nat, remote : Remote \cup {0}, dns : BOOLEAN, gateway : {"dns", "socks"},
           ready : BOOLEAN, queue : Seq(Letter), wire : SUBSET Letter]

(* A message of the connection c of l is a packet of l, for the address it  *)
(* was for.  Unless l has sent both kinds (is in loose) it is of the kind   *)
(* of c, and unless l has asked two DNS servers (is in mixed) a query is    *)
(* for the address that c has.                                              *)
Sane(rd, c, l, loose, mixed, m) ==
  /\ m.content \in 1..Len(rd)
  /\ rd[m.content].local = l /\ m.to = rd[m.content].remote
  /\ l \notin loose => m.header = ~c.dns /\ rd[m.content].dns = c.dns
  /\ l \notin loose \cup mixed /\ c.dns => rd[m.content].remote = c.remote

InIt(c) == c.wire \cup Udp!Range(c.queue)

Held(rd, c, l, lost, loose, mixed) ==
  \/ c = Udp!None
  \/ /\ c.id \in 1..Len(rd) /\ rd[c.id].local = l /\ c.id \notin lost
     /\ l \notin loose => c.gateway = IF c.dns THEN "dns" ELSE "socks"
     /\ \A m \in InIt(c) : Sane(rd, c, l, loose, mixed, m)

(* The jobs: what is left to do for the packet in the buffer, of which the  *)
(* device is the last.  A packet that opens a connection is not in its      *)
(* queue before its job has run.                                            *)
DeviceJob   == [job |-> "device", id |-> 0]
ReadyJob(p) == [job |-> "ready", id |-> p]
FirstJob(p) == [job |-> "first", id |-> p]

Opening(l) ==
  /\ con[l].id = Len(read) /\ Len(read) > 0 /\ con[l].queue = <<>> /\ con[l].wire = {}
  /\ con[l].remote = read[Len(read)].remote /\ con[l].dns = read[Len(read)].dns

JobsAre ==
  \/ jobs = <<>> /\ reading
  \/ jobs = <<DeviceJob>> /\ ~reading
  \/ /\ jobs = <<FirstJob(Len(read)), DeviceJob>> /\ ~reading
     /\ \E l \in Local : Opening(l) /\ con[l].ready
  \/ /\ jobs = <<ReadyJob(Len(read)), FirstJob(Len(read)), DeviceJob>> /\ ~reading
     /\ \E l \in Local : Opening(l)

UdpTyped ==
  /\ read \in Seq(Packet) /\ con \in [Local -> Link]
  /\ packet = Len(read) /\ dropped \subseteq 1..Len(read)

AllHeld == \A l \in Local : Held(read, con[l], l, dropped, retyped, remixed)

Answered(rd, d, loose, mixed) ==
  /\ d.content \in 1..Len(rd)
  /\ rd[d.content].local \notin loose \cup mixed => d.from = rd[d.content].remote /\ ~d.raw

AllAnswered == \A d \in delivered : Answered(read, d, retyped, remixed)

UdpInv == UdpTyped /\ JobsAre /\ AllHeld /\ AllAnswered

-----------------------------------------------------------------------------
(* The messages of a queue that one is added to or taken from.              *)
LEMMA QueueOps ==
  ASSUME NEW q \in Seq(Letter)
  PROVE  /\ Udp!Range(q) \subseteq Letter
         /\ \A m \in Letter : /\ Append(q, m) \in Seq(Letter)
                              /\ Udp!Range(Append(q, m)) = Udp!Range(q) \cup {m}
         /\ q # <<>> => /\ Tail(q) \in Seq(Letter) /\ Udp!Range(Tail(q)) \subseteq Udp!Range(q)
                        /\ Head(q) \in Udp!Range(q)
<1>0. \A s \in Seq(Letter) : Udp!Range(s) = {s[i] : i \in 1..Len(s)}
  BY DEF Udp!Range
<1>1. Udp!Range(q) \subseteq Letter
  BY <1>0
<1>2. ASSUME NEW m \in Letter
      PROVE  Append(q, m) \in Seq(Letter) /\ Udp!Range(Append(q, m)) = Udp!Range(q) \cup {m}
  <2> DEFINE s == Append(q, m)
  <2>1. /\ s \in Seq(Letter) /\ Len(s) = Len(q) + 1 /\ s[Len(q) + 1] = m
        /\ \A i \in 1..Len(q) : s[i] = q[i]
    OBVIOUS
  <2>2. Len(q) \in Nat
    OBVIOUS
  <2> HIDE DEF s
  <2>3. 1..Len(s) = (1..Len(q)) \cup {Len(q) + 1}
    BY <2>1, <2>2
  <2>4. {s[i] : i \in 1..Len(s)} = {q[i] : i \in 1..Len(q)} \cup {m}
    <3>1. \A i \in 1..Len(q) : i \in 1..Len(s)
      BY <2>3, Zenon
    <3>2. Len(q) + 1 \in 1..Len(s)
      BY <2>3, Zenon
    <3>3. \A x \in {q[i] : i \in 1..Len(q)} \cup {m} : x \in {s[i] : i \in 1..Len(s)}
      BY <2>1, <3>1, <3>2, Zenon
    <3>4. \A i \in 1..Len(s) : s[i] \in {q[j] : j \in 1..Len(q)} \cup {m}
      BY <2>1, <2>3, Zenon
    <3> QED BY <3>3, <3>4, Zenon
  <2> QED BY <1>0, <2>1, <2>4, Zenon DEF s
<1>3. ASSUME q # <<>>
      PROVE  /\ Tail(q) \in Seq(Letter) /\ Udp!Range(Tail(q)) \subseteq Udp!Range(q)
             /\ Head(q) \in Udp!Range(q)
  <2> DEFINE s == Tail(q)
  <2>1. /\ s \in Seq(Letter) /\ Len(s) = Len(q) - 1 /\ Len(q) \in Nat /\ Len(q) > 0
        /\ \A i \in 1..Len(s) : s[i] = q[i + 1]
        /\ Head(q) = q[1]
    BY <1>3
  <2> HIDE DEF s
  <2>2. 1 \in 1..Len(q) /\ \A i \in 1..Len(s) : i + 1 \in 1..Len(q)
    BY <2>1
  <2>3. /\ {s[i] : i \in 1..Len(s)} \subseteq {q[i] : i \in 1..Len(q)}
        /\ Head(q) \in {q[i] : i \in 1..Len(q)}
    <3>1. ASSUME NEW i \in 1..Len(s)
          PROVE  s[i] \in {q[j] : j \in 1..Len(q)}
      <4>1. s[i] = q[i + 1] /\ i + 1 \in 1..Len(q)
        BY <2>1, <2>2, Zenon
      <4> QED BY <4>1, Zenon
    <3> QED BY <2>1, <2>2, <3>1, Zenon
  <2> QED BY <1>0, <2>1, <2>3, Zenon DEF s
<1> QED BY <1>1, <1>2, <1>3, Zenon

(* A packet more: what was said of the others stays true.                   *)
Longer(rd, rd2) ==
  /\ rd \in Seq(Packet) /\ rd2 \in Seq(Packet) /\ Len(rd2) = Len(rd) + 1
  /\ \A i \in 1..Len(rd) : i \in 1..Len(rd2) /\ rd2[i] = rd[i]
  /\ Len(rd) + 1 \in 1..Len(rd2) /\ Len(rd) + 1 \notin 1..Len(rd)

(* A packet more.                                                           *)
LEMMA AppendLonger ==
  ASSUME NEW rd \in Seq(Packet), NEW x \in Packet
  PROVE  Longer(rd, Append(rd, x)) /\ Append(rd, x)[Len(rd) + 1] = x
<1> DEFINE s == Append(rd, x)
<1>1. /\ s \in Seq(Packet) /\ Len(s) = Len(rd) + 1 /\ s[Len(rd) + 1] = x
      /\ \A i \in 1..Len(rd) : s[i] = rd[i]
  OBVIOUS
<1>2. Len(rd) \in Nat
  OBVIOUS
<1> HIDE DEF s
<1>3. /\ \A i \in 1..Len(rd) : i \in 1..Len(s)
      /\ Len(rd) + 1 \in 1..Len(s) /\ Len(rd) + 1 \notin 1..Len(rd)
  BY <1>1, <1>2
<1> QED BY <1>1, <1>3, Zenon DEF s, Longer

(* A packet more changes nothing for a connection and its messages.         *)
LEMMA HeldStays ==
  ASSUME NEW k \in Local, con'[k] = con[k], Longer(read, read'),
         dropped' \subseteq dropped \cup {Len(read) + 1}, retyped \subseteq retyped',
         remixed \subseteq remixed', Held(read, con[k], k, dropped, retyped, remixed)
  PROVE  Held(read', con'[k], k, dropped', retyped', remixed')
<1>1. CASE con[k] = Udp!None
  BY <1>1, Zenon DEF Held
<1>2. CASE con[k] # Udp!None
  <2>1. /\ con[k].id \in 1..Len(read) /\ read[con[k].id].local = k /\ con[k].id \notin dropped
        /\ k \notin retyped => con[k].gateway = IF con[k].dns THEN "dns" ELSE "socks"
        /\ \A m \in InIt(con[k]) : Sane(read, con[k], k, retyped, remixed, m)
    BY <1>2, Zenon DEF Held
  <2>2. /\ con[k].id \in 1..Len(read') /\ read'[con[k].id].local = k /\ con[k].id # Len(read) + 1
    BY <2>1, Zenon DEF Longer
  <2>3. \A m \in InIt(con[k]) : Sane(read', con[k], k, retyped', remixed', m)
    <3> SUFFICES ASSUME NEW m \in InIt(con[k])
                 PROVE  Sane(read', con[k], k, retyped', remixed', m)
      BY Zenon
    <3>1. Sane(read, con[k], k, retyped, remixed, m)
      BY <2>1, Zenon
    <3>2. m.content \in 1..Len(read') /\ read'[m.content] = read[m.content]
      BY <3>1, Zenon DEF Longer, Sane
    <3> QED BY <3>1, <3>2, Zenon DEF Sane
  <2> QED BY <2>1, <2>2, <2>3, Zenon DEF Held
<1> QED BY Zenon, <1>1, <1>2

(* Nor does it for the answers.                                             *)
LEMMA AnswerStays ==
  ASSUME NEW d, Longer(read, read'), retyped \subseteq retyped', remixed \subseteq remixed',
         Answered(read, d, retyped, remixed)
  PROVE  Answered(read', d, retyped', remixed')
  BY Zenon DEF Longer, Answered

-----------------------------------------------------------------------------
(* The fields of a connection that changes.                                 *)
LEMMA LinkFields ==
  ASSUME NEW c \in Link
  PROVE  /\ c.id \in Nat /\ c.remote \in Remote \cup {0} /\ c.dns \in BOOLEAN
         /\ c.gateway \in {"dns", "socks"} /\ c.ready \in BOOLEAN /\ c.queue \in Seq(Letter)
         /\ c.wire \subseteq Letter
  BY Zenon DEF Link

Retargeted(c, to, is_dns) == [c EXCEPT !.remote = to, !.dns = is_dns]
Queued(c, q)      == [c EXCEPT !.queue = q]
Readied(c)        == [c EXCEPT !.ready = TRUE]
Rewired(c, q, w, to) == [c EXCEPT !.queue = q, !.wire = w, !.remote = to]

(* A connection with another queue.                                         *)
LEMMA QueuedFields ==
  ASSUME NEW c \in Link, NEW q \in Seq(Letter)
  PROVE  LET r == Queued(c, q)
         IN /\ r \in Link /\ r.id = c.id /\ r.remote = c.remote /\ r.dns = c.dns
            /\ r.gateway = c.gateway /\ r.ready = c.ready /\ r.queue = q /\ r.wire = c.wire
  BY Zenon DEF Link, Queued

(* A connection that is ready.                                              *)
LEMMA ReadiedFields ==
  ASSUME NEW c \in Link
  PROVE  LET r == Readied(c)
         IN /\ r \in Link /\ r.id = c.id /\ r.remote = c.remote /\ r.dns = c.dns
            /\ r.gateway = c.gateway /\ r.ready = TRUE /\ r.queue = c.queue /\ r.wire = c.wire
  BY Zenon DEF Link, Readied

(* A connection with another queue, other messages on the wire and another  *)
(* address.                                                                 *)
LEMMA RewiredFields ==
  ASSUME NEW c \in Link, NEW q \in Seq(Letter), NEW w \in SUBSET Letter,
         NEW to \in Remote \cup {0}
  PROVE  LET r == Rewired(c, q, w, to)
         IN /\ r \in Link /\ r.id = c.id /\ r.remote = to /\ r.dns = c.dns
            /\ r.gateway = c.gateway /\ r.ready = c.ready /\ r.queue = q /\ r.wire = w
  BY Zenon DEF Link, Rewired

(* No connection has the number zero.                                       *)
LEMMA NoneIs == Udp!None \in Link /\ Udp!None.id = 0
<1>1. <<>> \in Seq(Letter)
  OBVIOUS
<1> QED BY Zenon, <1>1 DEF Link, Udp!None, Udp!Connection

(* A connection with nothing queued and nothing on the wire has no message. *)
LEMMA EmptyLink ==
  ASSUME NEW c, c.queue = <<>>, c.wire = {}
  PROVE  InIt(c) = {}
<1>1. Udp!Range(<<>>) = {}
  BY DEF Udp!Range
<1> QED BY <1>1, Zenon DEF InIt

(* What holds of a connection that is open.                                 *)
LEMMA OpenIs ==
  ASSUME NEW rd, NEW c, NEW l, NEW lost, NEW loose, NEW mixed,
         Held(rd, c, l, lost, loose, mixed), c # Udp!None
  PROVE  /\ c.id \in 1..Len(rd) /\ rd[c.id].local = l /\ c.id \notin lost
         /\ l \notin loose => c.gateway = IF c.dns THEN "dns" ELSE "socks"
         /\ \A m \in InIt(c) : Sane(rd, c, l, loose, mixed, m)
  BY Zenon DEF Held

-----------------------------------------------------------------------------
(* The stack of jobs.                                                       *)
Job == [job : {"device", "ready", "first"}, id : Nat]

(* The first of up to three jobs, and the others.                           *)
LEMMA JobStack ==
  ASSUME NEW a \in Job, NEW b \in Job, NEW c \in Job
  PROVE  /\ Head(<<a>>) = a /\ Tail(<<a>>) = <<>>
         /\ Head(<<a, b>>) = a /\ Tail(<<a, b>>) = <<b>>
         /\ Head(<<a, b, c>>) = a /\ Tail(<<a, b, c>>) = <<b, c>>
         /\ <<a>> \o <<>> = <<a>> /\ (<<a, b>> \o <<c>>) \o <<>> = <<a, b, c>>
<1>1. Head(<<a>>) = a /\ Tail(<<a>>) = <<>>
  OBVIOUS
<1>2. Head(<<a, b>>) = a /\ Tail(<<a, b>>) = <<b>>
  OBVIOUS
<1>3. Head(<<a, b, c>>) = a
  OBVIOUS
<1>4. Tail(<<a, b, c>>) = <<b, c>>
  <2> DEFINE x == Tail(<<a, b, c>>)
             y == <<b, c>>
  <2>1. x \in Seq(Job) /\ Len(x) = 2 /\ x[1] = b /\ x[2] = c
    OBVIOUS
  <2>2. y \in Seq(Job) /\ Len(y) = 2 /\ y[1] = b /\ y[2] = c
    OBVIOUS
  <2> HIDE DEF x, y
  <2>3. x = y
    BY <2>1, <2>2
  <2> QED BY <2>3, Zenon DEF x, y
<1>5. <<a>> \o <<>> = <<a>>
  OBVIOUS
<1>6. <<a, b>> \o <<c>> = <<a, b, c>>
  <2> DEFINE x == <<a, b>> \o <<c>>
             y == <<a, b, c>>
  <2>1. x \in Seq(Job) /\ Len(x) = 3 /\ x[1] = a /\ x[2] = b /\ x[3] = c
    OBVIOUS
  <2>2. y \in Seq(Job) /\ Len(y) = 3 /\ y[1] = a /\ y[2] = b /\ y[3] = c
    OBVIOUS
  <2> HIDE DEF x, y
  <2>3. x = y
    BY <2>1, <2>2
  <2> QED BY <2>3, Zenon DEF x, y
<1>7. <<a, b, c>> \o <<>> = <<a, b, c>>
  OBVIOUS
<1> QED BY <1>1, <1>2, <1>3, <1>4, <1>5, <1>6, <1>7, Zenon

(* The kinds of jobs.                                                       *)
LEMMA JobsDiffer ==
  ASSUME NEW p \in Nat
  PROVE  /\ DeviceJob \in Job /\ ReadyJob(p) \in Job /\ FirstJob(p) \in Job
         /\ DeviceJob.job = "device" /\ ReadyJob(p).job = "ready" /\ FirstJob(p).job = "first"
         /\ DeviceJob.id = 0 /\ ReadyJob(p).id = p /\ FirstJob(p).id = p
  BY Zenon DEF DeviceJob, ReadyJob, FirstJob, Job

(* While the device reads there is no job.                                  *)
LEMMA NoJobs ==
  ASSUME JobsAre
  PROVE  reading => jobs = <<>>
  BY Zenon DEF JobsAre

(* SubmitPacket: a packet for an open connection, or the first of a new     *)
(* one.                                                                     *)
LEMMA SubmitKeeps ==
  ASSUME UdpInv, NEW l \in Local, NEW to \in Remote, NEW is_dns \in BOOLEAN,
         NEW ok \in BOOLEAN, Udp!SubmitPacket(l, to, is_dns, ok)
  PROVE  UdpInv'
<1> DEFINE p == Len(read) + 1
           x == [local |-> l, remote |-> to, dns |-> is_dns]
<1>0. /\ reading /\ reading' = FALSE /\ packet' = p /\ read' = Append(read, x)
      /\ delivered' = delivered
  BY Zenon DEF Udp!SubmitPacket
<1>1. jobs = <<>>
  BY <1>0, NoJobs, Zenon DEF UdpInv
<1>2. /\ read \in Seq(Packet) /\ con \in [Local -> Link] /\ dropped \subseteq 1..Len(read)
  BY Zenon DEF UdpInv, UdpTyped
<1>3. x \in Packet /\ x.local = l /\ x.remote = to /\ x.dns = is_dns
  BY DEF Packet
<1>4. Longer(read, read') /\ read'[p] = x
  BY <1>0, <1>2, <1>3, AppendLonger, Zenon
<1>5. /\ Len(read') = p /\ p \in 1..Len(read') /\ p \notin 1..Len(read) /\ read' \in Seq(Packet)
      /\ \A i \in 1..Len(read) : i \in 1..Len(read')
  BY <1>4, Zenon DEF Longer
<1>6. p \in Nat /\ p > 0
  BY <1>2
<1>7. \A k \in Local : Held(read, con[k], k, dropped, retyped, remixed) /\ con[k] \in Link
  BY <1>2, Zenon DEF UdpInv, AllHeld
<1>8. to \in Remote \cup {0}
  OBVIOUS
<1> HIDE DEF p, x
<1>9. ASSUME retyped \subseteq retyped', remixed \subseteq remixed'
      PROVE  AllAnswered'
  <2>1. \A d \in delivered : Answered(read, d, retyped, remixed)
    BY Zenon DEF UdpInv, AllAnswered
  <2>2. ASSUME NEW d \in delivered
        PROVE  Answered(read', d, retyped', remixed')
    BY <1>4, <1>9, <2>1, AnswerStays, Zenon
  <2> QED BY <1>0, <2>2, Zenon DEF AllAnswered
<1>10. CASE con[l] = Udp!None
  <2> DEFINE left == [m \in Local |-> IF m \in Udp!Evicted THEN Udp!None ELSE con[m]]
  <2>0. Udp!NewConnection(p, l, to, is_dns, ok) /\ retyped' = retyped /\ remixed' = remixed
    BY <1>10, Zenon DEF Udp!SubmitPacket, p
  <2>1. /\ left \in [Local -> Link]
        /\ \A m \in Local : left[m] = Udp!None \/ left[m] = con[m]
    BY <1>7, NoneIs, Zenon
  <2>2. CASE ok
    <3>1. /\ con' = [left EXCEPT ![l] = Udp!Connection(p, to, is_dns)] /\ dropped' = dropped
          /\ jobs' = (Udp!InitJobs(p) \o <<DeviceJob>>) \o jobs
      BY <2>0, <2>2, Zenon DEF Udp!NewConnection, DeviceJob
    <3> HIDE DEF left
    <3>2. PICK c : c = Udp!Connection(p, to, is_dns)
      BY Zenon
    <3>3. /\ c \in Link /\ c.id = p /\ c.remote = to /\ c.dns = is_dns
          /\ c.gateway = (IF is_dns THEN "dns" ELSE "socks")
          /\ c.ready = FALSE /\ c.queue = <<>> /\ c.wire = {}
      <4>1. <<>> \in Seq(Letter)
        OBVIOUS
      <4> QED BY Zenon, <1>6, <3>2, <4>1 DEF Link, Udp!Connection
    <3>4. con' \in [Local -> Link] /\ con'[l] = c /\ \A m \in Local \ {l} : con'[m] = left[m]
      BY <2>1, <3>1, <3>2, <3>3, Zenon
    <3>5. UdpTyped'
      BY <1>0, <1>2, <1>5, <3>1, <3>4, Zenon DEF UdpTyped
    <3>6. JobsAre'
      <4>1. Udp!InitJobs(p) = <<ReadyJob(p), FirstJob(p)>>
        BY Zenon DEF Udp!InitJobs, ReadyJob, FirstJob
      <4>2. jobs' = <<ReadyJob(p), FirstJob(p), DeviceJob>>
        <5>1. DeviceJob \in Job /\ ReadyJob(p) \in Job /\ FirstJob(p) \in Job
          BY <1>6, JobsDiffer, Zenon
        <5>2. (<<ReadyJob(p), FirstJob(p)>> \o <<DeviceJob>>) \o <<>>
                = <<ReadyJob(p), FirstJob(p), DeviceJob>>
          BY <5>1, JobStack, Zenon
        <5> QED BY <1>1, <3>1, <4>1, <5>2, Zenon
      <4>3. Opening(l)'
        BY <1>3, <1>4, <1>5, <1>6, <3>3, <3>4, Zenon DEF Opening
      <4> QED BY <1>0, <1>5, <4>2, <4>3, Zenon DEF JobsAre
    <3>7. ASSUME NEW k \in Local
          PROVE  Held(read', con'[k], k, dropped', retyped', remixed')
      <4>1. CASE k = l
        <5>1. InIt(c) = {}
          BY <3>3, EmptyLink, Zenon
        <5>2. c.id \in 1..Len(read') /\ read'[c.id].local = l /\ c.id \notin dropped'
          BY <1>2, <1>3, <1>4, <1>5, <3>1, <3>3, Zenon
        <5>3. c.gateway = IF c.dns THEN "dns" ELSE "socks"
          BY Zenon, <3>3
        <5> QED BY <3>4, <4>1, <5>1, <5>2, <5>3, Zenon DEF Held
      <4>2. CASE k # l /\ con'[k] = Udp!None
        BY <4>2, Zenon DEF Held
      <4>3. CASE k # l /\ con'[k] = con[k]
        <5>1. /\ dropped' \subseteq dropped \cup {Len(read) + 1}
              /\ retyped \subseteq retyped' /\ remixed \subseteq remixed'
          BY <2>0, <3>1, Zenon
        <5> QED BY <1>4, <1>7, <4>3, <5>1, HeldStays, Zenon
      <4> QED BY <2>1, <3>4, <4>1, <4>2, <4>3, Zenon
    <3> QED BY <1>9, <2>0, <3>5, <3>6, <3>7, Zenon DEF UdpInv, AllHeld
  <2>3. CASE ~ok
    <3>1. /\ con' = left /\ dropped' = dropped \cup {p} /\ jobs' = <<DeviceJob>> \o jobs
      BY <2>0, <2>3, Zenon DEF Udp!NewConnection, DeviceJob
    <3> HIDE DEF left
    <3>2. UdpTyped'
      BY <1>0, <1>2, <1>5, <2>1, <3>1, Zenon DEF UdpTyped
    <3>3. JobsAre'
      BY <1>0, <1>1, <1>6, <3>1, JobStack, JobsDiffer, Zenon DEF JobsAre
    <3>4. ASSUME NEW k \in Local
          PROVE  Held(read', con'[k], k, dropped', retyped', remixed')
      <4>1. CASE con'[k] = Udp!None
        BY <4>1, Zenon DEF Held
      <4>2. CASE con'[k] = con[k]
        <5>1. /\ dropped' \subseteq dropped \cup {Len(read) + 1}
              /\ retyped \subseteq retyped' /\ remixed \subseteq remixed'
          BY <2>0, <3>1, Zenon DEF p
        <5> QED BY <1>4, <1>7, <4>2, <5>1, HeldStays, Zenon
      <4> QED BY <2>1, <3>1, <4>1, <4>2, Zenon
    <3> QED BY <1>9, <2>0, <3>2, <3>3, <3>4, Zenon DEF UdpInv, AllHeld
  <2> QED BY Zenon, <2>2, <2>3
<1>11. CASE con[l] # Udp!None
  <2>0. /\ Udp!Resend(p, l, to, is_dns)
        /\ retyped' = IF con[l].dns # is_dns THEN retyped \cup {l} ELSE retyped
        /\ remixed' = IF con[l].dns /\ con[l].remote # to THEN remixed \cup {l} ELSE remixed
    BY <1>11, Zenon DEF Udp!SubmitPacket, p
  <2>1. PICK c : c = Retargeted(con[l], to, is_dns)
    BY Zenon
  <2>2. /\ c \in Link /\ c.id = con[l].id /\ c.remote = to /\ c.dns = is_dns
        /\ c.gateway = con[l].gateway /\ c.ready = con[l].ready /\ c.queue = con[l].queue
        /\ c.wire = con[l].wire
    <3>1. PICK c0 : c0 = con[l] /\ c0 \in Link
      BY <1>7, Zenon
    <3>2. /\ c \in Link /\ c.id = c0.id /\ c.remote = to /\ c.dns = is_dns
          /\ c.gateway = c0.gateway /\ c.ready = c0.ready /\ c.queue = c0.queue
          /\ c.wire = c0.wire
      BY Zenon, <2>1, <3>1 DEF Retargeted, Link
    <3> QED BY <3>1, <3>2, Zenon
  <2>3. /\ retyped \subseteq retyped' /\ remixed \subseteq remixed'
        /\ con[l].dns # is_dns => l \in retyped'
        /\ con[l].dns /\ con[l].remote # to => l \in remixed'
    BY <2>0, Zenon
  <2>4. /\ jobs' = <<DeviceJob>> \o jobs
        /\ dropped' = dropped \/ dropped' = dropped \cup {p}
        /\ \/ con' = [con EXCEPT ![l] = Queued(c, Append(c.queue, Udp!Message(c, p)))]
           \/ con' = [con EXCEPT ![l] = c]
    BY <2>0, <2>1, Zenon DEF Udp!Resend, DeviceJob, Retargeted, Queued
  <2>5. JobsAre'
    BY <1>0, <1>1, <1>6, <2>4, JobStack, JobsDiffer, Zenon DEF JobsAre
  <2>6. PICK w : w = Udp!Message(c, p)
    BY Zenon
  <2>7. w \in Letter /\ w.content = p /\ w.to = to /\ w.header = ~is_dns
    BY Zenon, <1>6, <2>2, <2>6 DEF Udp!Message, Letter
  <2>8. PICK c1 : con' = [con EXCEPT ![l] = c1] /\ (c1 = c \/ c1 = Queued(c, Append(c.queue, w)))
    BY <2>4, <2>6, Zenon
  <2>9. /\ c1 \in Link /\ c1.id = con[l].id /\ c1.remote = to /\ c1.dns = is_dns
        /\ c1.gateway = con[l].gateway /\ InIt(c1) \subseteq InIt(con[l]) \cup {w}
    <3>1. con[l].queue \in Seq(Letter)
      BY <1>7, LinkFields, Zenon
    <3>2. CASE c1 = c
      BY <2>2, <3>2, Zenon DEF InIt
    <3>3. CASE c1 = Queued(c, Append(c.queue, w))
      <4>1. /\ Append(c.queue, w) \in Seq(Letter)
            /\ Udp!Range(Append(c.queue, w)) = Udp!Range(c.queue) \cup {w}
        BY <2>2, <2>7, <3>1, QueueOps, Zenon
      <4>2. /\ c1 \in Link /\ c1.id = c.id /\ c1.remote = c.remote /\ c1.dns = c.dns
            /\ c1.gateway = c.gateway /\ c1.queue = Append(c.queue, w) /\ c1.wire = c.wire
        BY <2>2, <3>3, <4>1, QueuedFields, Zenon
      <4> QED BY <2>2, <4>1, <4>2, Zenon DEF InIt
    <3> QED BY <2>8, <3>2, <3>3, Zenon
  <2>10. con' \in [Local -> Link] /\ con'[l] = c1 /\ \A k \in Local \ {l} : con'[k] = con[k]
    BY <1>2, <2>8, <2>9, Zenon
  <2>11. UdpTyped'
    BY <1>0, <1>2, <1>5, <2>4, <2>10, Zenon DEF UdpTyped
  <2>12. dropped' \subseteq dropped \cup {Len(read) + 1}
    BY <2>4, Zenon DEF p
  <2>13. ASSUME NEW k \in Local
         PROVE  Held(read', con'[k], k, dropped', retyped', remixed')
    <3>1. CASE k # l
      <4>1. con'[k] = con[k]
        BY <2>10, <3>1, Zenon
      <4> QED BY <1>4, <1>7, <2>3, <2>12, <4>1, HeldStays, Zenon
    <3>2. CASE k = l
      <4>1. Sane(read', c1, l, retyped', remixed', w)
        BY <1>3, <1>4, <1>5, <2>7, <2>9, Zenon DEF Sane
      <4>2. Held(read', c1, l, dropped', retyped', remixed')
        <5>1. /\ con[l].id \in 1..Len(read) /\ read[con[l].id].local = l /\ con[l].id \notin dropped
              /\ l \notin retyped => con[l].gateway = IF con[l].dns THEN "dns" ELSE "socks"
              /\ \A m \in InIt(con[l]) : Sane(read, con[l], l, retyped, remixed, m)
          BY <1>7, <1>11, Zenon DEF Held
        <5>2. c1.id \in 1..Len(read') /\ read'[c1.id].local = l /\ c1.id \notin dropped'
          BY <1>4, <2>9, <2>12, <5>1, Zenon DEF Longer
        <5>3. l \notin retyped' => c1.gateway = IF c1.dns THEN "dns" ELSE "socks"
          BY <2>3, <2>9, <5>1, Zenon
        <5>4. ASSUME NEW m \in InIt(con[l])
              PROVE  Sane(read', c1, l, retyped', remixed', m)
          <6>1. Sane(read, con[l], l, retyped, remixed, m)
            BY <5>1, Zenon
          <6>2. m.content \in 1..Len(read') /\ read'[m.content] = read[m.content]
            BY <1>4, <6>1, Zenon DEF Longer, Sane
          <6> QED BY <2>3, <2>9, <6>1, <6>2, Zenon DEF Sane
        <5> QED BY <2>9, <4>1, <5>2, <5>3, <5>4, Zenon DEF Held
      <4> QED BY <2>10, <3>2, <4>2, Zenon
    <3> QED BY <3>1, <3>2
  <2> QED BY <1>9, <2>3, <2>5, <2>11, <2>13, Zenon DEF UdpInv, AllHeld
<1> QED BY Zenon, <1>10, <1>11

-----------------------------------------------------------------------------
(* What a job does.                                                         *)
Readying(id) == [k \in Local |-> IF k \in Udp!Owner(id) THEN Readied(con[k]) ELSE con[k]]
Sending(id) ==
  [k \in Local |-> IF k \in Udp!Owner(id) /\ Udp!Accepts(con[k])
                   THEN Queued(con[k], Append(con[k].queue, Udp!Message(con[k], packet)))
                   ELSE con[k]]

(* What the next job changes, by its kind.                                  *)
LEMMA JobDoes ==
  ASSUME Udp!ExecuteJob
  PROVE  /\ jobs # <<>> /\ jobs' = Tail(jobs)
         /\ read' = read /\ packet' = packet /\ delivered' = delivered
         /\ retyped' = retyped /\ remixed' = remixed
         /\ Head(jobs).job = "device" => reading' = TRUE /\ con' = con /\ dropped' = dropped
         /\ Head(jobs).job = "ready" =>
              con' = Readying(Head(jobs).id) /\ reading' = reading /\ dropped' = dropped
         /\ Head(jobs).job = "first" =>
              /\ con' = Sending(Head(jobs).id) /\ reading' = reading
              /\ dropped' = IF \E k \in Udp!Owner(Head(jobs).id) : Udp!Accepts(con[k])
                            THEN dropped ELSE dropped \cup {Head(jobs).id}
<1>1. /\ jobs # <<>> /\ jobs' = Tail(jobs)
      /\ read' = read /\ packet' = packet /\ delivered' = delivered
      /\ retyped' = retyped /\ remixed' = remixed
  BY Zenon DEF Udp!ExecuteJob
<1>2. Head(jobs).job = "device" => reading' = TRUE /\ con' = con /\ dropped' = dropped
  BY Zenon DEF Udp!ExecuteJob, Udp!NextJob
<1>3. Head(jobs).job = "ready" =>
              con' = Readying(Head(jobs).id) /\ reading' = reading /\ dropped' = dropped
  BY Zenon DEF Udp!ExecuteJob, Udp!NextJob, Readying, Readied
<1>4. Head(jobs).job = "first" =>
              /\ con' = Sending(Head(jobs).id) /\ reading' = reading
              /\ dropped' = IF \E k \in Udp!Owner(Head(jobs).id) : Udp!Accepts(con[k])
                            THEN dropped ELSE dropped \cup {Head(jobs).id}
  BY Zenon DEF Udp!ExecuteJob, Udp!NextJob, Sending, Queued
<1> QED BY <1>1, <1>2, <1>3, <1>4, Zenon

(* The owner of the jobs of a packet is the connection that it opened.      *)
LEMMA OwnerIs ==
  ASSUME UdpInv, NEW l \in Local, Opening(l)
  PROVE  /\ con[l] # Udp!None /\ Len(read) \in 1..Len(read) /\ read[Len(read)].local = l
         /\ Udp!Owner(Len(read)) = {l}
<1>1. /\ \A k \in Local : Held(read, con[k], k, dropped, retyped, remixed)
      /\ con[l].id = Len(read) /\ Len(read) > 0
  BY Zenon DEF UdpInv, AllHeld, Opening
<1>2. con[l] # Udp!None
  <2>1. Len(read) # 0
    BY <1>1
  <2> QED BY <1>1, <2>1, NoneIs, Zenon
<1>3. \A k \in Local : con[k] # Udp!None => con[k].id \in 1..Len(read) /\ read[con[k].id].local = k
  BY <1>1, Zenon DEF Held
<1>4. \A k \in Local : k \in Udp!Owner(Len(read)) <=> con[k] # Udp!None /\ con[k].id = Len(read)
  BY Zenon DEF Udp!Owner, Udp!Open
<1>5. Udp!Owner(Len(read)) \subseteq Local
  BY Zenon DEF Udp!Owner, Udp!Open
<1>6. Len(read) \in 1..Len(read) /\ read[Len(read)].local = l
  BY <1>1, <1>2, <1>3, Zenon
<1>7. Udp!Owner(Len(read)) = {l}
  <2>1. \A k \in Local : k \in Udp!Owner(Len(read)) <=> k = l
    BY <1>1, <1>2, <1>3, <1>4, <1>6, Zenon
  <2> QED BY <1>5, <2>1, Zenon
<1> QED BY <1>2, <1>6, <1>7, Zenon

(* The next job runs.                                                       *)
LEMMA ExecuteKeeps ==
  ASSUME UdpInv, Udp!ExecuteJob
  PROVE  UdpInv'
<1>0. /\ jobs # <<>> /\ jobs' = Tail(jobs)
      /\ read' = read /\ packet' = packet /\ delivered' = delivered
      /\ retyped' = retyped /\ remixed' = remixed
  BY JobDoes, Zenon
<1>1. /\ read \in Seq(Packet) /\ con \in [Local -> Link] /\ dropped \subseteq 1..Len(read)
      /\ packet = Len(read)
      /\ \A k \in Local : Held(read, con[k], k, dropped, retyped, remixed) /\ con[k] \in Link
  BY Zenon DEF UdpInv, UdpTyped, AllHeld
<1>2. AllAnswered'
  BY <1>0, Zenon DEF UdpInv, AllAnswered
<1>3. Len(read) \in Nat
  BY <1>1
<1>4. CASE jobs = <<DeviceJob>>
  <2>1. DeviceJob \in Job /\ DeviceJob.job = "device"
    BY <1>3, JobsDiffer, Zenon
  <2>2. Head(jobs) = DeviceJob /\ Tail(jobs) = <<>>
    BY <1>4, <2>1, JobStack, Zenon
  <2>3. reading' = TRUE /\ con' = con /\ dropped' = dropped
    BY <2>1, <2>2, JobDoes, Zenon
  <2>4. JobsAre'
    BY <1>0, <2>2, <2>3, Zenon DEF JobsAre
  <2> QED BY <1>0, <1>2, <2>3, <2>4, Zenon DEF UdpInv, UdpTyped, AllHeld
<1>5. ASSUME NEW l \in Local, Opening(l), ~reading,
             jobs = <<ReadyJob(Len(read)), FirstJob(Len(read)), DeviceJob>>
      PROVE  UdpInv'
  <2> DEFINE p == Len(read)
  <2>1. /\ DeviceJob \in Job /\ ReadyJob(p) \in Job /\ FirstJob(p) \in Job
        /\ ReadyJob(p).job = "ready" /\ ReadyJob(p).id = p
    BY <1>3, JobsDiffer, Zenon
  <2>2. Head(jobs) = ReadyJob(p) /\ Tail(jobs) = <<FirstJob(p), DeviceJob>>
    BY <1>5, <2>1, JobStack, Zenon
  <2>3. con' = Readying(p) /\ reading' = reading /\ dropped' = dropped
    BY <2>1, <2>2, JobDoes, Zenon
  <2>4. Udp!Owner(p) = {l}
    BY <1>5, OwnerIs, Zenon
  <2> HIDE DEF p
  <2>5. PICK c : c = Readied(con[l])
    BY Zenon
  <2>6. /\ c \in Link /\ c.id = con[l].id /\ c.remote = con[l].remote /\ c.dns = con[l].dns
        /\ c.gateway = con[l].gateway /\ c.ready = TRUE /\ c.queue = con[l].queue
        /\ c.wire = con[l].wire
    BY <1>1, <2>5, ReadiedFields, Zenon
  <2>7. con' \in [Local -> Link] /\ con'[l] = c /\ \A k \in Local \ {l} : con'[k] = con[k]
    BY <1>1, <2>3, <2>4, <2>5, <2>6, Zenon DEF Readying
  <2>8. UdpTyped'
    BY <1>0, <1>1, <2>3, <2>7, Zenon DEF UdpTyped
  <2>9. JobsAre'
    <3>1. Opening(l)' /\ con'[l].ready
      BY <1>0, <1>5, <2>6, <2>7, Zenon DEF Opening
    <3> QED BY <1>0, <1>5, <2>2, <2>3, <3>1, Zenon DEF JobsAre, p
  <2>10. Held(read, c, l, dropped, retyped, remixed)
    <3>1. con[l] # Udp!None
      BY <1>5, OwnerIs, Zenon
    <3>2. InIt(c) = {}
      BY <1>5, <2>6, EmptyLink, Zenon DEF Opening
    <3> QED BY <1>1, <2>6, <3>1, <3>2, Zenon DEF Held
  <2>11. AllHeld'
    BY <1>0, <1>1, <2>3, <2>7, <2>10, Zenon DEF AllHeld
  <2> QED BY <1>2, <2>8, <2>9, <2>11, Zenon DEF UdpInv
<1>6. ASSUME NEW l \in Local, Opening(l), con[l].ready, ~reading,
             jobs = <<FirstJob(Len(read)), DeviceJob>>
      PROVE  UdpInv'
  <2> DEFINE p == Len(read)
  <2>1. /\ DeviceJob \in Job /\ FirstJob(p) \in Job
        /\ FirstJob(p).job = "first" /\ FirstJob(p).id = p
    BY <1>3, JobsDiffer, Zenon
  <2>2. Head(jobs) = FirstJob(p) /\ Tail(jobs) = <<DeviceJob>>
    BY <1>6, <2>1, JobStack, Zenon
  <2>3. /\ Udp!Owner(p) = {l} /\ con[l] # Udp!None /\ p \in 1..Len(read) /\ read[p].local = l
    BY <1>6, OwnerIs, Zenon
  <2>4. Udp!Accepts(con[l])
    <3>1. con[l].queue = <<>>
      BY <1>6, Zenon DEF Opening
    <3>2. Len(<<>>) < BufferSize
      BY RelayAssumption
    <3> QED BY <1>6, <3>1, <3>2, Zenon DEF Udp!Accepts
  <2>5. con' = Sending(p) /\ reading' = reading /\ dropped' = dropped
    BY <2>1, <2>2, <2>3, <2>4, JobDoes, Zenon
  <2>6. p \in Nat /\ packet = p
    BY <1>1, <1>3, Zenon
  <2>7. con[l].remote = read[p].remote /\ con[l].dns = read[p].dns
    BY <1>6, Zenon DEF Opening
  <2> HIDE DEF p
  <2>8. PICK w : w = Udp!Message(con[l], p)
    BY Zenon
  <2>9. w \in Letter /\ w.content = p /\ w.to = con[l].remote /\ w.header = ~con[l].dns
    <3>1. con[l].remote \in Remote \cup {0} /\ con[l].dns \in BOOLEAN
      BY <1>1, LinkFields, Zenon
    <3> QED BY Zenon, <2>6, <2>8, <3>1 DEF Udp!Message, Letter
  <2>10. PICK c : c = Queued(con[l], Append(con[l].queue, w))
    BY Zenon
  <2>11. /\ c \in Link /\ c.id = con[l].id /\ c.remote = con[l].remote /\ c.dns = con[l].dns
         /\ c.gateway = con[l].gateway /\ InIt(c) \subseteq {w}
    <3>1. con[l].queue \in Seq(Letter) /\ con[l] \in Link
      BY <1>1, LinkFields, Zenon
    <3>2. /\ Append(con[l].queue, w) \in Seq(Letter)
          /\ Udp!Range(Append(con[l].queue, w)) = Udp!Range(con[l].queue) \cup {w}
      BY <2>9, <3>1, QueueOps, Zenon
    <3>3. /\ c \in Link /\ c.id = con[l].id /\ c.remote = con[l].remote /\ c.dns = con[l].dns
          /\ c.gateway = con[l].gateway /\ c.queue = Append(con[l].queue, w)
          /\ c.wire = con[l].wire
      BY <2>10, <3>1, <3>2, QueuedFields, Zenon
    <3>4. InIt(con[l]) = {}
      BY <1>6, EmptyLink, Zenon DEF Opening
    <3> QED BY <3>2, <3>3, <3>4, Zenon DEF InIt
  <2>12. con' \in [Local -> Link] /\ con'[l] = c /\ \A k \in Local \ {l} : con'[k] = con[k]
    BY <1>1, <2>3, <2>4, <2>5, <2>6, <2>8, <2>10, <2>11, Zenon DEF Sending
  <2>13. UdpTyped'
    BY <1>0, <1>1, <2>5, <2>12, Zenon DEF UdpTyped
  <2>14. JobsAre'
    BY <1>0, <1>6, <2>2, <2>5, Zenon DEF JobsAre
  <2>15. Held(read, c, l, dropped, retyped, remixed)
    <3>1. Sane(read, c, l, retyped, remixed, w)
      BY <2>3, <2>7, <2>9, <2>11, Zenon DEF Sane
    <3> QED BY <1>1, <2>3, <2>11, <3>1, Zenon DEF Held
  <2>16. AllHeld'
    BY <1>0, <1>1, <2>5, <2>12, <2>15, Zenon DEF AllHeld
  <2> QED BY <1>2, <2>13, <2>14, <2>16, Zenon DEF UdpInv
<1> QED BY <1>0, <1>4, <1>5, <1>6, Zenon DEF UdpInv, JobsAre

-----------------------------------------------------------------------------
(* A connection that is not being opened changes, with its messages.        *)
LEMMA NotOpening ==
  ASSUME UdpInv, NEW l \in Local, InIt(con[l]) # {} \/ jobs = <<>>,
         UNCHANGED <<jobs, reading, read>>, \A k \in Local \ {l} : con'[k] = con[k]
  PROVE  JobsAre'
<1>1. CASE jobs = <<>>
  <2>1. reading
    BY <1>1, NoJobs, Zenon DEF UdpInv, JobsAre
  <2> QED BY <1>1, <2>1, Zenon DEF JobsAre
<1>2. CASE InIt(con[l]) # {}
  <2>1. ~Opening(l)
    BY <1>2, EmptyLink, Zenon DEF Opening
  <2>2. \A k \in Local : Opening(k) => k \in Local \ {l}
    BY <2>1, Zenon
  <2>3. \A k \in Local : Opening(k) => Opening(k)' /\ con'[k] = con[k]
    BY <2>2, Zenon DEF Opening
  <2> QED BY <2>3, Zenon DEF UdpInv, JobsAre
<1> QED BY <1>1, <1>2, Zenon

(* A queued message goes to the gateway.                                    *)
LEMMA UdpSendKeeps ==
  ASSUME UdpInv, NEW l \in Local, Udp!Send(l)
  PROVE  UdpInv'
<1>0. /\ con[l] # Udp!None /\ con[l].queue # <<>>
      /\ con' = [con EXCEPT ![l] = Rewired(con[l], Tail(con[l].queue),
                                           con[l].wire \cup {Head(con[l].queue)}, con[l].remote)]
      /\ UNCHANGED <<read, packet, reading, jobs, delivered, dropped, retyped, remixed>>
  <2>1. /\ con[l] # Udp!None /\ con[l].queue # <<>>
        /\ con' = [con EXCEPT ![l].queue = Tail(@), ![l].wire = @ \cup {Head(con[l].queue)}]
        /\ UNCHANGED <<read, packet, reading, jobs, delivered, dropped, retyped, remixed>>
    BY Zenon DEF Udp!Send, Udp!Open
  <2>2. con \in [Local -> Link]
    BY Zenon DEF UdpInv, UdpTyped
  <2>3. [con EXCEPT ![l].queue = Tail(@), ![l].wire = @ \cup {Head(con[l].queue)}]
        = [con EXCEPT ![l] = Rewired(con[l], Tail(con[l].queue),
                                     con[l].wire \cup {Head(con[l].queue)}, con[l].remote)]
    BY Zenon, <2>2 DEF Rewired, Link
  <2> QED BY <2>1, <2>3, Zenon
<1>1. /\ read \in Seq(Packet) /\ con \in [Local -> Link] /\ dropped \subseteq 1..Len(read)
      /\ packet = Len(read)
      /\ \A k \in Local : Held(read, con[k], k, dropped, retyped, remixed) /\ con[k] \in Link
  BY Zenon DEF UdpInv, UdpTyped, AllHeld
<1>2. PICK c : c = Rewired(con[l], Tail(con[l].queue),
                           con[l].wire \cup {Head(con[l].queue)}, con[l].remote)
  BY Zenon
<1>3. /\ c \in Link /\ c.id = con[l].id /\ c.remote = con[l].remote /\ c.dns = con[l].dns
      /\ c.gateway = con[l].gateway /\ InIt(c) \subseteq InIt(con[l]) /\ InIt(con[l]) # {}
  <2>1. /\ con[l].queue \in Seq(Letter) /\ con[l] \in Link /\ con[l].wire \subseteq Letter
        /\ con[l].remote \in Remote \cup {0}
    BY <1>1, LinkFields, Zenon
  <2>2. /\ Tail(con[l].queue) \in Seq(Letter)
        /\ Udp!Range(Tail(con[l].queue)) \subseteq Udp!Range(con[l].queue)
        /\ Head(con[l].queue) \in Udp!Range(con[l].queue)
        /\ Udp!Range(con[l].queue) \subseteq Letter
    BY <1>0, <2>1, QueueOps, Zenon
  <2>3. con[l].wire \cup {Head(con[l].queue)} \in SUBSET Letter
    BY <2>1, <2>2, Zenon
  <2>4. /\ c \in Link /\ c.id = con[l].id /\ c.remote = con[l].remote /\ c.dns = con[l].dns
        /\ c.gateway = con[l].gateway /\ c.queue = Tail(con[l].queue)
        /\ c.wire = con[l].wire \cup {Head(con[l].queue)}
    BY Zenon, <1>2, <2>1, <2>2, <2>3 DEF Rewired, Link
  <2> QED BY <2>2, <2>4, Zenon DEF InIt
<1>4. con' \in [Local -> Link] /\ con'[l] = c /\ \A k \in Local \ {l} : con'[k] = con[k]
  BY <1>0, <1>1, <1>2, <1>3, Zenon
<1>5. UdpTyped'
  BY <1>0, <1>1, <1>4, Zenon DEF UdpTyped
<1>6. JobsAre'
  BY <1>0, <1>3, <1>4, NotOpening, Zenon
<1>7. Held(read, c, l, dropped, retyped, remixed)
  <2>1. /\ con[l].id \in 1..Len(read) /\ read[con[l].id].local = l /\ con[l].id \notin dropped
        /\ l \notin retyped => con[l].gateway = IF con[l].dns THEN "dns" ELSE "socks"
        /\ \A m \in InIt(con[l]) : Sane(read, con[l], l, retyped, remixed, m)
    BY <1>0, <1>1, OpenIs, Zenon
  <2>2. \A m \in InIt(c) : Sane(read, c, l, retyped, remixed, m)
    BY <1>3, <2>1, Zenon DEF Sane
  <2> QED BY <1>3, <2>1, <2>2, Zenon DEF Held
<1>8. AllHeld'
  BY <1>0, <1>1, <1>4, <1>7, Zenon DEF AllHeld
<1>9. AllAnswered'
  BY <1>0, Zenon DEF UdpInv, AllAnswered
<1> QED BY <1>5, <1>6, <1>8, <1>9, Zenon DEF UdpInv

(* dgram_handler_received: an answer is passed to the app.                  *)
LEMMA UdpReceiveKeeps ==
  ASSUME UdpInv, NEW l \in Local, NEW m \in con[l].wire, Udp!Receive(l, m)
  PROVE  UdpInv'
<1>1. /\ read \in Seq(Packet) /\ con \in [Local -> Link] /\ dropped \subseteq 1..Len(read)
      /\ packet = Len(read)
      /\ \A k \in Local : Held(read, con[k], k, dropped, retyped, remixed) /\ con[k] \in Link
      /\ \A d \in delivered : Answered(read, d, retyped, remixed)
  BY Zenon DEF UdpInv, UdpTyped, AllHeld, AllAnswered
<1>2. /\ con[l] # Udp!None /\ jobs = <<>>
      /\ UNCHANGED <<read, packet, reading, jobs, dropped, retyped, remixed>>
  BY Zenon DEF Udp!Receive, Udp!Open
<1>3. /\ con[l].id \in 1..Len(read) /\ read[con[l].id].local = l /\ con[l].id \notin dropped
      /\ l \notin retyped => con[l].gateway = IF con[l].dns THEN "dns" ELSE "socks"
      /\ \A n \in InIt(con[l]) : Sane(read, con[l], l, retyped, remixed, n)
  BY <1>1, <1>2, OpenIs, Zenon
<1>4. /\ con[l].queue \in Seq(Letter) /\ con[l] \in Link /\ con[l].wire \subseteq Letter
      /\ con[l].remote \in Remote \cup {0} /\ con[l].dns \in BOOLEAN
      /\ m.to \in Remote \cup {0} /\ m.header \in BOOLEAN
  BY <1>1, LinkFields, Zenon DEF Letter
<1>5. PICK to : to = IF (con[l].dns \/ m.header) /\ ~con[l].dns THEN m.to ELSE con[l].remote
  BY Zenon
<1>6. to \in Remote \cup {0} /\ (con[l].dns => to = con[l].remote)
  BY <1>4, <1>5, Zenon
<1>7. PICK c : c = Rewired(con[l], con[l].queue, con[l].wire \ {m}, to)
  BY Zenon
<1>8. con' = [con EXCEPT ![l] = c]
  <2>1. CASE con[l].dns \/ m.header
    <3>1. con' = [con EXCEPT ![l].wire = @ \ {m}, ![l].remote = Udp!Answer(con[l], m).from]
      BY <2>1, Zenon DEF Udp!Receive
    <3>2. Udp!Answer(con[l], m).from = to
      BY Zenon, <1>5, <2>1 DEF Udp!Answer
    <3>3. [con EXCEPT ![l].wire = @ \ {m}, ![l].remote = to] = [con EXCEPT ![l] = c]
      BY Zenon, <1>1, <1>7 DEF Rewired, Link
    <3> QED BY <3>1, <3>2, <3>3, Zenon
  <2>2. CASE ~(con[l].dns \/ m.header)
    <3>1. con' = [con EXCEPT ![l].wire = @ \ {m}]
      BY <2>2, Zenon DEF Udp!Receive
    <3>2. to = con[l].remote
      BY <1>5, <2>2, Zenon
    <3>3. [con EXCEPT ![l].wire = @ \ {m}] = [con EXCEPT ![l] = c]
      BY Zenon, <1>1, <1>7, <3>2 DEF Rewired, Link
    <3> QED BY <3>1, <3>3, Zenon
  <2> QED BY Zenon, <2>1, <2>2
<1>9. /\ c \in Link /\ c.id = con[l].id /\ c.remote = to /\ c.dns = con[l].dns
      /\ c.gateway = con[l].gateway /\ InIt(c) \subseteq InIt(con[l])
  <2>1. con[l].wire \ {m} \in SUBSET Letter
    BY <1>4, Zenon
  <2>2. /\ c \in Link /\ c.id = con[l].id /\ c.remote = to /\ c.dns = con[l].dns
        /\ c.gateway = con[l].gateway /\ c.queue = con[l].queue
        /\ c.wire = con[l].wire \ {m}
    BY Zenon, <1>4, <1>6, <1>7, <2>1 DEF Rewired, Link
  <2> QED BY <2>2, Zenon DEF InIt
<1>10. con' \in [Local -> Link] /\ con'[l] = c /\ \A k \in Local \ {l} : con'[k] = con[k]
  BY <1>1, <1>8, <1>9, Zenon
<1>11. UdpTyped'
  BY <1>1, <1>2, <1>10, Zenon DEF UdpTyped
<1>12. JobsAre'
  BY <1>2, <1>10, NotOpening, Zenon
<1>13. Held(read, c, l, dropped, retyped, remixed)
  <2>1. \A n \in InIt(c) : Sane(read, c, l, retyped, remixed, n)
    BY <1>3, <1>6, <1>9, Zenon DEF Sane
  <2> QED BY <1>3, <1>9, <2>1, Zenon DEF Held
<1>14. AllHeld'
  BY <1>1, <1>2, <1>10, <1>13, Zenon DEF AllHeld
<1>15. AllAnswered'
  <2>1. Sane(read, con[l], l, retyped, remixed, m)
    BY <1>3, Zenon DEF InIt
  <2>2. PICK d : d = Udp!Answer(con[l], m)
    BY Zenon
  <2>3. delivered' \subseteq delivered \cup {d}
    BY <2>2, Zenon DEF Udp!Receive
  <2>4. /\ d.content = m.content
        /\ con[l].dns => d.from = con[l].remote /\ d.raw = m.header
        /\ ~con[l].dns => d.from = m.to /\ d.raw = FALSE
    BY Zenon, <2>2, <1>4 DEF Udp!Answer
  <2>5. Answered(read, d, retyped, remixed)
    <3>1. d.content \in 1..Len(read) /\ read[d.content].local = l
      BY <2>1, <2>4, Zenon DEF Sane
    <3>2. ASSUME l \notin retyped \cup remixed PROVE d.from = read[d.content].remote /\ ~d.raw
      <4>1. CASE con[l].dns
        BY <2>1, <2>4, <3>2, <4>1, Zenon DEF Sane
      <4>2. CASE ~con[l].dns
        BY <2>1, <2>4, <4>2, Zenon DEF Sane
      <4> QED BY Zenon, <4>1, <4>2
    <3> QED BY <3>1, <3>2, Zenon DEF Answered
  <2> QED BY <1>1, <1>2, <2>3, <2>5, Zenon DEF AllAnswered
<1> QED BY <1>11, <1>12, <1>14, <1>15, Zenon DEF UdpInv

(* The invariant of the UDP relay holds at first.                           *)
LEMMA UdpInit ==
  ASSUME Udp!Init
  PROVE  UdpInv
<1>1. /\ read = <<>> /\ packet = 0 /\ reading = TRUE /\ jobs = <<>>
      /\ con = [l \in Local |-> Udp!None] /\ delivered = {} /\ dropped = {}
  BY Zenon DEF Udp!Init
<1>2. UdpTyped
  <2>1. <<>> \in Seq(Packet) /\ Len(<<>>) = 0
    OBVIOUS
  <2> QED BY <1>1, <2>1, NoneIs, Zenon DEF UdpTyped
<1>3. \A l \in Local : con[l] = Udp!None
  BY <1>1, Zenon
<1> QED BY <1>1, <1>2, <1>3, Zenon DEF UdpInv, JobsAre, AllHeld, AllAnswered, Held

(* What is not about the failures of the sockets is enough.                 *)
LEMMA UdpFrame ==
  ASSUME UdpInv,
         UNCHANGED <<read, packet, reading, jobs, con, delivered, dropped, retyped, remixed>>
  PROVE  UdpInv'
<1>1. /\ read' = read /\ packet' = packet /\ reading' = reading /\ jobs' = jobs /\ con' = con
      /\ delivered' = delivered /\ dropped' = dropped /\ retyped' = retyped
      /\ remixed' = remixed
  BY Zenon
<1>2. UdpTyped'
  BY <1>1, Zenon DEF UdpInv, UdpTyped
<1>4. JobsAre'
  BY <1>1 DEF UdpInv, JobsAre, Opening
<1>3. AllHeld' /\ AllAnswered'
  BY <1>1, Zenon DEF UdpInv, AllHeld, AllAnswered
<1> QED BY <1>2, <1>3, <1>4, Zenon DEF UdpInv

(* A step of another component leaves the UDP relay alone.                  *)
LEMMA UdpStutter ==
  ASSUME UdpInv, UNCHANGED udpVars
  PROVE  UdpInv'
<1>1. UNCHANGED <<read, packet, reading, jobs, con, delivered, dropped, retyped, remixed>>
  BY Zenon DEF udpVars
<1> QED BY <1>1, UdpFrame, Zenon

(* A failing socket, or its error event, leaves what is queued alone.       *)
LEMMA UdpFailKeeps ==
  ASSUME UdpInv, NEW l \in Local, Udp!SocketFails(l) \/ Udp!ErrorEvent(l)
  PROVE  UdpInv'
<1>1. UNCHANGED <<read, packet, reading, jobs, con, delivered, dropped, retyped, remixed>>
  BY Zenon DEF Udp!SocketFails, Udp!ErrorEvent
<1> QED BY <1>1, UdpFrame, Zenon

(* Every step of the UDP relay keeps the invariant.                         *)
LEMMA UdpStep ==
  ASSUME UdpInv, Udp!Next
  PROVE  UdpInv'
<1>1. CASE \E l \in Local, to \in Remote, is_dns, ok \in BOOLEAN :
             Udp!SubmitPacket(l, to, is_dns, ok)
  BY <1>1, SubmitKeeps, Zenon
<1>2. CASE Udp!ExecuteJob
  BY <1>2, ExecuteKeeps, Zenon
<1>3. CASE \E l \in Local : Udp!Send(l)
  BY <1>3, UdpSendKeeps, Zenon
<1>4. CASE \E l \in Local : \E m \in con[l].wire : Udp!Receive(l, m)
  BY <1>4, UdpReceiveKeeps, Zenon
<1>5. CASE \E l \in Local : Udp!SocketFails(l) \/ Udp!ErrorEvent(l)
  BY <1>5, UdpFailKeeps, Zenon
<1> QED BY <1>1, <1>2, <1>3, <1>4, <1>5, Zenon DEF Udp!Next

(* The invariant of the UDP relay: the jobs are those of the packet in the  *)
(* buffer, and every message and every answer is of the packet it is for.   *)
THEOREM UdpInvariant == MCSpec => []UdpInv
<1>1. MCInit => UdpInv
  BY Zenon, UdpInit DEF MCInit
<1>2. UdpInv /\ [MCNext]_all => UdpInv'
  <2> SUFFICES ASSUME UdpInv, [MCNext]_all
               PROVE  UdpInv'
    BY Zenon
  <2>1. CASE MCNext
    <3>1. CASE Udp!Next
      BY Zenon, <3>1, UdpStep
    <3>2. CASE UNCHANGED udpVars
      BY Zenon, <3>2, UdpStutter
    <3> QED BY <2>1, <3>1, <3>2, Zenon DEF MCNext
  <2>2. CASE UNCHANGED all
    <3>1. UNCHANGED udpVars
      BY <2>2, Zenon DEF all
    <3> QED BY Zenon, <3>1, UdpStutter
  <2> QED BY Zenon, <2>1, <2>2
<1> QED BY <1>1, <1>2, PTL DEF MCSpec

(* An app gets an answer from the address that it asked, unless it has sent *)
(* both kinds of packets, or asked two DNS servers, from one local address: *)
(* the header, or the last address of the connection, names the sender.     *)
THEOREM AnswersFromAsked == MCSpec => []AnswerFromAsked
<1>1. UdpInv => AnswerFromAsked
  BY Zenon DEF UdpInv, AllAnswered, Answered, AnswerFromAsked, Udp!AnswerFromAsked
<1> QED BY <1>1, UdpInvariant, PTL

(* The owner of a job is there when it runs.                                *)
LEMMA JobsOwned == UdpInv => Udp!JobsHaveOwner
<1> SUFFICES ASSUME UdpInv PROVE Udp!JobsHaveOwner
  BY Zenon
<1>1. Len(read) \in Nat
  BY DEF UdpInv, UdpTyped
<1>2. \A l \in Local : Opening(l) => Udp!Owner(Len(read)) # {}
  BY OwnerIs, Zenon
<1>3. DeviceJob.job = "device"
  BY <1>1, JobsDiffer, Zenon
<1>4. FirstJob(Len(read)).id = Len(read) /\ ReadyJob(Len(read)).id = Len(read)
  BY Zenon DEF FirstJob, ReadyJob
<1>5. CASE jobs = <<>>
  BY <1>5 DEF Udp!JobsHaveOwner
<1>6. CASE jobs = <<DeviceJob>>
  <2>1. \A i \in DOMAIN jobs : jobs[i] = DeviceJob
    BY <1>6
  <2> QED BY <1>3, <2>1, Zenon DEF Udp!JobsHaveOwner
<1>7. CASE jobs = <<FirstJob(Len(read)), DeviceJob>> /\ \E l \in Local : Opening(l)
  <2>1. \A i \in DOMAIN jobs : jobs[i] \in {FirstJob(Len(read)), DeviceJob}
    BY <1>7
  <2> QED BY <1>2, <1>3, <1>4, <1>7, <2>1, Zenon DEF Udp!JobsHaveOwner
<1>8. CASE jobs = <<ReadyJob(Len(read)), FirstJob(Len(read)), DeviceJob>>
           /\ \E l \in Local : Opening(l)
  <2>1. \A i \in DOMAIN jobs : jobs[i] \in {ReadyJob(Len(read)), FirstJob(Len(read)), DeviceJob}
    BY <1>8
  <2> QED BY <1>2, <1>3, <1>4, <1>8, <2>1, Zenon DEF Udp!JobsHaveOwner
<1> QED BY <1>5, <1>6, <1>7, <1>8, Zenon DEF UdpInv, JobsAre

(* The packet that opens a connection is not dropped, every message is of   *)
(* the local address of its socket, each goes to the gateway of its kind,   *)
(* and no job runs for a connection that was freed: PacketsSent but for the *)
(* order of the table.                                                      *)
THEOREM PacketsReachGateways ==
  MCSpec => [](Udp!FirstPacketSent /\ Udp!RightGateway /\ Udp!JobsHaveOwner)
<1>1. ASSUME UdpInv PROVE Udp!FirstPacketSent /\ Udp!RightGateway
  <2>1. \A l \in Local : Held(read, con[l], l, dropped, retyped, remixed) /\ con[l] \in Link
    BY <1>1, Zenon DEF UdpInv, UdpTyped, AllHeld
  <2> SUFFICES ASSUME NEW l \in Local, con[l] # Udp!None
               PROVE  /\ con[l].id \notin dropped
                      /\ \A m \in InIt(con[l]) :
                           /\ read[m.content].local = l
                           /\ l \notin retyped =>
                                /\ Udp!Understood(con[l], m)
                                /\ read[m.content].dns = (con[l].gateway = "dns")
    BY Zenon DEF Udp!FirstPacketSent, Udp!RightGateway, Udp!Open, InIt
  <2>2. /\ con[l].id \in 1..Len(read) /\ read[con[l].id].local = l /\ con[l].id \notin dropped
        /\ l \notin retyped => con[l].gateway = IF con[l].dns THEN "dns" ELSE "socks"
        /\ \A m \in InIt(con[l]) : Sane(read, con[l], l, retyped, remixed, m)
    BY <2>1, OpenIs, Zenon
  <2>3. con[l].dns \in BOOLEAN /\ con[l].queue \in Seq(Letter) /\ con[l].wire \subseteq Letter
    BY <2>1, LinkFields, Zenon
  <2>4. ASSUME NEW m \in InIt(con[l]), l \notin retyped
        PROVE  Udp!Understood(con[l], m) /\ read[m.content].dns = (con[l].gateway = "dns")
    <3>1. m.header = ~con[l].dns /\ read[m.content].dns = con[l].dns
      BY <2>2, <2>4, Zenon DEF Sane
    <3>2. CASE con[l].dns
      <4>1. con[l].gateway = "dns" /\ m.header = FALSE /\ read[m.content].dns = TRUE
        BY <2>2, <2>3, <2>4, <3>1, <3>2, Zenon
      <4> QED BY <4>1, Zenon DEF Udp!Understood
    <3>3. CASE ~con[l].dns
      <4>1. con[l].gateway = "socks" /\ m.header = TRUE /\ read[m.content].dns = FALSE
        BY <2>2, <2>3, <2>4, <3>1, <3>3, Zenon
      <4> QED BY <4>1, Zenon DEF Udp!Understood
    <3> QED BY <3>2, <3>3, Zenon
  <2> QED BY <2>2, <2>4, Zenon DEF Sane
<1> QED BY <1>1, JobsOwned, UdpInvariant, PTL
=============================================================================
