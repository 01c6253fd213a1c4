-------------------------- MODULE Tun2socksProofs --------------------------
(***************************************************************************)
(* The safety of a connection of tun2socks, for every size of its window   *)
(* and buffers: no use after free, no data refused, no wake-up lost, no    *)
(* queued byte dropped without a reason.                                   *)
(*                                                                         *)
(* The properties are not inductive, because lwIP and the client do not    *)
(* account for the same bytes at the same time: a segment moves rcv_wnd    *)
(* and unacked at once, while buf and tcp_pending follow one call back at  *)
(* a time, and any of these may close the client before the next.  InFlow  *)
(* closes the gap: it names the acknowledgement, the data and the FIN that *)
(* the call backs still to begin carry.  Owned and Called say who refers   *)
(* to what, Awake what makes each direction go on.                         *)
(*                                                                         *)
(* Bounded adds the bounds of the buffers: the call backs still to come    *)
(* are those of one segment the app could send.  PipeInv says where the    *)
(* numbered bytes are, so that each direction implements BytePipe.         *)
(***************************************************************************)
EXTENDS Tun2socks, SequenceTheorems, TLAPS

(* The assumption on the sizes, as the steps use it.                        *)
LEMMA Sizes ==
  /\ TCP_WND \in Nat /\ TCP_WND > 0 /\ TCP_SND_BUF \in Nat /\ TCP_SND_BUF > 0
  /\ CLIENT_SOCKS_RECV_BUF_SIZE \in Nat /\ CLIENT_SOCKS_RECV_BUF_SIZE > 0
  BY SizesAssumption

(* The call backs of a segment.                                             *)
Event == [ev : {"sent", "recv"}, n : Nat] \cup [ev : {"fin"}]

(* What a sequence with one element put before it is.                       *)
LEMMA Prepended ==
  ASSUME NEW S, NEW e \in S, NEW s \in Seq(S)
  PROVE  /\ <<e>> \o s \in Seq(S) /\ <<e>> \o s # <<>>
         /\ Head(<<e>> \o s) = e /\ Tail(<<e>> \o s) = s
  OBVIOUS

(* The call backs of a segment, and which of them is the first: sent if it  *)
(* acknowledges, then recv if it has data, then the FIN.                    *)
LEMMA CallBacksType ==
  ASSUME NEW k \in Nat, NEW n \in Nat, NEW fin \in 0 .. 1
  PROVE  CallBacksOf(k, n, fin) \in Seq(Event)
<1>1. /\ [ev |-> "sent", n |-> k] \in Event
      /\ [ev |-> "recv", n |-> n] \in Event
      /\ [ev |-> "fin"] \in Event
  BY Zenon DEF Event
<1>2. <<>> \in Seq(Event) OBVIOUS
<1>3. QED BY Zenon, <1>1, <1>2, Prepended DEF CallBacksOf, Before

(* A segment that brings nothing calls nobody back.                         *)
LEMMA NoCallBacks == CallBacksOf(0, 0, 0) = <<>>
  BY DEF CallBacksOf, Before

(* An acknowledgement is reported first, and what follows are the call      *)
(* backs of the same segment without it.                                    *)
LEMMA SentFirst ==
  ASSUME NEW k \in Nat, NEW n \in Nat, NEW fin \in 0 .. 1, k > 0
  PROVE  /\ CallBacksOf(k, n, fin) # <<>>
         /\ Head(CallBacksOf(k, n, fin)).ev = "sent"
         /\ Head(CallBacksOf(k, n, fin)).n = k
         /\ Tail(CallBacksOf(k, n, fin)) = CallBacksOf(0, n, fin)
<1> DEFINE e == [ev |-> "sent", n |-> k]
<1>1. e \in Event /\ e.ev = "sent" /\ e.n = k BY Zenon DEF Event
<1>2. CallBacksOf(k, n, fin) = <<e>> \o CallBacksOf(0, n, fin)
  BY DEF CallBacksOf, Before
<1>3. CallBacksOf(0, n, fin) \in Seq(Event) BY Zenon, CallBacksType
<1> DEFINE t == CallBacksOf(0, n, fin)
<1> HIDE DEF e
<1>4. <<e>> \o t # <<>> /\ Head(<<e>> \o t) = e /\ Tail(<<e>> \o t) = t
  BY <1>1, <1>3, Prepended, Zenon
<1>5. QED BY <1>1, <1>2, <1>4, Zenon

(* Without an acknowledgement data is reported first.                       *)
LEMMA RecvFirst ==
  ASSUME NEW n \in Nat, NEW fin \in 0 .. 1, n > 0
  PROVE  /\ CallBacksOf(0, n, fin) # <<>>
         /\ Head(CallBacksOf(0, n, fin)).ev = "recv"
         /\ Head(CallBacksOf(0, n, fin)).n = n
         /\ Tail(CallBacksOf(0, n, fin)) = CallBacksOf(0, 0, fin)
<1> DEFINE e == [ev |-> "recv", n |-> n]
<1>1. e \in Event /\ e.ev = "recv" /\ e.n = n BY Zenon DEF Event
<1>2. CallBacksOf(0, n, fin) = <<e>> \o CallBacksOf(0, 0, fin)
  BY DEF CallBacksOf, Before
<1>3. CallBacksOf(0, 0, fin) \in Seq(Event) BY Zenon, CallBacksType
<1> DEFINE t == CallBacksOf(0, 0, fin)
<1> HIDE DEF e
<1>4. <<e>> \o t # <<>> /\ Head(<<e>> \o t) = e /\ Tail(<<e>> \o t) = t
  BY <1>1, <1>3, Prepended, Zenon
<1>5. QED BY <1>1, <1>2, <1>4, Zenon

(* A FIN is reported last.                                                  *)
LEMMA FinFirst ==
  /\ CallBacksOf(0, 0, 1) # <<>>
  /\ Head(CallBacksOf(0, 0, 1)).ev = "fin"
  /\ Tail(CallBacksOf(0, 0, 1)) = CallBacksOf(0, 0, 0)
<1>1. CallBacksOf(0, 0, 1) = <<[ev |-> "fin"]>>
  BY DEF CallBacksOf, Before
<1>2. Head(<<[ev |-> "fin"]>>).ev = "fin" /\ Tail(<<[ev |-> "fin"]>>) = <<>> OBVIOUS
<1>3. <<[ev |-> "fin"]>> # <<>> BY Zenon
<1>4. QED BY <1>1, <1>2, <1>3, NoCallBacks, Zenon

(* Only a segment that brings nothing has no call backs.                    *)
LEMMA SomeCallBack ==
  ASSUME NEW k \in Nat, NEW n \in Nat, NEW fin \in 0 .. 1,
         CallBacksOf(k, n, fin) = <<>>
  PROVE  k = 0 /\ n = 0 /\ fin = 0
<1>1. CASE k > 0 BY Zenon, <1>1, SentFirst
<1>2. CASE k = 0 /\ n > 0 BY Zenon, <1>2, RecvFirst
<1>3. CASE k = 0 /\ n = 0 /\ fin = 1 BY Zenon, <1>3, FinFirst
<1>4. QED BY <1>1, <1>2, <1>3

-----------------------------------------------------------------------------
(* The inductive invariant.                                                 *)
PcbTypes ==
  /\ state \in {"SYN_RCVD", "ESTABLISHED", "CLOSE_WAIT", "FIN_SENT",
                "TIME_WAIT", "closed", "freed"}
  /\ rcv_wnd \in 0 .. TCP_WND /\ unacked \in 0 .. TCP_SND_BUF
  /\ cb \subseteq {"err", "recv", "sent"}
  /\ inCallback \in BOOLEAN /\ dead \in {-1, 0, 1}

ClientTypes ==
  /\ alloc \in {"none", "live", "freed"}
  /\ client_closed \in BOOLEAN /\ aborted \in BOOLEAN
  /\ socks_up \in BOOLEAN /\ socks_closed \in BOOLEAN

DataTypes ==
  /\ buf \in Seq(Nat) /\ Len(buf) <= TCP_WND
  /\ socks_recv_buf \in Seq(Nat)
  /\ Len(socks_recv_buf) <= CLIENT_SOCKS_RECV_BUF_SIZE
  /\ tcp_pending \in Nat
  /\ upIn \in Nat /\ downIn \in Nat

SocksTypes ==
  /\ send_len \in 0 .. Len(buf) /\ send_job \in BOOLEAN
  /\ recv_op \in {"none", "job", "busy"}

Types == PcbTypes /\ ClientTypes /\ DataTypes /\ SocksTypes

(* Before a connection is accepted nothing has happened to it.              *)
Fresh ==
  alloc = "none" =>
    /\ state \in {"SYN_RCVD", "freed"}
    /\ rcv_wnd = TCP_WND /\ unacked = 0 /\ cb = {}
    /\ input = <<>> /\ ~inCallback
    /\ ~client_closed /\ ~socks_up /\ ~socks_closed
    /\ buf = <<>> /\ send_len = 0 /\ ~send_job /\ recv_op = "none"

(* Who still refers to the client, to its two sides and to the pcb.         *)
Owned ==
  /\ Open <=> alloc = "live" /\ ~client_closed
  /\ cb # {} => alloc = "live" /\ ~client_closed
  /\ "sent" \in cb => socks_up
  /\ "recv" \in cb => ~socks_closed
  /\ send_len > 0 \/ recv_op # "none" => alloc = "live" /\ socks_up /\ ~socks_closed
  /\ send_job => send_len > 0
  /\ FreedWithBothSides

(* Where the call backs of a segment are: no job is left to run between two *)
(* of them, and a pcb that is freed under one of them is reported by it.    *)
Called ==
  /\ inCallback => input # <<>>
  /\ input # <<>> /\ ~inCallback => NoJob /\ state # "freed"
  /\ inCallback /\ state = "freed" => dead = 1 /\ aborted /\ client_closed

(* What makes each direction go on.                                         *)
Awake ==
  /\ ~socks_up => unacked = 0 /\ tcp_pending = 0 /\ socks_recv_buf = <<>>
  /\ recv_op # "none" => socks_recv_buf = <<>>
  /\ alloc = "live" =>
       /\ socks_up /\ ~socks_closed => (buf # <<>> <=> send_len > 0)
       /\ socks_up /\ ~client_closed =>
            /\ socks_recv_buf # <<>> => tcp_pending > 0
            /\ ~socks_closed => (socks_recv_buf = <<>> <=> recv_op # "none")
       /\ socks_closed => tcp_pending > 0

(* The call backs still to begin acknowledge k bytes and bring n and a FIN: *)
(* the window counts the bytes that have arrived as taken, tcp_pending the  *)
(* bytes that are acknowledged as not.                                      *)
Rest == IF inCallback THEN Tail(input) ELSE input

Flow(k, n, fin) ==
  /\ Rest = CallBacksOf(k, n, fin)
  /\ inCallback \/ ~socks_up => k = 0
  /\ "recv" \in cb => rcv_wnd + Len(buf) + n + fin <= TCP_WND
  /\ alloc = "live" /\ ~client_closed => tcp_pending = unacked + k

InFlow ==
  \E k \in 0 .. TCP_SND_BUF, n \in 0 .. TCP_WND, fin \in 0 .. 1 : Flow(k, n, fin)

IInv == Types /\ Fresh /\ Owned /\ Called /\ Awake /\ InFlow /\ NeverRefused

-----------------------------------------------------------------------------
(* How many bytes a few operations on the buffers leave.                    *)
LEMMA BytesType ==
  ASSUME NEW a \in Nat, NEW n \in Nat
  PROVE  /\ Bytes(a + 1, a + n) \in Seq(Nat) /\ Len(Bytes(a + 1, a + n)) = n
         /\ \A i \in 1 .. n : Bytes(a + 1, a + n)[i] = a + i
<1>1. Bytes(a + 1, a + n) = [i \in 1 .. n |-> a + i]
  BY DEF Bytes
<1>2. QED BY <1>1

(* What is left of a sequence from some place on.                           *)
LEMMA FromType ==
  ASSUME NEW s \in Seq(Nat), NEW n \in 0 .. Len(s)
  PROVE  /\ From(s, n + 1) \in Seq(Nat) /\ Len(From(s, n + 1)) = Len(s) - n
         /\ \A i \in 1 .. Len(s) - n : From(s, n + 1)[i] = s[n + i]
<1>1. PICK a \in Int, b \in Int : a = n + 1 /\ b = Len(s)
  OBVIOUS
<1>2. \A i \in a .. b : s[i] \in Nat BY <1>1
<1>3. /\ SubSeq(s, a, b) \in Seq(Nat)
      /\ Len(SubSeq(s, a, b)) = IF a <= b THEN b - a + 1 ELSE 0
      /\ \A i \in 1 .. b - a + 1 : SubSeq(s, a, b)[i] = s[a + i - 1]
  BY <1>2, SubSeqProperties
<1>4. b - a + 1 = Len(s) - n /\ (IF a <= b THEN b - a + 1 ELSE 0) = Len(s) - n
  BY <1>1
<1>5. \A i \in 1 .. Len(s) - n : a + i - 1 = n + i BY <1>1
<1>6. QED BY Zenon, <1>1, <1>3, <1>4, <1>5 DEF From

(* A sequence is empty when its length is zero.                             *)
LEMMA EmptyLen ==
  ASSUME NEW s \in Seq(Nat)
  PROVE  Len(s) \in Nat /\ (s = <<>> <=> Len(s) = 0)
  BY Zenon, EmptySeq, LenProperties

-----------------------------------------------------------------------------
(* InFlow as it is used: some k, n and fin describe the call backs still to *)
(* begin.                                                                   *)
LEMMA FlowNow ==
  ASSUME Flow(0, 0, 0)
  PROVE  InFlow
<1>1. 0 \in 0 .. TCP_SND_BUF /\ 0 \in 0 .. TCP_WND /\ 0 \in 0 .. 1 BY Sizes
<1>2. QED BY <1>1, Zenon DEF InFlow

(* When no call back is to begin there is nothing to account for.           *)
LEMMA FlowNone ==
  ASSUME Flow(0, 0, 0)'
  PROVE  InFlow'
<1>1. 0 \in 0 .. TCP_SND_BUF /\ 0 \in 0 .. TCP_WND /\ 0 \in 0 .. 1 BY Sizes
<1>2. QED BY <1>1, Zenon DEF InFlow

(* InFlow as it is shown.                                                   *)
LEMMA FlowNext ==
  ASSUME NEW k \in 0 .. TCP_SND_BUF, NEW n \in 0 .. TCP_WND, NEW fin \in 0 .. 1,
         Flow(k, n, fin)'
  PROVE  InFlow'
  BY Zenon DEF InFlow

(* The invariant holds at first.                                            *)
LEMMA InvariantInit == Init => IInv
<1> SUFFICES ASSUME Init PROVE IInv
  BY Zenon
<1> USE Sizes DEF Init
<1>1. Types
  <2>1. buf \in Seq(Nat) /\ Len(buf) = 0 /\ socks_recv_buf \in Seq(Nat) /\ Len(socks_recv_buf) = 0
    BY Zenon, EmptySeq
  <2>2. /\ inCallback \in BOOLEAN /\ client_closed \in BOOLEAN /\ aborted \in BOOLEAN
        /\ socks_up \in BOOLEAN /\ socks_closed \in BOOLEAN /\ send_job \in BOOLEAN
    BY Zenon
  <2>3. QED BY <2>1, <2>2 DEF Types, PcbTypes, ClientTypes, DataTypes, SocksTypes
<1>2. Fresh /\ Owned /\ Called /\ Awake /\ NeverRefused
  BY DEF Fresh, Owned, Open, FreedWithBothSides, Called, Awake, NeverRefused
<1>3. Flow(0, 0, 0)
  BY Zenon, NoCallBacks DEF Flow, Rest
<1>4. InFlow BY Zenon, <1>3, FlowNow
<1>5. QED BY Zenon, <1>1, <1>2, <1>4 DEF IInv

(* listener_accept_func, with and without memory.                           *)
LEMMA AcceptKeeps ==
  ASSUME IInv, Accept \/ AcceptFails
  PROVE  IInv'
<1> USE Sizes
<1>1. CASE Accept
  <2>1. Types' BY Zenon, <1>1 DEF IInv, Types, PcbTypes, ClientTypes, DataTypes, SocksTypes, Accept, dataVars, socksVars, histVars
  <2>2. Fresh' /\ Owned' /\ Called' /\ Awake' /\ NeverRefused'
    BY Zenon, <1>1 DEF IInv, Types, PcbTypes, ClientTypes, DataTypes, SocksTypes, Fresh, Owned, Open, FreedWithBothSides, Called, Awake, NeverRefused, Accept, dataVars, socksVars, histVars
  <2>0. Rest' = <<>> BY <1>1 DEF Accept, Rest
  <2>. Len(buf') = 0 /\ rcv_wnd' = TCP_WND
    BY Zenon, <1>1, EmptyLen DEF IInv, Types, PcbTypes, ClientTypes, DataTypes, SocksTypes, Fresh, Accept, dataVars
  <2>. tcp_pending' = 0 /\ unacked' = 0
    BY Zenon, <1>1 DEF IInv, Fresh, Awake, Accept, dataVars
  <2>3. Flow(0, 0, 0)'
    <3>1. (Rest = CallBacksOf(0, 0, 0))' BY Zenon, <2>0, NoCallBacks
    <3>2. (inCallback \/ ~socks_up => 0 = 0)' BY Zenon
    <3>3. ("recv" \in cb => rcv_wnd + Len(buf) + 0 + 0 <= TCP_WND)' BY Sizes
    <3>4. (alloc = "live" /\ ~client_closed => tcp_pending = unacked + 0)' OBVIOUS
    <3>5. QED BY Zenon, <3>1, <3>2, <3>3, <3>4 DEF Flow
  <2>4. QED BY Zenon, <2>1, <2>2, <2>3, FlowNone DEF IInv
<1>2. CASE AcceptFails
  <2>1. Types' BY <1>2 DEF IInv, Types, PcbTypes, ClientTypes, DataTypes, SocksTypes, AcceptFails, TcpAbort, inputVars, clientVars, dataVars, socksVars, histVars
  <2>2. Fresh' /\ Owned' /\ Called' /\ Awake' /\ NeverRefused'
    BY Zenon, <1>2 DEF IInv, Types, PcbTypes, ClientTypes, DataTypes, SocksTypes, Fresh, Owned, Open, FreedWithBothSides, Called, Awake, NeverRefused, AcceptFails, TcpAbort, inputVars, clientVars, dataVars, socksVars, histVars
  <2>3. Flow(0, 0, 0)'
    BY Zenon, <1>2, NoCallBacks DEF IInv, Types, PcbTypes, ClientTypes, DataTypes, SocksTypes, Fresh, Awake, Flow, Rest, AcceptFails, TcpAbort, inputVars, clientVars, dataVars, socksVars, histVars
  <2>4. QED BY Zenon, <2>1, <2>2, <2>3, FlowNone DEF IInv
<1>3. QED BY Zenon, <1>1, <1>2

(* The return of a call back to lwIP, with ERR_ABRT or ERR_OK.              *)
LEMMA CallbackReturnsKeeps ==
  ASSUME IInv, CallbackReturns
  PROVE  IInv'
<1> USE DEF CallbackReturns, dataVars, socksVars, histVars
<1>1. Types' BY Zenon DEF IInv, Types, PcbTypes, ClientTypes, DataTypes, SocksTypes
<1>2. Fresh' /\ Owned' /\ Called' /\ Awake' /\ NeverRefused'
  BY DEF IInv, Types, PcbTypes, ClientTypes, DataTypes, SocksTypes, Fresh, Owned, Open, FreedWithBothSides, Called, NoJob,
         Awake, NeverRefused, ReturnsAbrt
<1>3. PICK k \in 0 .. TCP_SND_BUF, n \in 0 .. TCP_WND, fin \in 0 .. 1 : Flow(k, n, fin)
  BY Zenon DEF IInv, InFlow
<1>4. k = 0 BY Zenon, <1>3 DEF Flow
<1>5. CASE input' = Tail(input)
  <2>1. Rest' = Rest BY Zenon, <1>5 DEF Rest
  <2>2. Flow(k, n, fin)' BY Zenon, <1>3, <1>4, <2>1 DEF Flow
  <2>3. QED BY Zenon, <1>1, <1>2, <2>2, FlowNext DEF IInv
<1>6. CASE input' = <<>>
  <2>1. Rest' = <<>> BY Zenon, <1>6 DEF Rest
  <2>2. Flow(0, 0, 0)'
    <3>1. (Rest = CallBacksOf(0, 0, 0))' BY Zenon, <2>1, NoCallBacks
    <3>2. ("recv" \in cb => rcv_wnd + Len(buf) + 0 + 0 <= TCP_WND)'
      BY <1>3, Sizes, EmptyLen DEF Flow, IInv, Types, PcbTypes, ClientTypes, DataTypes, SocksTypes
    <3>3. (alloc = "live" /\ ~client_closed => tcp_pending = unacked + 0)'
      BY Zenon, <1>3, <1>4 DEF Flow
    <3>4. QED BY Zenon, <3>1, <3>2, <3>3 DEF Flow
  <2>3. QED BY Zenon, <1>1, <1>2, <2>2, FlowNone DEF IInv
<1>7. QED BY Zenon, <1>5, <1>6

(* A segment: the window is smaller by what it brings before the client     *)
(* gets it, and unacked by what it acknowledges before tcp_pending is.      *)
LEMMA SegmentKeeps ==
  ASSUME IInv, NEW k \in 0 .. TCP_SND_BUF, NEW n \in 0 .. TCP_WND,
         NEW fin \in 0 .. 1, Segment(k, n, fin)
  PROVE  IInv'
<1> USE Sizes DEF Segment, clientVars, dataVars, socksVars, histVars
<1>1. ~inCallback /\ alloc = "live" /\ ~client_closed
  BY Zenon DEF IInv, Called, Idle, Owned
<1>2. Types' BY DEF IInv, Types, PcbTypes, ClientTypes, DataTypes, SocksTypes
<1>3. Fresh' /\ Owned' /\ Called' /\ NeverRefused'
  BY Zenon, <1>1 DEF IInv, Types, PcbTypes, ClientTypes, DataTypes, SocksTypes, Fresh, Owned, Open, FreedWithBothSides, Called, NoJob,
         Idle, NeverRefused
<1>4. Awake'
  BY <1>1 DEF IInv, Types, PcbTypes, ClientTypes, DataTypes, SocksTypes, Awake
<1>5. PICK l \in 0 .. TCP_SND_BUF, m \in 0 .. TCP_WND, f \in 0 .. 1 : Flow(l, m, f)
  BY Zenon DEF IInv, InFlow
<1>6. l = 0 /\ m = 0 /\ f = 0
  <2>1. CallBacksOf(l, m, f) = <<>> BY Zenon, <1>1, <1>5 DEF Flow, Rest, Idle
  <2>2. QED BY <2>1, SomeCallBack
<1>7. Rest' = CallBacksOf(k, n, fin) BY Zenon, <1>1 DEF Rest
<1>8. Flow(k, n, fin)'
  <2>1. (inCallback \/ ~socks_up => k = 0)' BY <1>1 DEF IInv, Types, PcbTypes, ClientTypes, DataTypes, SocksTypes, Awake
  <2>2. ("recv" \in cb => rcv_wnd + Len(buf) + n + fin <= TCP_WND)'
    BY <1>5, <1>6, EmptyLen DEF Flow, IInv, Types, PcbTypes, ClientTypes, DataTypes, SocksTypes
  <2>3. (alloc = "live" /\ ~client_closed => tcp_pending = unacked + k)'
    BY <1>1, <1>5, <1>6 DEF Flow, IInv, Types, PcbTypes, ClientTypes, DataTypes, SocksTypes
  <2>4. QED BY Zenon, <1>7, <2>1, <2>2, <2>3 DEF Flow
<1>9. QED BY Zenon, <1>2, <1>3, <1>4, <1>8, FlowNext DEF IInv

-----------------------------------------------------------------------------
(* The first of the call backs still to begin, and the ones after it.       *)
LEMMA StartsWith ==
  ASSUME IInv, input # <<>>, ~inCallback
  PROVE  \E k \in 0 .. TCP_SND_BUF, n \in 0 .. TCP_WND, fin \in 0 .. 1 :
           /\ Flow(k, n, fin)
           /\ \/ /\ k > 0
                 /\ Head(input).ev = "sent" /\ Head(input).n = k
                 /\ Tail(input) = CallBacksOf(0, n, fin)
              \/ /\ k = 0 /\ n > 0
                 /\ Head(input).ev = "recv" /\ Head(input).n = n
                 /\ Tail(input) = CallBacksOf(0, 0, fin)
              \/ /\ k = 0 /\ n = 0 /\ fin = 1
                 /\ Head(input).ev = "fin"
                 /\ Tail(input) = CallBacksOf(0, 0, 0)
<1>1. PICK k \in 0 .. TCP_SND_BUF, n \in 0 .. TCP_WND, fin \in 0 .. 1 : Flow(k, n, fin)
  BY Zenon DEF IInv, InFlow
<1>2. input = CallBacksOf(k, n, fin) BY Zenon, <1>1 DEF Flow, Rest
<1>3. k \in Nat /\ n \in Nat BY Sizes
<1>4. CASE k > 0 BY Zenon, <1>1, <1>2, <1>3, <1>4, SentFirst
<1>5. CASE k = 0 /\ n > 0 BY Zenon, <1>1, <1>2, <1>3, <1>5, RecvFirst
<1>6. CASE k = 0 /\ n = 0 /\ fin = 1 BY Zenon, <1>1, <1>2, <1>6, FinFirst
<1>7. CASE k = 0 /\ n = 0 /\ fin = 0 BY Zenon, <1>2, <1>7, NoCallBacks
<1>8. QED BY <1>3, <1>4, <1>5, <1>6, <1>7

(* client_recv_func with data: by the window there is room in buf.          *)
LEMMA ClientRecvKeeps ==
  ASSUME IInv, Starts("recv"), ClientRecv(Head(input).n)
  PROVE  IInv'
<1> USE Sizes DEF Starts, ClientRecv, Begin, pcbVars, clientVars
<1>1. PICK n \in 0 .. TCP_WND, fin \in 0 .. 1 :
        Flow(0, n, fin) /\ n > 0 /\ Head(input).n = n /\ Tail(input) = CallBacksOf(0, 0, fin)
  BY Zenon, StartsWith
<1>2. /\ rcv_wnd + Len(buf) + n + fin <= TCP_WND /\ Len(buf) \in Nat
      /\ rcv_wnd \in Nat
  BY <1>1, EmptyLen DEF Flow, IInv, Types, PcbTypes, ClientTypes, DataTypes, SocksTypes
<1>3. /\ buf' = buf \o Bytes(upIn + 1, upIn + n) /\ upIn' = upIn + n /\ why' = why
      /\ IF buf = <<>> /\ socks_up
         THEN send_len' = n /\ send_job' = TRUE
         ELSE UNCHANGED <<send_len, send_job>>
  <2>1. rcv_wnd >= 0 /\ rcv_wnd \in Int BY DEF IInv, Types, PcbTypes, ClientTypes, DataTypes, SocksTypes
  <2>2. ~(n > TCP_WND - Len(buf)) BY <1>1, <1>2, <2>1
  <2>3. QED BY Zenon, <1>1, <2>2
<1>4. buf' \in Seq(Nat) /\ Len(buf') = Len(buf) + n
  <2>1. buf \in Seq(Nat) /\ upIn \in Nat /\ n \in Nat BY DEF IInv, Types, PcbTypes, ClientTypes, DataTypes, SocksTypes
  <2>2. Bytes(upIn + 1, upIn + n) \in Seq(Nat) /\ Len(Bytes(upIn + 1, upIn + n)) = n
    BY Zenon, <2>1, BytesType
  <2>3. QED BY <1>3, <2>1, <2>2, ConcatProperties
<1>5. buf' # <<>> BY <1>1, <1>2, <1>4, EmptyLen
<1>6. Types'
  <2>1. send_len' \in 0 .. Len(buf') /\ send_job' \in BOOLEAN
    <3>1. send_len \in 0 .. Len(buf) /\ send_job \in BOOLEAN BY Zenon DEF IInv, Types, PcbTypes, ClientTypes, DataTypes, SocksTypes
    <3>2. CASE buf = <<>> /\ socks_up BY <1>2, <1>3, <1>4, <3>2
    <3>3. CASE ~(buf = <<>> /\ socks_up) BY <1>2, <1>3, <1>4, <3>1, <3>3
    <3>4. QED BY Zenon, <3>2, <3>3
  <2>2. Len(buf') <= TCP_WND BY <1>2, <1>4
  <2>. upIn' \in Nat BY <1>3 DEF IInv, Types, PcbTypes, ClientTypes, DataTypes, SocksTypes
  <2>3. QED BY <1>4, <2>1, <2>2 DEF IInv, Types, PcbTypes, ClientTypes, DataTypes, SocksTypes
<1>7. Fresh' /\ Owned' /\ Called' /\ NeverRefused'
  BY Zenon, <1>1, <1>3 DEF IInv, Types, PcbTypes, ClientTypes, DataTypes, SocksTypes, Fresh, Owned, Open, FreedWithBothSides, Called,
     NoJob, NeverRefused
<1>8. Awake'
  BY Zenon, <1>1, <1>3, <1>5, EmptyLen DEF IInv, Types, PcbTypes, ClientTypes, DataTypes, SocksTypes, Owned, Awake
<1>9. Rest' = CallBacksOf(0, 0, fin) BY Zenon, <1>1 DEF Rest
<1>10. Flow(0, 0, fin)'
  BY <1>1, <1>2, <1>4, <1>9 DEF Flow, IInv, Types, PcbTypes, ClientTypes, DataTypes, SocksTypes
<1>11. QED BY <1>6, <1>7, <1>8, <1>10, FlowNext DEF IInv

(* The recv call back: client_recv_func, tcp_recv_null, or the data of a    *)
(* pcb that was closed.                                                     *)
LEMMA RecvKeeps ==
  ASSUME IInv, RecvEvent
  PROVE  IInv'
<1> USE Sizes DEF RecvEvent, Starts
<1>1. CASE ClientRecv(Head(input).n)
  BY Zenon, <1>1, ClientRecvKeeps
<1>2. CASE DiscardData(Head(input).n)
  <2> USE <1>2 DEF DiscardData, Skip, clientVars, dataVars, socksVars, histVars
  <2>1. PICK n \in 0 .. TCP_WND, fin \in 0 .. 1 :
          Flow(0, n, fin) /\ n > 0 /\ Head(input).n = n /\ Tail(input) = CallBacksOf(0, 0, fin)
    BY Zenon, StartsWith
  <2>2. Types' BY <2>1 DEF IInv, Types, PcbTypes, ClientTypes, DataTypes, SocksTypes, Smaller
  <2>3. Fresh' /\ Owned' /\ Called' /\ Awake' /\ NeverRefused'
    BY Zenon DEF IInv, Types, PcbTypes, ClientTypes, DataTypes, SocksTypes, Fresh, Owned, Open, FreedWithBothSides, Called, NoJob,
           Awake, NeverRefused
  <2>4. Rest' = CallBacksOf(0, 0, fin) BY Zenon, <2>1 DEF Rest
  <2>5. Flow(0, 0, fin)' BY Zenon, <2>1, <2>4 DEF Flow
  <2>6. QED BY <2>2, <2>3, <2>5, FlowNext DEF IInv
<1>3. CASE DataAfterClose
  <2> USE <1>3 DEF DataAfterClose, TcpAbort, clientVars, dataVars, socksVars, histVars
  <2>1. Types' BY DEF IInv, Types, PcbTypes, ClientTypes, DataTypes, SocksTypes
  <2>2. Fresh' /\ Owned' /\ Called' /\ Awake' /\ NeverRefused'
    BY Zenon DEF IInv, Types, PcbTypes, ClientTypes, DataTypes, SocksTypes, Fresh, Owned, Open, FreedWithBothSides, Called, NoJob,
           Awake, NeverRefused
  <2>3. Rest' = <<>> BY Zenon DEF Rest
  <2>4. (Rest = CallBacksOf(0, 0, 0))' BY Zenon, <2>3, NoCallBacks
  <2>5. Flow(0, 0, 0)' BY Zenon, <2>4 DEF Flow, IInv, Owned
  <2>6. QED BY Zenon, <2>1, <2>2, <2>5, FlowNone DEF IInv
<1>4. QED BY Zenon, <1>1, <1>2, <1>3

(* The SOCKS connection without operations is well typed.                   *)
LEMMA NoOpTypes ==
  ASSUME buf' \in Seq(Nat), NoSocksOp
  PROVE  SocksTypes'
<1>1. Len(buf') \in Nat BY Zenon, EmptyLen
<1>2. send_len' \in 0 .. Len(buf') BY <1>1 DEF NoSocksOp
<1>3. send_job' \in BOOLEAN BY Zenon DEF NoSocksOp
<1>4. recv_op' \in {"none", "job", "busy"} BY Zenon DEF NoSocksOp
<1>5. QED BY Zenon, <1>2, <1>3, <1>4 DEF SocksTypes

(* What client_handle_freed_client leaves of a client: nothing, or what     *)
(* sends the rest of its buffer.                                            *)
ClosedSide ==
  /\ client_closed' = TRUE /\ cb' = {} /\ aborted' \in BOOLEAN /\ dead' \in {-1, 0, 1}
  /\ \/ alloc' = "freed" /\ socks_closed' = TRUE /\ NoSocksOp
     \/ /\ alloc' = "live" /\ socks_closed' = FALSE /\ ~socks_closed
        /\ UNCHANGED <<send_len, send_job>>
        /\ recv_op' \in {"none", recv_op}

(* client_handle_freed_client closes the app's side, and the client as well *)
(* if there is nothing left to send to the server.                          *)
LEMMA FreedClient ==
  ASSUME IInv, alloc = "live", HandleFreedClient(FALSE)
  PROVE  ClosedSide
  BY Zenon DEF HandleFreedClient, KeepSendingToSocks, Dealloc, IInv, Types, PcbTypes,
         ClientTypes, ClosedSide

(* The same after tcp_abort, which the running call back will report.       *)
LEMMA AbortedClient ==
  ASSUME IInv, alloc = "live", HandleFreedClient(TRUE)
  PROVE  ClosedSide /\ aborted' = TRUE /\ dead' = 1 /\ recv_op' = "none"
  BY Zenon DEF HandleFreedClient, KeepSendingToSocks, Dealloc, IInv, Types, PcbTypes,
         ClientTypes, ClosedSide, NoSocksOp

(* Closing the app's side keeps the invariant.                              *)
LEMMA ClosedKeeps ==
  ASSUME IInv, alloc = "live", ~client_closed, ClosedSide,
         UNCHANGED <<buf, upIn, socks_up>>,
         state' \in {"TIME_WAIT", "closed", "FIN_SENT", "freed"},
         rcv_wnd' \in 0 .. TCP_WND, unacked' \in {0, unacked},
         socks_recv_buf' \in Seq(Nat),
         Len(socks_recv_buf') <= CLIENT_SOCKS_RECV_BUF_SIZE,
         tcp_pending' \in Nat, downIn' \in Nat,
         ~socks_up => tcp_pending' = 0 /\ socks_recv_buf' = <<>>,
         recv_op' # "none" => socks_recv_buf' = <<>>,
         NEW n \in 0 .. TCP_WND, NEW fin \in 0 .. 1,
         Rest' = CallBacksOf(0, n, fin),
         inCallback' \in BOOLEAN, inCallback' => input' # <<>>,
         input' # <<>> => inCallback',
         inCallback' /\ state' = "freed" => aborted' /\ dead' = 1,
         "refused" \notin why'
  PROVE  IInv'
<1>1. PcbTypes'
  <2>1. unacked' \in 0 .. TCP_SND_BUF BY Sizes DEF IInv, Types, PcbTypes
  <2>2. cb' \subseteq {"err", "recv", "sent"} /\ dead' \in {-1, 0, 1} BY Zenon DEF ClosedSide
  <2>3. QED BY Zenon, <2>1, <2>2 DEF PcbTypes
<1>2. ClientTypes' BY Zenon DEF IInv, Types, ClientTypes, ClosedSide
<1>3. DataTypes' BY Zenon DEF IInv, Types, DataTypes
<1>4. SocksTypes'
  <2>1. buf' = buf /\ Len(buf) \in Nat BY Zenon, EmptyLen DEF IInv, Types, DataTypes
  <2>2. CASE NoSocksOp BY Zenon, <2>1, <2>2, NoOpTypes DEF IInv, Types, DataTypes
  <2>3. CASE UNCHANGED <<send_len, send_job>> /\ recv_op' \in {"none", recv_op}
    BY Zenon, <2>1, <2>3 DEF IInv, Types, SocksTypes
  <2>4. QED BY Zenon, <2>2, <2>3 DEF ClosedSide
<1>5. Fresh' BY Zenon DEF Fresh, ClosedSide
<1>6. Owned'
  BY DEF IInv, Types, ClientTypes, SocksTypes, Owned, Open, FreedWithBothSides,
         ClosedSide, NoSocksOp
<1>7. Called' BY Zenon DEF Called, ClosedSide
<1>8. Awake'
  BY Zenon DEF IInv, Types, PcbTypes, ClientTypes, SocksTypes, Awake, ClosedSide, NoSocksOp
<1>9. Flow(0, n, fin)' BY Zenon DEF Flow, ClosedSide
<1>10. InFlow'
  <2>1. 0 \in 0 .. TCP_SND_BUF BY Sizes
  <2>2. QED BY Zenon, <1>9, <2>1, FlowNext
<1>11. QED
  BY Zenon, <1>1, <1>2, <1>3, <1>4, <1>5, <1>6, <1>7, <1>8, <1>10
     DEF IInv, Types, NeverRefused

(* client_recv_func without data.                                           *)
LEMMA FinKeeps ==
  ASSUME IInv, FinEvent
  PROVE  IInv'
<1> USE Sizes DEF FinEvent, Starts, dataVars
<1>1. Tail(input) = CallBacksOf(0, 0, 0)
  BY Zenon, StartsWith
<1>2. rcv_wnd' \in 0 .. TCP_WND BY DEF IInv, Types, PcbTypes
<1>3. CASE "recv" \in cb /\ Begin
  <2> USE <1>3 DEF Begin, FreeClient
  <2>1. /\ state' \in {"TIME_WAIT", "closed", "FIN_SENT"}
        /\ unacked' \in {0, unacked}
    BY Zenon DEF TcpClose
  <2>2. alloc = "live" /\ ~client_closed
    BY Zenon DEF IInv, Owned
  <2>3. Rest' = CallBacksOf(0, 0, 0) BY Zenon, <1>1 DEF Rest
  <2>4. /\ HandleFreedClient(FALSE)
        /\ UNCHANGED <<buf, upIn, socks_up, socks_recv_buf, tcp_pending, downIn>>
        /\ inCallback' = TRUE /\ input' = input /\ input # <<>>
        /\ why' = why \cup {"fin"}
    BY Zenon
  <2> HIDE <1>3 DEF FinEvent
  <2>5. QED
    <3>1. ClosedSide BY Zenon, <2>2, <2>4, FreedClient
    <3>2. recv_op' # "none" => socks_recv_buf' = <<>>
      BY Zenon, <2>4, <3>1 DEF ClosedSide, NoSocksOp, IInv, Awake
    <3>3. 0 \in 0 .. TCP_WND /\ 0 \in 0 .. 1 BY Sizes
    <3>4. "refused" \notin why' BY Zenon, <2>4 DEF IInv, NeverRefused
    <3>5. /\ socks_recv_buf' \in Seq(Nat) /\ tcp_pending' \in Nat /\ downIn' \in Nat
          /\ Len(socks_recv_buf') <= CLIENT_SOCKS_RECV_BUF_SIZE
          /\ ~socks_up => tcp_pending' = 0 /\ socks_recv_buf' = <<>>
      BY Zenon, <2>4 DEF IInv, Types, DataTypes, Awake
    <3>6. QED
      BY Zenon, <1>2, <2>1, <2>2, <2>3, <2>4, <3>1, <3>2, <3>3, <3>4, <3>5, ClosedKeeps
<1>4. CASE "recv" \notin cb /\ Skip
  <2> USE <1>4 DEF Skip, clientVars, socksVars
  <2>1. PICK fin \in 0 .. 1 : Flow(0, 0, fin) BY Zenon, StartsWith
  <2>. PcbTypes' BY Zenon, <1>2 DEF IInv, Types, PcbTypes
  <2>. ClientTypes' BY Zenon DEF IInv, Types, ClientTypes
  <2>. DataTypes' BY Zenon DEF IInv, Types, DataTypes
  <2>. SocksTypes' BY Zenon DEF IInv, Types, SocksTypes
  <2>2. Types' BY Zenon DEF Types
  <2>3. Fresh' /\ Owned' /\ Called' /\ Awake' /\ NeverRefused'
    BY DEF IInv, Types, PcbTypes, ClientTypes, SocksTypes, Fresh, Owned, Open, FreedWithBothSides, Called, NoJob,
           Awake, NeverRefused
  <2>4. Rest' = CallBacksOf(0, 0, 0) BY Zenon, <1>1 DEF Rest
  <2>5. Flow(0, 0, 0)' BY Zenon, <2>1, <2>4 DEF Flow
  <2>6. QED BY Zenon, <2>2, <2>3, <2>5, FlowNone DEF IInv
<1>5. QED BY Zenon, <1>3, <1>4

(* BSOCKSCLIENT_EVENT_UP: both directions are started.                      *)
LEMMA SocksUpKeeps ==
  ASSUME IInv, SocksUp
  PROVE  IInv'
<1> USE Sizes DEF SocksUp, SocksMayReport, SendAtUp, inputVars, dataVars, histVars
<1>1. Len(buf) \in Nat /\ (Len(buf) > 0 <=> buf # <<>>)
  BY EmptyLen DEF IInv, Types, PcbTypes, ClientTypes, DataTypes, SocksTypes
<1>2. inCallback \/ input = <<>>
  BY Zenon, StartsWith
<1>3. Types' BY <1>1 DEF IInv, Types, PcbTypes, ClientTypes, DataTypes, SocksTypes
<1>4. Fresh' /\ Owned' /\ Called' /\ NeverRefused'
  BY Zenon, <1>1, <1>2 DEF IInv, Types, PcbTypes, ClientTypes, DataTypes, SocksTypes, Fresh, Owned, Open, FreedWithBothSides, Called,
     NoJob, NeverRefused
<1>5. Awake' BY Zenon, <1>1 DEF IInv, Types, PcbTypes, ClientTypes, DataTypes, SocksTypes, Awake
<1>6. PICK k \in 0 .. TCP_SND_BUF, n \in 0 .. TCP_WND, fin \in 0 .. 1 : Flow(k, n, fin)
  BY Zenon DEF IInv, InFlow
<1>7. Rest' = Rest BY Zenon DEF Rest
<1>8. Flow(k, n, fin)' BY Zenon, <1>6, <1>7 DEF Flow
<1>9. QED BY Zenon, <1>3, <1>4, <1>5, <1>8, FlowNext DEF IInv

(* A write or a read that has to wait for the fd.                           *)
LEMMA BlocksKeep ==
  ASSUME IInv, WriteBlocks \/ ReadBlocks
  PROVE  IInv'
<1> USE DEF WriteBlocks, ReadBlocks, pcbVars, inputVars, clientVars, dataVars, histVars
<1>. PcbTypes' BY Zenon DEF IInv, Types, PcbTypes
<1>. ClientTypes' BY Zenon DEF IInv, Types, ClientTypes
<1>. DataTypes' BY Zenon DEF IInv, Types, DataTypes
<1>. SocksTypes' BY Zenon, EmptyLen DEF IInv, Types, DataTypes, SocksTypes
<1>1. Types' BY Zenon DEF Types
<1>2. Fresh' /\ Owned' /\ Called' /\ NeverRefused'
  BY DEF IInv, Types, PcbTypes, ClientTypes, DataTypes, SocksTypes, Fresh, Owned, Open, FreedWithBothSides, Called,
     NoJob, NeverRefused
<1>3. Awake' BY Zenon DEF IInv, Types, PcbTypes, ClientTypes, DataTypes, SocksTypes, Awake
<1>4. PICK k \in 0 .. TCP_SND_BUF, n \in 0 .. TCP_WND, fin \in 0 .. 1 : Flow(k, n, fin)
  BY Zenon DEF IInv, InFlow
<1>5. Rest' = Rest BY DEF Rest
<1>6. Flow(k, n, fin)' BY <1>4, <1>5 DEF Flow
<1>7. QED BY Zenon, <1>1, <1>2, <1>3, <1>6, FlowNext DEF IInv

(* client_err_func.                                                         *)
LEMMA PcbErrorKeeps ==
  ASSUME IInv, PcbError
  PROVE  IInv'
<1> USE Sizes DEF PcbError, TcpAbort, Idle, inputVars, dataVars
<1>1. alloc = "live" /\ ~client_closed /\ ~inCallback
  BY Zenon DEF IInv, Owned, Called
<1>2. ClosedSide BY Zenon, <1>1, FreedClient
<1>3. Rest' = CallBacksOf(0, 0, 0) BY Zenon, <1>1, NoCallBacks DEF Rest
<1>4. recv_op' # "none" => socks_recv_buf' = <<>>
  BY Zenon, <1>2 DEF ClosedSide, NoSocksOp, IInv, Awake
<1>5. 0 \in 0 .. TCP_WND /\ 0 \in 0 .. 1 OBVIOUS
<1>6. "refused" \notin why' BY Zenon DEF IInv, NeverRefused
<1>7. /\ socks_recv_buf' \in Seq(Nat) /\ tcp_pending' \in Nat /\ downIn' \in Nat
      /\ Len(socks_recv_buf') <= CLIENT_SOCKS_RECV_BUF_SIZE
      /\ ~socks_up => tcp_pending' = 0 /\ socks_recv_buf' = <<>>
  BY Zenon DEF IInv, Types, DataTypes, Awake
<1>8. rcv_wnd' \in 0 .. TCP_WND BY Zenon DEF IInv, Types, PcbTypes
<1>9. state' = "freed" /\ unacked' = 0 /\ UNCHANGED <<buf, upIn, socks_up>>
      /\ inCallback' = FALSE /\ input' = <<>>
  BY Zenon, <1>1 DEF IInv, Types, PcbTypes
<1> HIDE DEF PcbError
<1>10. QED
  BY Zenon, <1>1, <1>2, <1>3, <1>4, <1>5, <1>6, <1>7, <1>8, <1>9, ClosedKeeps

(* client_free_socks: if the client stays there is an acknowledgement to    *)
(* come.                                                                    *)
LEMMA FreeSocksKeeps ==
  ASSUME IInv, alloc = "live", ~socks_closed, FreeSocks,
         buf' \in Seq(Nat), Len(buf') <= TCP_WND, rcv_wnd' \in 0 .. TCP_WND,
         UNCHANGED <<input, inCallback, socks_recv_buf, tcp_pending, upIn, downIn>>,
         "refused" \notin why',
         inCallback \/ input = <<>>
  PROVE  IInv'
<1> USE DEF FreeSocks, Dealloc, NoSocksOp
<1>1. CASE KeepSendingToClient
  <2>1. /\ UNCHANGED <<state, unacked, alloc, client_closed, dead, socks_up, aborted>>
        /\ cb' = cb \ {"recv"} /\ socks_closed' = TRUE
        /\ send_len' = 0 /\ send_job' = FALSE /\ recv_op' = "none"
        /\ socks_up /\ ~client_closed
    BY Zenon, <1>1 DEF KeepSendingToClient
  <2>2. tcp_pending > 0 /\ tcp_pending \in Nat
    BY Zenon, <1>1, <2>1 DEF KeepSendingToClient, IInv, Awake, Types, DataTypes
  <2> HIDE DEF FreeSocks
  <2>3. PcbTypes' BY Zenon, <2>1 DEF IInv, Types, PcbTypes
  <2>4. ClientTypes' BY Zenon, <2>1 DEF IInv, Types, ClientTypes
  <2>5. DataTypes' BY Zenon DEF IInv, Types, DataTypes
  <2>6. SocksTypes' BY Zenon, <2>1, NoOpTypes
  <2>7. Fresh' /\ Called' /\ NeverRefused'
    BY Zenon, <2>1 DEF IInv, Fresh, Called, NoJob, NeverRefused
  <2>8. Owned' BY <2>1 DEF IInv, Owned, Open, FreedWithBothSides
  <2>9. Awake' BY Zenon, <2>1, <2>2 DEF IInv, Awake
  <2>10. PICK k \in 0 .. TCP_SND_BUF, n \in 0 .. TCP_WND, fin \in 0 .. 1 : Flow(k, n, fin)
    BY Zenon DEF IInv, InFlow
  <2>11. Rest' = Rest BY Zenon DEF Rest
  <2>12. Flow(k, n, fin)' BY Zenon, <2>1, <2>10, <2>11 DEF Flow
  <2>13. QED
    BY Zenon, <2>3, <2>4, <2>5, <2>6, <2>7, <2>8, <2>9, <2>12, FlowNext DEF IInv, Types
<1>2. CASE ~KeepSendingToClient
  <2>1. /\ UNCHANGED <<socks_up, aborted>>
        /\ cb' = {} /\ socks_closed' = TRUE /\ client_closed' = TRUE /\ alloc' = "freed"
        /\ dead' = IF aborted THEN dead ELSE -1
        /\ send_len' = 0 /\ send_job' = FALSE /\ recv_op' = "none"
    BY Zenon, <1>2
  <2>2. \/ client_closed /\ UNCHANGED <<state, unacked>>
        \/ /\ ~client_closed /\ state' \in {"TIME_WAIT", "closed", "freed", "FIN_SENT"}
           /\ unacked' \in {0, unacked}
           /\ input # <<>> => state' # "freed"
    BY Zenon, <1>2 DEF TcpClose
  <2> HIDE DEF FreeSocks
  <2>3. PcbTypes'
    <3>1. unacked' \in 0 .. TCP_SND_BUF BY <2>2, Sizes DEF IInv, Types, PcbTypes
    <3>2. dead' \in {-1, 0, 1} BY Zenon, <2>1 DEF IInv, Types, PcbTypes
    <3>3. state' \in {"SYN_RCVD", "ESTABLISHED", "CLOSE_WAIT", "FIN_SENT",
                "TIME_WAIT", "closed", "freed"}
      BY Zenon, <2>2 DEF IInv, Types, PcbTypes
    <3>4. inCallback' \in BOOLEAN BY Zenon DEF IInv, Types, PcbTypes
    <3>5. QED BY Zenon, <2>1, <3>1, <3>2, <3>3, <3>4 DEF PcbTypes
  <2>4. ClientTypes' BY Zenon, <2>1 DEF IInv, Types, ClientTypes
  <2>5. DataTypes' BY Zenon DEF IInv, Types, DataTypes
  <2>6. SocksTypes' BY Zenon, <2>1, NoOpTypes
  <2>7. Fresh' /\ Called' /\ NeverRefused'
    BY Zenon, <2>1, <2>2 DEF IInv, Fresh, Called, NoJob, NeverRefused
  <2>8. Owned' BY <2>1, <2>2 DEF IInv, Owned, Open, FreedWithBothSides
  <2>9. Awake' BY Zenon, <2>1, <2>2 DEF IInv, Awake
  <2>10. PICK k \in 0 .. TCP_SND_BUF, n \in 0 .. TCP_WND, fin \in 0 .. 1 : Flow(k, n, fin)
    BY Zenon DEF IInv, InFlow
  <2>11. Rest' = Rest BY Zenon DEF Rest
  <2>12. Flow(k, n, fin)' BY Zenon, <2>1, <2>10, <2>11 DEF Flow
  <2>13. QED
    BY Zenon, <2>3, <2>4, <2>5, <2>6, <2>7, <2>8, <2>9, <2>12, FlowNext DEF IInv, Types
<1>3. QED BY Zenon, <1>1, <1>2

(* An error or the end of the SOCKS connection.                             *)
LEMMA SocksFailKeeps ==
  ASSUME IInv, NEW reason, reason # "refused", SocksFails(reason),
         SocksMayReport \/ Writing \/ Reading
  PROVE  IInv'
<1> USE DEF SocksFails, inputVars, dataVars
<1>1. alloc = "live" /\ ~socks_closed
  BY Zenon DEF SocksMayReport, Writing, Reading, IInv, Owned
<1>2. inCallback \/ input = <<>>
  <2>1. CASE SocksMayReport BY Zenon, <2>1, StartsWith DEF SocksMayReport
  <2>2. CASE Writing \/ Reading
    BY Zenon, <2>2 DEF Writing, Reading, Idle, NoJob, IInv, Called
  <2>3. QED BY Zenon, <2>1, <2>2
<1>3. "refused" \notin why' BY Zenon DEF IInv, NeverRefused
<1>4. buf' \in Seq(Nat) /\ Len(buf') <= TCP_WND /\ rcv_wnd' \in 0 .. TCP_WND
  BY Zenon DEF IInv, Types, PcbTypes, DataTypes
<1>5. QED BY Zenon, <1>1, <1>2, <1>3, <1>4, FreeSocksKeeps

(* client_socks_send_handler_done: the window grows by what leaves buf.     *)
LEMMA WriteDoneKeeps ==
  ASSUME IInv, NEW n \in 1 .. TCP_WND, WriteDone(n)
  PROVE  IInv'
<1> USE Sizes DEF WriteDone, RemoveSent, ClientDone, inputVars
<1>1. /\ alloc = "live" /\ socks_up /\ ~socks_closed
      /\ inCallback \/ input = <<>>
      /\ send_len \in 0 .. Len(buf)
  BY Zenon DEF Writing, Idle, NoJob, IInv, Owned, Called, Types, SocksTypes
<1>2. buf \in Seq(Nat) /\ Len(buf) \in Nat /\ n \in 0 .. Len(buf) /\ Len(buf) <= TCP_WND
  BY <1>1, EmptyLen DEF IInv, Types, DataTypes
<1>3. buf' \in Seq(Nat) /\ Len(buf') = Len(buf) - n /\ Len(buf') \in Nat
  <2>1. buf' = From(buf, n + 1) BY Zenon
  <2> HIDE DEF WriteDone, RemoveSent
  <2>2. From(buf, n + 1) \in Seq(Nat) /\ Len(From(buf, n + 1)) = Len(buf) - n
    BY <1>2, FromType, Zenon
  <2>3. Len(buf) - n \in Nat BY <1>2
  <2>4. QED BY Zenon, <2>1, <2>2, <2>3
<1>4. /\ rcv_wnd' \in 0 .. TCP_WND
      /\ ~client_closed => rcv_wnd' <= rcv_wnd + n
      /\ rcv_wnd \in Nat
  BY DEF Credit, Smaller, IInv, Types, PcbTypes, ClientTypes
<1>5. CASE buf' = <<>> /\ client_closed
  BY <1>1, <1>2, <1>3, <1>4, <1>5, FreeSocksKeeps DEF IInv, NeverRefused
<1>6. CASE ~(buf' = <<>> /\ client_closed)
  <2>1. /\ send_len' = Len(buf') /\ send_job' = (buf' # <<>>)
        /\ UNCHANGED <<state, unacked, cb, alloc, client_closed, aborted, socks_up,
                       socks_closed, dead, recv_op, input, inCallback,
                       socks_recv_buf, tcp_pending, upIn, downIn, why>>
    BY Zenon, <1>6 DEF clientVars
  <2>2. buf' = <<>> <=> Len(buf') = 0 BY Zenon, <1>3, EmptyLen
  <2> HIDE DEF WriteDone
  <2>3. PcbTypes' BY Zenon, <1>4, <2>1 DEF IInv, Types, PcbTypes
  <2>4. ClientTypes' BY Zenon, <2>1 DEF IInv, Types, ClientTypes
  <2>5. DataTypes' BY <1>2, <1>3, <2>1 DEF IInv, Types, DataTypes
  <2>6. SocksTypes' BY <1>3, <2>1 DEF IInv, Types, SocksTypes
  <2>7. Fresh' /\ Called' /\ NeverRefused'
    BY Zenon, <1>1, <2>1 DEF IInv, Fresh, Called, NoJob, NeverRefused
  <2>8. Owned'
    <3>1. send_job' => buf' # <<>> BY <2>1, Zenon
    <3>2. send_job' => send_len' > 0 BY <1>3, <2>1, <2>2, <3>1
    <3>3. QED BY Zenon, <1>1, <2>1, <3>2 DEF IInv, Owned, Open, FreedWithBothSides
  <2>9. Awake' BY <1>3, <2>1, <2>2 DEF IInv, Awake
  <2>10. PICK k \in 0 .. TCP_SND_BUF, m \in 0 .. TCP_WND, fin \in 0 .. 1 : Flow(k, m, fin)
    BY Zenon DEF IInv, InFlow
  <2>11. Rest' = Rest BY Zenon, <2>1 DEF Rest
  <2>12. Flow(k, m, fin)'
    <3>1. ("recv" \in cb => rcv_wnd + Len(buf) + m + fin <= TCP_WND)'
      <4>1. SUFFICES ASSUME "recv" \in cb
                     PROVE  rcv_wnd' + Len(buf') + m + fin <= TCP_WND
        BY Zenon, <2>1
      <4>2. ~client_closed BY Zenon, <4>1 DEF IInv, Owned
      <4>3. rcv_wnd + Len(buf) + m + fin <= TCP_WND BY Zenon, <2>10, <4>1 DEF Flow
      <4>4. rcv_wnd' <= rcv_wnd + n /\ rcv_wnd' \in Int BY <1>4, <4>2
      <4> HIDE DEF WriteDone
      <4>5. PICK l \in Nat : l = Len(buf) BY Zenon, <1>2
      <4>6. Len(buf') = l - n BY Zenon, <1>3, <4>5
      <4>7. rcv_wnd + l + m + fin <= TCP_WND BY Zenon, <4>3, <4>5
      <4>8. PICK a \in Int, b \in Int : a = rcv_wnd /\ b = rcv_wnd' BY <1>4, <4>4
      <4>9. a + l + m + fin <= TCP_WND /\ b <= a + n BY Zenon, <4>4, <4>7, <4>8
      <4>10. b + (l - n) + m + fin <= TCP_WND BY <4>9
      <4>11. QED BY Zenon, <4>6, <4>8, <4>10
    <3>2. QED BY Zenon, <2>1, <2>10, <2>11, <3>1 DEF Flow
  <2>13. QED
    BY Zenon, <2>3, <2>4, <2>5, <2>6, <2>7, <2>8, <2>9, <2>12, FlowNext DEF IInv, Types
<1>7. QED BY Zenon, <1>5, <1>6

(* The end of a closed pcb, and client_murder.                              *)
LEMMA EndKeeps ==
  ASSUME IInv, PcbDrains \/ Murder
  PROVE  IInv'
<1> USE Sizes DEF Idle
<1>1. ~inCallback /\ input = <<>> BY Zenon DEF PcbDrains, Murder, IInv, Called
<1>2. CASE PcbDrains
  <2> USE <1>2 DEF PcbDrains, TcpAbort, inputVars, clientVars, dataVars, socksVars, histVars
  <2>1. PcbTypes' BY DEF IInv, Types, PcbTypes
  <2>2. ClientTypes' /\ DataTypes' /\ SocksTypes'
    BY Zenon DEF IInv, Types, ClientTypes, DataTypes, SocksTypes
  <2>3. Fresh' /\ Called' /\ NeverRefused'
    BY Zenon, <1>1 DEF IInv, Fresh, Called, NoJob, NeverRefused
  <2>4. Owned' BY Zenon DEF IInv, Owned, Open, FreedWithBothSides
  <2>5. Awake' BY Zenon DEF IInv, Awake
  <2>6. Rest' = CallBacksOf(0, 0, 0) BY Zenon, <1>1, NoCallBacks DEF Rest
  <2>7. Flow(0, 0, 0)' BY Zenon, <2>4, <2>6 DEF Flow, Owned, Open
  <2>8. QED BY Zenon, <2>1, <2>2, <2>3, <2>4, <2>5, <2>7, FlowNone DEF IInv, Types
<1>3. CASE Murder
  <2> USE <1>3 DEF Murder, TcpAbort, inputVars, dataVars
  <2>1. /\ \/ client_closed /\ UNCHANGED <<state, unacked, aborted, dead>>
           \/ state' = "freed" /\ unacked' = 0 /\ aborted' = TRUE /\ dead' = 1
        /\ client_closed' = TRUE /\ cb' = {} /\ socks_closed' = TRUE /\ NoSocksOp
        /\ alloc' = "freed" /\ why' = why \cup {"quit"}
        /\ UNCHANGED <<rcv_wnd, input, inCallback, buf, socks_recv_buf, tcp_pending,
                       socks_up, upIn, downIn>>
    BY Zenon
  <2> HIDE <1>3 DEF Murder
  <2>2. PcbTypes' BY <2>1 DEF IInv, Types, PcbTypes
  <2>3. ClientTypes' BY Zenon, <2>1 DEF IInv, Types, ClientTypes
  <2>4. DataTypes' BY Zenon, <2>1 DEF IInv, Types, DataTypes
  <2>5. SocksTypes' BY Zenon, <2>1, NoOpTypes DEF IInv, Types, DataTypes
  <2>6. Fresh' /\ Called' /\ NeverRefused'
    BY Zenon, <1>1, <2>1 DEF IInv, Fresh, Called, NoJob, NeverRefused
  <2>7. Owned' BY <2>1 DEF NoSocksOp, IInv, Owned, Open, FreedWithBothSides
  <2>8. Awake' BY Zenon, <2>1 DEF NoSocksOp, IInv, Awake
  <2>9. Rest' = CallBacksOf(0, 0, 0) BY Zenon, <1>1, <2>1, NoCallBacks DEF Rest
  <2>10. Flow(0, 0, 0)' BY Zenon, <2>1, <2>9 DEF Flow
  <2>11. QED BY Zenon, <2>2, <2>3, <2>4, <2>5, <2>6, <2>7, <2>8, <2>10, FlowNone DEF IInv, Types
<1>4. QED BY Zenon, <1>2, <1>3

(* What client_socks_recv_send_out writes fits the send buffer.             *)
LEMMA FitsBound ==
  ASSUME IInv, NEW data \in Seq(Nat), NEW k \in {0, Fits(data)}
  PROVE  k \in 0 .. Len(data) /\ unacked + k \in 0 .. TCP_SND_BUF
<1>1. PICK u \in 0 .. TCP_SND_BUF : u = unacked BY Zenon DEF IInv, Types, PcbTypes
<1>2. PICK l \in Nat : l = Len(data) BY Zenon, EmptyLen
<1>3. k \in {0, IF l < TCP_SND_BUF - u THEN l ELSE TCP_SND_BUF - u}
  BY Zenon, <1>1, <1>2 DEF Fits, Smaller
<1>4. k \in 0 .. l /\ u + k \in 0 .. TCP_SND_BUF BY <1>3, Sizes
<1>5. QED BY Zenon, <1>1, <1>2, <1>4

(* client_socks_recv_send_out: it asks for more, or leaves data that an     *)
(* acknowledgement will make it send, or aborts.                            *)
LEMMA SendOutKeeps ==
  ASSUME IInv, alloc = "live", ~client_closed, socks_up,
         NEW data \in Seq(Nat), Len(data) <= CLIENT_SOCKS_RECV_BUF_SIZE, data # <<>>,
         SendOut(data, unacked),
         UNCHANGED <<rcv_wnd, buf, upIn, input>>, downIn' \in Nat,
         inCallback' \in BOOLEAN, inCallback' => input # <<>>, input # <<>> => inCallback',
         NEW n \in 0 .. TCP_WND, NEW fin \in 0 .. 1, Rest' = CallBacksOf(0, n, fin),
         "recv" \in cb => rcv_wnd + Len(buf) + n + fin <= TCP_WND
  PROVE  IInv'
<1>1. ASSUME NEW k \in {0, Fits(data)},
             ~CannotContinue(From(data, k + 1), unacked + k),
             socks_recv_buf' = From(data, k + 1),
             tcp_pending' = unacked + k, unacked' = unacked + k,
             recv_op' = IF From(data, k + 1) = <<>> /\ ~socks_closed THEN "job" ELSE "none",
             UNCHANGED <<state, cb, clientVars, send_len, send_job, why>>
      PROVE  IInv'
  <2> USE <1>1 DEF clientVars
  <2>1. k \in 0 .. Len(data) /\ unacked' \in 0 .. TCP_SND_BUF BY Zenon, FitsBound
  <2>2. Len(data) \in Nat /\ Len(data) > 0 BY EmptyLen
  <2>3. /\ socks_recv_buf' \in Seq(Nat) /\ Len(socks_recv_buf') = Len(data) - k
    BY Zenon, <2>1, FromType
  <2>4. socks_recv_buf' = <<>> <=> Len(data) - k = 0 BY Zenon, <2>3, EmptyLen
  <2>5. Len(socks_recv_buf') <= CLIENT_SOCKS_RECV_BUF_SIZE
    BY <2>1, <2>2, <2>3, Sizes
  <2>6. tcp_pending' > 0
    <3>1. PICK u \in Nat : u = unacked BY Sizes DEF IInv, Types, PcbTypes
    <3>2. u + k # 0
      BY <2>1, <2>2, <2>3, <2>4, <3>1 DEF CannotContinue
    <3>3. QED BY <2>1, <2>2, <3>1, <3>2
  <2>7. PcbTypes' BY Zenon, <2>1 DEF IInv, Types, PcbTypes
  <2>8. ClientTypes' BY Zenon DEF IInv, Types, ClientTypes
  <2>9. DataTypes'
    <3>1. tcp_pending' \in Nat BY <2>1, Sizes
    <3>2. QED BY Zenon, <2>3, <2>5, <3>1 DEF IInv, Types, DataTypes
  <2>10. SocksTypes' BY Zenon DEF IInv, Types, SocksTypes
  <2>11. Fresh' /\ Called' /\ NeverRefused'
    BY Zenon DEF IInv, Fresh, Called, NeverRefused, Owned, Open
  <2>12. Owned' BY Zenon DEF IInv, Owned, Open, FreedWithBothSides
  <2>13. Awake' BY Zenon, <2>6 DEF IInv, Awake
  <2>14. Flow(0, n, fin)'
    <3>1. (alloc = "live" /\ ~client_closed => tcp_pending = unacked + 0)'
      BY <2>1, Sizes
    <3>2. QED BY Zenon, <3>1 DEF Flow
  <2>15. 0 \in 0 .. TCP_SND_BUF BY Sizes
  <2>16. QED
    BY <2>7, <2>8, <2>9, <2>10, <2>11, <2>12, <2>13, <2>14, <2>15, FlowNext
       DEF IInv, Types
<1>2. ASSUME AbortClient, why' = why \cup {"oom"}, socks_recv_buf' = data,
             tcp_pending' = unacked, UNCHANGED socks_up
      PROVE  IInv'
  <2>1. ClosedSide /\ aborted' = TRUE /\ dead' = 1 /\ recv_op' = "none"
    BY Zenon, <1>2, AbortedClient DEF AbortClient
  <2>2. state' = "freed" /\ unacked' = 0 BY Zenon, <1>2 DEF AbortClient, TcpAbort
  <2>3. rcv_wnd' \in 0 .. TCP_WND /\ tcp_pending' \in Nat
    BY <1>2, Sizes DEF IInv, Types, PcbTypes
  <2>4. "refused" \notin why' BY Zenon, <1>2 DEF IInv, NeverRefused
  <2>5. socks_recv_buf' \in Seq(Nat) /\ Len(socks_recv_buf') <= CLIENT_SOCKS_RECV_BUF_SIZE
    BY Zenon, <1>2
  <2>6. QED
    BY Zenon, <1>2, <2>1, <2>2, <2>3, <2>4, <2>5, ClosedKeeps
<1>3. QED BY Zenon, <1>1, <1>2 DEF SendOut

(* client_sent_func.                                                        *)
LEMMA SentKeeps ==
  ASSUME IInv, SentEvent
  PROVE  IInv'
<1> USE Sizes DEF SentEvent, Starts, Begin
<1>1. PICK k \in 0 .. TCP_SND_BUF, n \in 0 .. TCP_WND, fin \in 0 .. 1 :
        Flow(k, n, fin) /\ Head(input).n = k /\ Tail(input) = CallBacksOf(0, n, fin)
  BY Zenon, StartsWith
<1>2. alloc = "live" /\ ~client_closed /\ socks_up BY Zenon DEF IInv, Owned
<1>3. tcp_pending - Head(input).n = unacked
  <2>1. PICK u \in Nat : u = unacked BY DEF IInv, Types, PcbTypes
  <2>2. tcp_pending = u + k BY Zenon, <1>1, <1>2, <2>1 DEF Flow
  <2>3. QED BY <1>1, <2>1, <2>2
<1>4. Rest' = CallBacksOf(0, n, fin) BY Zenon, <1>1 DEF Rest
<1>5. "recv" \in cb => rcv_wnd + Len(buf) + n + fin <= TCP_WND BY Zenon, <1>1 DEF Flow
<1>6. /\ UNCHANGED <<rcv_wnd, buf, upIn, input, downIn>> /\ inCallback' = TRUE
      /\ input # <<>> /\ downIn' \in Nat
  BY Zenon DEF IInv, Types, DataTypes
<1>7. CASE socks_recv_buf # <<>> /\ SendOut(socks_recv_buf, unacked)
  <2>1. socks_recv_buf \in Seq(Nat) /\ Len(socks_recv_buf) <= CLIENT_SOCKS_RECV_BUF_SIZE
    BY Zenon DEF IInv, Types, DataTypes
  <2> HIDE DEF SentEvent
  <2>2. QED BY Zenon, <1>2, <1>4, <1>5, <1>6, <1>7, <2>1, SendOutKeeps
<1>8. CASE /\ socks_recv_buf = <<>> /\ tcp_pending' = unacked
           /\ IF socks_closed /\ unacked = 0
              THEN FreeClient(rcv_wnd) /\ UNCHANGED socks_up
              ELSE UNCHANGED <<state, unacked, cb, clientVars, socksVars>>
           /\ UNCHANGED <<socks_recv_buf, toPcb, why>>
  <2> HIDE DEF SentEvent
  <2>1. tcp_pending' \in Nat BY <1>8 DEF IInv, Types, PcbTypes
  <2>2. CASE socks_closed /\ unacked = 0
    <3>1. ClosedSide BY Zenon, <1>2, <1>8, <2>2, FreedClient DEF FreeClient
    <3>2. /\ state' \in {"TIME_WAIT", "closed", "FIN_SENT"}
          /\ unacked' \in {0, unacked}
      BY Zenon, <1>6, <1>8, <2>2 DEF FreeClient, TcpClose
    <3>3. rcv_wnd' \in 0 .. TCP_WND BY Zenon, <1>6 DEF IInv, Types, PcbTypes
    <3>4. "refused" \notin why' BY Zenon, <1>8 DEF IInv, NeverRefused
    <3>5. socks_recv_buf' \in Seq(Nat) /\ socks_recv_buf' = <<>>
          /\ Len(socks_recv_buf') <= CLIENT_SOCKS_RECV_BUF_SIZE
      BY <1>8 DEF IInv, Types, DataTypes
    <3>6. QED
      BY <1>2, <1>4, <1>6, <1>8, <2>1, <2>2, <3>1, <3>2, <3>3, <3>4, <3>5, ClosedKeeps
  <2>3. CASE ~(socks_closed /\ unacked = 0)
    <3> USE <1>6, <1>8, <2>3 DEF clientVars, socksVars
    <3>1. PcbTypes' BY Zenon DEF IInv, Types, PcbTypes
    <3>2. ClientTypes' BY Zenon DEF IInv, Types, ClientTypes
    <3>3. DataTypes' BY Zenon, <2>1 DEF IInv, Types, DataTypes
    <3>4. SocksTypes' BY Zenon DEF IInv, Types, SocksTypes
    <3>5. Fresh' /\ Called' /\ NeverRefused'
      BY Zenon, <1>2 DEF IInv, Fresh, Called, NeverRefused, Owned, Open
    <3>6. Owned' BY Zenon DEF IInv, Owned, Open, FreedWithBothSides
    <3>7. Awake'
      <4>1. tcp_pending' \in Nat /\ (socks_closed' => tcp_pending' # 0) BY Zenon, <2>1
      <4>2. socks_closed' => tcp_pending' > 0 BY <4>1
      <4>3. QED BY <1>2, <4>2, ZenonT(30) DEF IInv, Awake
    <3>8. Flow(0, n, fin)'
      <4>1. (alloc = "live" /\ ~client_closed => tcp_pending = unacked + 0)'
        BY <2>1
      <4>2. QED BY Zenon, <1>4, <1>5, <4>1 DEF Flow
    <3>9. 0 \in 0 .. TCP_SND_BUF OBVIOUS
    <3>10. QED
      BY <3>1, <3>2, <3>3, <3>4, <3>5, <3>6, <3>7, <3>8, <3>9, FlowNext DEF IInv, Types
  <2>4. QED BY Zenon, <2>2, <2>3
<1>9. QED BY Zenon, <1>3, <1>7, <1>8

(* client_socks_recv_handler_done.                                          *)
LEMMA ReadDoneKeeps ==
  ASSUME IInv, NEW l \in 1 .. CLIENT_SOCKS_RECV_BUF_SIZE, ReadDone(l)
  PROVE  IInv'
<1> USE Sizes DEF ReadDone, inputVars
<1>1. /\ alloc = "live" /\ socks_up /\ ~socks_closed
      /\ inCallback \/ input = <<>>
      /\ inCallback \in BOOLEAN
      /\ recv_op # "none"
  BY Zenon DEF Reading, Idle, NoJob, IInv, Owned, Called, Types, PcbTypes
<1>2. PICK k \in 0 .. TCP_SND_BUF, n \in 0 .. TCP_WND, fin \in 0 .. 1 : Flow(k, n, fin)
  BY Zenon DEF IInv, InFlow
<1>3. k = 0
  <2>1. CASE inCallback BY Zenon, <1>2, <2>1 DEF Flow
  <2>2. CASE input = <<>> /\ ~inCallback
    <3>1. CallBacksOf(k, n, fin) = <<>> BY Zenon, <1>2, <2>2 DEF Flow, Rest
    <3>2. QED BY <3>1, SomeCallBack
  <2>3. QED BY Zenon, <1>1, <2>1, <2>2
<1>4. Rest' = Rest BY Zenon DEF Rest
<1>5. CASE client_closed
  <2> USE <1>5 DEF pcbVars, clientVars, dataVars
  <2>1. PcbTypes' BY Zenon DEF IInv, Types, PcbTypes
  <2>2. ClientTypes' BY Zenon DEF IInv, Types, ClientTypes
  <2>3. DataTypes' BY Zenon DEF IInv, Types, DataTypes
  <2>4. SocksTypes' BY Zenon DEF IInv, Types, SocksTypes
  <2>5. Fresh' /\ Called' /\ NeverRefused'
    BY Zenon, <1>1 DEF IInv, Fresh, Called, NoJob, NeverRefused
  <2>6. Owned' BY Zenon DEF IInv, Owned, Open, FreedWithBothSides
  <2>7. Awake' BY Zenon, <1>1 DEF IInv, Awake
  <2>8. Flow(k, n, fin)' BY Zenon, <1>2, <1>4 DEF Flow
  <2>9. QED
    BY Zenon, <2>1, <2>2, <2>3, <2>4, <2>5, <2>6, <2>7, <2>8, FlowNext DEF IInv, Types
<1>6. CASE ~client_closed
  <2> DEFINE data == Bytes(downIn + 1, downIn + l)
  <2>1. data \in Seq(Nat) /\ Len(data) = l
    <3>1. downIn \in Nat /\ l \in Nat BY DEF IInv, Types, DataTypes
    <3>2. QED BY Zenon, <3>1, BytesType
  <2>2. data # <<>> BY <2>1, EmptyLen
  <2>3. tcp_pending = unacked
    <3>1. unacked \in Nat BY DEF IInv, Types, PcbTypes
    <3>2. QED BY <1>1, <1>2, <1>3, <1>6, <3>1 DEF Flow
  <2>4. SendOut(data, unacked) BY Zenon, <1>6, <2>3
  <2>5. /\ UNCHANGED <<rcv_wnd, buf, upIn, input, inCallback>>
        /\ downIn' \in Nat
    BY <1>6 DEF IInv, Types, DataTypes
  <2>6. /\ Rest' = CallBacksOf(0, n, fin)
        /\ "recv" \in cb => rcv_wnd + Len(buf) + n + fin <= TCP_WND
    BY Zenon, <1>2, <1>3, <1>4 DEF Flow
  <2>7. inCallback \in BOOLEAN /\ (inCallback => input # <<>>)
    BY Zenon DEF IInv, Types, PcbTypes, Called
  <2> HIDE DEF ReadDone, data
  <2>8. QED
    BY <1>1, <1>6, <2>1, <2>2, <2>4, <2>5, <2>6, <2>7, SendOutKeeps
<1>7. QED BY Zenon, <1>5, <1>6

(* Every step keeps the invariant.                                          *)
LEMMA InvariantStep == IInv /\ [Next]_vars => IInv'
<1> SUFFICES ASSUME IInv, [Next]_vars PROVE IInv'
  BY Zenon
<1>1. CASE Accept \/ AcceptFails BY Zenon, <1>1, AcceptKeeps
<1>2. CASE CallbackReturns BY Zenon, <1>2, CallbackReturnsKeeps
<1>3. ASSUME NEW k \in 0 .. TCP_SND_BUF, NEW n \in 0 .. TCP_WND, NEW fin \in 0 .. 1,
             Segment(k, n, fin)
      PROVE  IInv'
  BY Zenon, <1>3, SegmentKeeps
<1>4. CASE RecvEvent BY Zenon, <1>4, RecvKeeps
<1>5. CASE FinEvent BY Zenon, <1>5, FinKeeps
<1>6. CASE SentEvent BY Zenon, <1>6, SentKeeps
<1>7. CASE SocksUp BY Zenon, <1>7, SocksUpKeeps
<1>8. CASE SocksError \/ WriteFails \/ ReadFails \/ ReadEnds
  BY Zenon, <1>8, SocksFailKeeps DEF SocksError, WriteFails, ReadFails, ReadEnds
<1>9. CASE WriteBlocks \/ ReadBlocks BY Zenon, <1>9, BlocksKeep
<1>10. ASSUME NEW n \in 1 .. TCP_WND, WriteDone(n) PROVE IInv'
  BY Zenon, <1>10, WriteDoneKeeps
<1>11. ASSUME NEW n \in 1 .. CLIENT_SOCKS_RECV_BUF_SIZE, ReadDone(n) PROVE IInv'
  BY <1>11, ReadDoneKeeps
<1>12. CASE PcbError BY Zenon, <1>12, PcbErrorKeeps
<1>13. CASE PcbDrains \/ Murder BY Zenon, <1>13, EndKeeps
<1>14. CASE UNCHANGED vars
  <2> USE <1>14 DEF vars, pcbVars, inputVars, clientVars, dataVars, socksVars, histVars
  <2>1. PcbTypes' BY Zenon DEF IInv, Types, PcbTypes
  <2>2. ClientTypes' BY Zenon DEF IInv, Types, ClientTypes
  <2>3. DataTypes' BY Zenon DEF IInv, Types, DataTypes
  <2>4. SocksTypes' BY Zenon DEF IInv, Types, SocksTypes
  <2>5. Fresh' /\ Called' /\ NeverRefused' BY Zenon DEF IInv, Fresh, Called, NoJob, NeverRefused
  <2>6. Owned' BY Zenon DEF IInv, Owned, Open, FreedWithBothSides
  <2>7. Awake' BY Zenon DEF IInv, Awake
  <2>8. InFlow' BY Zenon DEF IInv, InFlow, Flow, Rest
  <2>9. QED BY Zenon, <2>1, <2>2, <2>3, <2>4, <2>5, <2>6, <2>7, <2>8 DEF IInv, Types
<1>15. QED
  BY Zenon, <1>1, <1>2, <1>3, <1>4, <1>5, <1>6, <1>7, <1>8, <1>9, <1>10, <1>11, <1>12,
     <1>13, <1>14 DEF Next

(* The invariant always holds.                                              *)
LEMMA Invariant == Spec => []IInv
  BY InvariantInit, InvariantStep, PTL DEF Spec

(* client_recv_func always has room for what lwIP passes it ("no buffer for *)
(* data !?!"): bytes in buf, bytes in call backs still to come and the      *)
(* window never exceed TCP_WND together.                                    *)
THEOREM WindowKept == Spec => []NeverRefused
<1>1. IInv => NeverRefused BY Zenon DEF IInv
<1>2. QED BY <1>1, Invariant, PTL

(* Data that waits in a client has an operation of the SOCKS connection or  *)
(* an acknowledgement to come that will make it go on, and tcp_pending      *)
(* counts just the bytes of which client_sent_func was not told; lwIP is    *)
(* never left with data that the client refused.                            *)
THEOREM NoLostWakeUp == Spec => []NoWakeUpLost
<1>1. IInv => NothingStalls
  <2> SUFFICES ASSUME IInv, alloc = "live" PROVE NothingStalls
    BY Zenon DEF NothingStalls
  <2>1. ASSUME socks_up, ~client_closed PROVE tcp_pending = unacked + Unreported
    <3>1. PICK u \in Nat : u = unacked BY Sizes DEF IInv, Types, PcbTypes
    <3>2. PICK k \in 0 .. TCP_SND_BUF, n \in 0 .. TCP_WND, fin \in 0 .. 1 : Flow(k, n, fin)
      BY Zenon DEF IInv, InFlow
    <3>3. tcp_pending = u + k BY Zenon, <2>1, <3>1, <3>2 DEF Flow
    <3>4. CASE inCallback BY Zenon, <3>1, <3>2, <3>3, <3>4 DEF Flow, Unreported
    <3>5. CASE ~inCallback /\ input = <<>>
      <4>1. k = 0 BY <3>2, <3>5, SomeCallBack, Sizes DEF Flow, Rest
      <4>2. QED BY Zenon, <3>1, <3>3, <3>5, <4>1 DEF Unreported
    <3>6. CASE ~inCallback /\ input # <<>>
      <4>1. PICK j \in 0 .. TCP_SND_BUF, m \in 0 .. TCP_WND, f \in 0 .. 1 :
              /\ Flow(j, m, f)
              /\ j > 0 => Head(input).ev = "sent" /\ Head(input).n = j
              /\ j = 0 => Head(input).ev # "sent"
        BY <3>6, StartsWith
      <4>2. tcp_pending = u + j BY Zenon, <2>1, <3>1, <4>1 DEF Flow
      <4>3. j \in Nat /\ (j > 0 \/ j = 0) BY Sizes
      <4>4. Unreported = j BY Zenon, <3>6, <4>1, <4>3 DEF Unreported
      <4>5. QED BY Zenon, <3>1, <4>2, <4>4
    <3>7. QED BY Zenon, <3>4, <3>5, <3>6 DEF IInv, Types, PcbTypes
  <2>2. QED BY Zenon, <2>1 DEF IInv, Awake, NothingStalls
<1>2. IInv => NoWakeUpLost BY Zenon, <1>1 DEF IInv, NoWakeUpLost
<1>3. QED BY <1>2, Invariant, PTL

-----------------------------------------------------------------------------
(* A step that closes the connection to the app with bytes queued for it.   *)
DropsQueued == Open /\ ~Open' /\ state' # "FIN_SENT" /\ unacked' < unacked

Excused == why' \cap {"fin", "rst", "oom", "quit"} # {}

(* When client_free_socks closes the app's side, all that was passed to     *)
(* lwIP is acknowledged.                                                    *)
LEMMA NothingQueued ==
  ASSUME IInv, alloc = "live", ~client_closed, ~KeepSendingToClient
  PROVE  unacked = 0
<1>1. PICK k \in 0 .. TCP_SND_BUF, n \in 0 .. TCP_WND, fin \in 0 .. 1 : Flow(k, n, fin)
  BY Zenon DEF IInv, InFlow
<1>2. PICK u \in Nat : u = unacked BY Sizes DEF IInv, Types, PcbTypes
<1>3. tcp_pending = u + k BY Zenon, <1>1, <1>2 DEF Flow
<1>4. ~socks_up \/ tcp_pending = 0
  BY DEF KeepSendingToClient, IInv, Types, DataTypes
<1>5. CASE ~socks_up BY Zenon, <1>5 DEF IInv, Awake
<1>6. CASE tcp_pending = 0 BY <1>2, <1>3, <1>6, Sizes
<1>7. QED BY Zenon, <1>4, <1>5, <1>6

(* So client_free_socks drops nothing.                                      *)
LEMMA FreeSocksDropsNothing ==
  ASSUME IInv, alloc = "live", FreeSocks
  PROVE  ~DropsQueued
<1>1. CASE KeepSendingToClient BY Zenon, <1>1 DEF FreeSocks, DropsQueued, Open
<1>2. CASE ~KeepSendingToClient /\ client_closed
  BY Zenon, <1>2 DEF FreeSocks, DropsQueued, Open
<1>3. CASE ~KeepSendingToClient /\ ~client_closed
  <2>1. unacked = 0 BY Zenon, <1>3, NothingQueued
  <2>2. unacked' = 0 BY <1>3, <2>1 DEF FreeSocks, TcpClose
  <2>3. QED BY <2>1, <2>2 DEF DropsQueued
<1>4. QED BY Zenon, <1>1, <1>2, <1>3

(* A step that drops queued bytes has an excuse.                            *)
LEMMA DropsExcused == IInv /\ [Next]_vars /\ DropsQueued => Excused
<1> SUFFICES ASSUME IInv, [Next]_vars, DropsQueued PROVE Excused
  BY Zenon
<1>1. Open /\ ~Open' /\ state' # state /\ alloc = "live" /\ ~client_closed
  BY Zenon DEF DropsQueued, Open, IInv, Owned
<1>2. CASE Accept \/ AcceptFails BY Zenon, <1>1, <1>2 DEF Accept, AcceptFails
<1>3. CASE CallbackReturns BY Zenon, <1>1, <1>3 DEF CallbackReturns, Open
<1>4. ASSUME NEW k \in 0 .. TCP_SND_BUF, NEW n \in 0 .. TCP_WND, NEW fin \in 0 .. 1,
             Segment(k, n, fin)
      PROVE  FALSE
  BY Zenon, <1>1, <1>4 DEF Segment, Open
<1>5. CASE RecvEvent
  BY Zenon, <1>1, <1>5 DEF RecvEvent, ClientRecv, DiscardData, DataAfterClose, pcbVars
<1>6. CASE FinEvent BY Zenon, <1>1, <1>6 DEF FinEvent, Excused
<1>7. ASSUME NEW data, NEW pending, SendOut(data, pending) PROVE Excused
  BY Zenon, <1>1, <1>7 DEF SendOut, Excused
<1>8. CASE SentEvent
  <2>1. CASE socks_recv_buf # <<>> BY Zenon, <1>7, <1>8, <2>1 DEF SentEvent
  <2>2. CASE socks_recv_buf = <<>>
    <3>1. PICK k \in 0 .. TCP_SND_BUF, n \in 0 .. TCP_WND, fin \in 0 .. 1 :
            Flow(k, n, fin) /\ Head(input).n = k
      BY Zenon, <1>8, StartsWith DEF SentEvent, Starts
    <3>2. PICK u \in Nat : u = unacked BY Sizes DEF IInv, Types, PcbTypes
    <3>3. tcp_pending = u + k BY Zenon, <1>1, <3>1, <3>2 DEF Flow
    <3>4. tcp_pending - Head(input).n = u BY <3>1, <3>3, Sizes
    <3>5. u = 0 BY Zenon, <1>1, <1>8, <2>2, <3>4 DEF SentEvent
    <3>6. unacked' = 0 BY Zenon, <1>1, <1>8, <2>2, <3>2, <3>4, <3>5 DEF SentEvent, FreeClient, TcpClose
    <3>7. QED BY <3>2, <3>5, <3>6 DEF DropsQueued
  <2>3. QED BY Zenon, <2>1, <2>2
<1>9. CASE SocksUp BY Zenon, <1>1, <1>9 DEF SocksUp
<1>10. CASE SocksError \/ WriteFails \/ ReadFails \/ ReadEnds
  BY Zenon, <1>1, <1>10, FreeSocksDropsNothing
     DEF SocksError, WriteFails, ReadFails, ReadEnds, SocksFails
<1>11. CASE WriteBlocks \/ ReadBlocks BY Zenon, <1>1, <1>11 DEF WriteBlocks, ReadBlocks, pcbVars
<1>12. ASSUME NEW n \in 1 .. TCP_WND, WriteDone(n) PROVE Excused
  BY Zenon, <1>1, <1>12, FreeSocksDropsNothing DEF WriteDone
<1>13. ASSUME NEW n \in 1 .. CLIENT_SOCKS_RECV_BUF_SIZE, ReadDone(n) PROVE Excused
  BY Zenon, <1>1, <1>7, <1>13 DEF ReadDone
<1>14. CASE PcbError BY Zenon, <1>14 DEF PcbError, Excused
<1>15. CASE PcbDrains BY Zenon, <1>1, <1>15 DEF PcbDrains, Open
<1>16. CASE Murder BY Zenon, <1>16 DEF Murder, Excused
<1>17. CASE UNCHANGED vars BY Zenon, <1>1, <1>17 DEF vars, pcbVars
<1>18. QED
  BY <1>2, <1>3, <1>4, <1>5, <1>6, <1>8, <1>9, <1>10, <1>11, <1>12, <1>13, <1>14,
     <1>15, <1>16, <1>17 DEF Next

(* tcp_close and tcp_abort drop bytes queued for the app only when the app  *)
(* ended its side, on an error, or at the end of the program.               *)
THEOREM QueuedDataNotLost == Spec => QueuedDataSent
<1>1. IInv /\ [Next]_vars =>
        [state' # "FIN_SENT" /\ Open /\ unacked' < unacked /\ ~Open'
           => why' \cap {"fin", "rst", "oom", "quit"} # {}]_vars
  BY Zenon, DropsExcused DEF DropsQueued, Excused
<1>2. QED BY <1>1, Invariant, PTL DEF Spec, QueuedDataSent

-----------------------------------------------------------------------------
(* The bounds: what a segment brings fits in what the app still has to      *)
(* send, and what waits for an acknowledgement in the send buffer.          *)
Call == Event \cup {[ev |-> "accept"]}
Causes == {"refused", "fin", "rst", "oom", "socks", "eof", "quit"}

Due ==
  \E k \in 0 .. TCP_SND_BUF, n \in 0 .. TCP_WND, fin \in 0 .. 1 :
    Rest = CallBacksOf(k, n, fin) /\ upIn + n <= UpBytes

Bounded ==
  /\ input \in Seq(Call) /\ Len(input) <= 3
  /\ Due /\ downIn <= DownBytes /\ tcp_pending <= TCP_SND_BUF
  /\ why \subseteq Causes

(* A segment has at most three call backs.                                  *)
LEMMA CallBacksBound ==
  ASSUME NEW k \in Nat, NEW n \in Nat, NEW fin \in 0 .. 1
  PROVE  CallBacksOf(k, n, fin) \in Seq(Call) /\ Len(CallBacksOf(k, n, fin)) <= 3
<1>1. ASSUME NEW e \in Call, NEW s \in Seq(Call), NEW cond
      PROVE  /\ Before(cond, e, s) \in Seq(Call)
             /\ Len(Before(cond, e, s)) <= Len(s) + 1
  <2>1. /\ <<e>> \o s \in Seq(Call) /\ Len(<<e>> \o s) = Len(s) + 1
    OBVIOUS
  <2>2. Len(s) \in Nat
    OBVIOUS
  <2>3. CASE cond
    <3>1. Before(cond, e, s) = <<e>> \o s
      BY <2>3, Zenon DEF Before
    <3> QED BY <2>1, <2>2, <3>1
  <2>4. CASE ~cond
    <3>1. Before(cond, e, s) = s
      BY <2>4, Zenon DEF Before
    <3> QED BY <2>2, <3>1
  <2> QED BY <2>3, <2>4, Zenon
<1>2. /\ [ev |-> "sent", n |-> k] \in Call /\ [ev |-> "recv", n |-> n] \in Call
      /\ [ev |-> "fin"] \in Call
  BY Zenon DEF Call, Event
<1> DEFINE f == Before(fin > 0, [ev |-> "fin"], <<>>)
           g == Before(n > 0, [ev |-> "recv", n |-> n], f)
           h == Before(k > 0, [ev |-> "sent", n |-> k], g)
<1>3. h = CallBacksOf(k, n, fin)
  BY Zenon DEF CallBacksOf
<1>4. <<>> \in Seq(Call) /\ Len(<<>>) = 0
  OBVIOUS
<1>5. f \in Seq(Call) /\ Len(f) <= 1
  <2>1. f \in Seq(Call) /\ Len(f) <= Len(<<>>) + 1
    BY <1>1, <1>2, <1>4, Zenon
  <2> HIDE DEF f
  <2> QED BY <1>4, <2>1
<1> HIDE DEF f
<1>6. g \in Seq(Call) /\ Len(g) <= 2
  <2>1. g \in Seq(Call) /\ Len(g) <= Len(f) + 1
    BY <1>1, <1>2, <1>5, Zenon
  <2> HIDE DEF g
  <2> QED BY <1>5, <2>1
<1> HIDE DEF g
<1>7. h \in Seq(Call) /\ Len(h) <= 3
  <2>1. h \in Seq(Call) /\ Len(h) <= Len(g) + 1
    BY <1>1, <1>2, <1>6, Zenon
  <2> HIDE DEF h
  <2> QED BY <1>6, <2>1
<1> QED BY <1>3, <1>7, Zenon

(* The bounds hold at first.                                                *)
LEMMA BoundedInit == Init => Bounded
<1> SUFFICES ASSUME Init PROVE Bounded
  OBVIOUS
<1>1. /\ input = <<>> /\ inCallback = FALSE /\ upIn = 0 /\ downIn = 0 /\ tcp_pending = 0
      /\ why = {}
  BY Zenon DEF Init
<1>2. <<>> \in Seq(Call) /\ Len(<<>>) <= 3
  OBVIOUS
<1>3. /\ 0 \in 0 .. TCP_SND_BUF /\ 0 \in 0 .. TCP_WND /\ 0 \in 0 .. 1 /\ 0 + 0 <= UpBytes
      /\ 0 <= DownBytes /\ 0 <= TCP_SND_BUF
  BY Sizes, SizesAssumption
<1>4. Due
  BY <1>1, <1>3, NoCallBacks, Zenon DEF Due, Rest
<1> QED BY <1>1, <1>2, <1>3, <1>4, Zenon DEF Bounded

(* Which steps change the call backs, and what the app has sent.            *)
LEMMA InputFrame ==
  ASSUME [Next]_vars
  PROVE  \/ UNCHANGED <<input, inCallback, upIn>>
         \/ Accept \/ CallbackReturns \/ RecvEvent \/ FinEvent \/ SentEvent
         \/ \E k \in 0 .. TCP_SND_BUF, n \in 0 .. TCP_WND, fin \in 0 .. 1 : Segment(k, n, fin)
<1> USE DEF inputVars, histVars
<1>1. CASE AcceptFails BY <1>1, Zenon DEF AcceptFails
<1>2. CASE SocksUp BY <1>2, Zenon DEF SocksUp
<1>3. CASE SocksError \/ WriteFails \/ ReadFails \/ ReadEnds
  BY <1>3, Zenon DEF SocksError, WriteFails, ReadFails, ReadEnds, SocksFails
<1>4. CASE WriteBlocks \/ ReadBlocks BY <1>4, Zenon DEF WriteBlocks, ReadBlocks
<1>5. CASE \E n \in 1 .. TCP_WND : WriteDone(n) BY <1>5, Zenon DEF WriteDone
<1>6. CASE \E n \in 1 .. CLIENT_SOCKS_RECV_BUF_SIZE : ReadDone(n) BY <1>6, Zenon DEF ReadDone
<1>7. CASE PcbError \/ PcbDrains \/ Murder BY <1>7, Zenon DEF PcbError, PcbDrains, Murder
<1>8. CASE UNCHANGED vars BY <1>8, Zenon DEF vars
<1> QED BY <1>1, <1>2, <1>3, <1>4, <1>5, <1>6, <1>7, <1>8, Zenon DEF Next

(* The call backs of a segment keep to the bounds.                          *)
LEMMA InputKept ==
  ASSUME IInv, Bounded, [Next]_vars
  PROVE  input' \in Seq(Call) /\ Len(input') <= 3 /\ Due'
<1>1. /\ input \in Seq(Call) /\ Len(input) <= 3 /\ Len(input) \in Nat
      /\ upIn \in Nat
  BY DEF Bounded, IInv, Types, DataTypes
<1>2. PICK k \in 0 .. TCP_SND_BUF, n \in 0 .. TCP_WND, fin \in 0 .. 1 :
        Rest = CallBacksOf(k, n, fin) /\ upIn + n <= UpBytes
  BY Zenon DEF Bounded, Due
<1>3. k \in Nat /\ n \in Nat /\ 0 \in 0 .. TCP_SND_BUF /\ 0 \in 0 .. TCP_WND /\ 0 \in 0 .. 1
  BY Sizes
<1>4. UpBytes \in Nat /\ upIn + 0 <= UpBytes
  BY <1>1, <1>2, <1>3, SizesAssumption
<1>5. <<>> \in Seq(Call) /\ Len(<<>>) <= 3
  OBVIOUS
<1>6. input # <<>> => Tail(input) \in Seq(Call) /\ Len(Tail(input)) <= 3
  BY <1>1
<1>7. ASSUME Rest' = <<>>, upIn' = upIn PROVE Due'
  BY <1>3, <1>4, <1>7, NoCallBacks, Zenon DEF Due
<1>8. CASE UNCHANGED <<input, inCallback, upIn>>
  <2>1. Rest' = Rest /\ upIn' = upIn /\ input' = input
    BY <1>8, Zenon DEF Rest
  <2> QED BY <1>1, <1>2, <2>1, Zenon DEF Due
<1>9. CASE Accept
  <2>1. [ev |-> "accept"] \in Call /\ input' = <<[ev |-> "accept"]>> /\ inCallback' = TRUE
        /\ upIn' = upIn
    BY <1>9, Zenon DEF Accept, histVars, Call
  <2>2. input' \in Seq(Call) /\ Len(input') <= 3 /\ Tail(input') = <<>>
    BY <2>1
  <2>3. Rest' = <<>>
    BY <2>1, <2>2, Zenon DEF Rest
  <2> QED BY <1>7, <2>1, <2>2, <2>3, Zenon
<1>10. CASE CallbackReturns
  <2>1. /\ inCallback /\ inCallback' = FALSE /\ upIn' = upIn
        /\ input' \in {<<>>, Tail(input)} /\ input # <<>>
    BY <1>10, Zenon DEF CallbackReturns, histVars, IInv, Called
  <2>2. Rest' \in {<<>>, Rest}
    BY <2>1, Zenon DEF Rest
  <2>3. Due'
    BY <1>2, <1>7, <2>1, <2>2, Zenon DEF Due
  <2> QED BY <1>5, <1>6, <2>1, <2>3, Zenon
<1>11. CASE RecvEvent \/ FinEvent \/ SentEvent
  <2>1. input # <<>> /\ ~inCallback
    BY <1>11, Zenon DEF RecvEvent, FinEvent, SentEvent, Starts
  <2>2. input = CallBacksOf(k, n, fin)
    BY <1>2, <2>1, Zenon DEF Rest
  <2>3. /\ input' \in {input, Tail(input), <<>>}
        /\ Rest' = Tail(input) \/ (Rest' = <<>> /\ upIn' = upIn)
        /\ upIn' = upIn \/ (Head(input).ev = "recv" /\ upIn' = upIn + Head(input).n)
    <3>1. CASE RecvEvent
      <4>1. CASE ClientRecv(Head(input).n)
        BY <2>1, <3>1, <4>1, Zenon DEF ClientRecv, RecvEvent, Starts, Begin, Rest
      <4>2. CASE DiscardData(Head(input).n)
        BY <2>1, <3>1, <4>2, Zenon DEF DiscardData, Skip, Rest, histVars
      <4>3. CASE DataAfterClose
        BY <2>1, <3>1, <4>3, Zenon DEF DataAfterClose, Rest, histVars
      <4> QED BY <3>1, <4>1, <4>2, <4>3, Zenon DEF RecvEvent
    <3>2. CASE FinEvent
      <4>1. upIn' = upIn /\ (Begin \/ Skip)
        BY <3>2, Zenon DEF FinEvent
      <4>2. CASE Begin
        BY <2>1, <4>1, <4>2, Zenon DEF Begin, Rest
      <4>3. CASE Skip
        BY <2>1, <4>1, <4>3, Zenon DEF Skip, Rest
      <4> QED BY <4>1, <4>2, <4>3
    <3>3. CASE SentEvent
      BY <2>1, <3>3, Zenon DEF SentEvent, Begin, Rest
    <3> QED BY <1>11, <3>1, <3>2, <3>3
  <2>4. CASE k > 0
    <3>1. Head(input).ev = "sent" /\ Tail(input) = CallBacksOf(0, n, fin)
      BY <1>2, <1>3, <2>2, <2>4, SentFirst, Zenon
    <3>2. upIn' = upIn
      BY <2>3, <3>1, Zenon
    <3>3. Due'
      BY <1>2, <1>3, <1>7, <2>3, <3>1, <3>2, Zenon DEF Due
    <3> QED BY <1>1, <1>5, <1>6, <2>1, <2>3, <3>3, Zenon
  <2>5. CASE k = 0 /\ n > 0
    <3>1. Head(input).n = n /\ Tail(input) = CallBacksOf(0, 0, fin)
      BY <1>2, <1>3, <2>2, <2>5, RecvFirst, Zenon
    <3>2. upIn' = upIn \/ upIn' = upIn + n
      BY <2>3, <3>1, Zenon
    <3>3. upIn' + 0 <= UpBytes
      BY <1>1, <1>2, <1>3, <1>4, <3>2
    <3>4. Due'
      BY <1>2, <1>3, <1>7, <2>3, <3>1, <3>3, Zenon DEF Due
    <3> QED BY <1>1, <1>5, <1>6, <2>1, <2>3, <3>4, Zenon
  <2>6. CASE k = 0 /\ n = 0 /\ fin = 1
    <3>1. Head(input).ev = "fin" /\ Tail(input) = <<>>
      BY <2>2, <2>6, FinFirst, NoCallBacks, Zenon
    <3>2. upIn' = upIn
      BY <2>3, <3>1, Zenon
    <3>3. Due'
      BY <1>7, <2>3, <3>1, <3>2, Zenon
    <3> QED BY <1>1, <1>5, <1>6, <2>1, <2>3, <3>3, Zenon
  <2>7. CASE k = 0 /\ n = 0 /\ fin = 0
    BY <2>1, <2>2, <2>7, NoCallBacks, Zenon
  <2> QED BY <1>3, <2>4, <2>5, <2>6, <2>7
<1>12. ASSUME NEW a \in 0 .. TCP_SND_BUF, NEW b \in 0 .. TCP_WND, NEW c \in 0 .. 1,
              Segment(a, b, c)
       PROVE  input' \in Seq(Call) /\ Len(input') <= 3 /\ Due'
  <2>1. /\ input' = CallBacksOf(a, b, c) /\ upIn' = upIn /\ inCallback' = inCallback
        /\ upIn + b <= UpBytes /\ input = <<>>
    BY <1>12, Zenon DEF Segment, histVars, Idle
  <2>2. ~inCallback
    BY <2>1, Zenon DEF IInv, Called
  <2>3. Rest' = CallBacksOf(a, b, c)
    BY <2>1, <2>2, Zenon DEF Rest
  <2>4. a \in Nat /\ b \in Nat
    BY <1>12, Sizes
  <2> QED BY <1>12, <2>1, <2>3, <2>4, CallBacksBound, Zenon DEF Due
<1> QED BY <1>8, <1>9, <1>10, <1>11, <1>12, InputFrame, Zenon

(* What waits for an acknowledgement fits in the send buffer.               *)
LEMMA SendOutBound ==
  ASSUME IInv, NEW data \in Seq(Nat), SendOut(data, unacked)
  PROVE  tcp_pending' \in 0 .. TCP_SND_BUF /\ why' \subseteq why \cup {"oom"}
<1>1. CASE \E k \in {0, Fits(data)} : tcp_pending' = unacked + k /\ why' = why
  BY <1>1, FitsBound, Zenon
<1>2. CASE tcp_pending' = unacked /\ why' = why \cup {"oom"}
  BY <1>2, Zenon DEF IInv, Types, PcbTypes
<1> QED BY <1>1, <1>2, Zenon DEF SendOut

(* client_sent_func keeps to them.                                          *)
LEMMA SentBound ==
  ASSUME IInv, Bounded, SentEvent
  PROVE  /\ tcp_pending' <= TCP_SND_BUF /\ why' \subseteq Causes /\ downIn' = downIn
<1>1. PICK k \in 0 .. TCP_SND_BUF, n \in 0 .. TCP_WND, fin \in 0 .. 1 :
        Flow(k, n, fin) /\ Head(input).n = k
  BY Zenon, StartsWith DEF SentEvent, Starts
<1>2. alloc = "live" /\ ~client_closed BY Zenon DEF IInv, Owned, SentEvent
<1>3. tcp_pending - Head(input).n = unacked
  <2>1. PICK u \in Nat : u = unacked BY Sizes DEF IInv, Types, PcbTypes
  <2>2. tcp_pending = u + k BY Zenon, <1>1, <1>2, <2>1 DEF Flow
  <2>3. QED BY <1>1, <2>1, <2>2, Sizes
<1>4. why \subseteq Causes /\ "oom" \in Causes BY Zenon DEF Bounded, Causes
<1>5. CASE SendOut(socks_recv_buf, unacked)
  <2>1. socks_recv_buf \in Seq(Nat) BY Zenon DEF IInv, Types, DataTypes
  <2>2. tcp_pending' \in 0 .. TCP_SND_BUF /\ why' \subseteq why \cup {"oom"}
    BY <1>5, <2>1, SendOutBound, Zenon
  <2>3. tcp_pending' <= TCP_SND_BUF BY <2>2, Sizes
  <2> QED BY <1>4, <2>2, <2>3, Zenon DEF SentEvent
<1>6. CASE tcp_pending' = unacked /\ why' = why
  <2>1. unacked \in 0 .. TCP_SND_BUF BY Zenon DEF IInv, Types, PcbTypes
  <2>2. tcp_pending' <= TCP_SND_BUF BY <1>6, <2>1, Sizes
  <2> QED BY <1>4, <1>6, <2>2, Zenon DEF SentEvent
<1> QED BY <1>3, <1>5, <1>6, Zenon DEF SentEvent

(* client_socks_recv_handler_done keeps to them.                            *)
LEMMA ReadBound ==
  ASSUME IInv, Bounded, NEW l \in 1 .. CLIENT_SOCKS_RECV_BUF_SIZE, ReadDone(l)
  PROVE  /\ tcp_pending' <= TCP_SND_BUF /\ why' \subseteq Causes /\ downIn' <= DownBytes
<1>1. /\ alloc = "live"
      /\ inCallback \/ input = <<>>
      /\ inCallback \in BOOLEAN
  BY Zenon DEF ReadDone, Reading, Idle, NoJob, IInv, Owned, Called, Types, PcbTypes
<1>2. PICK k \in 0 .. TCP_SND_BUF, n \in 0 .. TCP_WND, fin \in 0 .. 1 : Flow(k, n, fin)
  BY Zenon DEF IInv, InFlow
<1>3. k = 0
  <2>1. CASE inCallback BY Zenon, <1>2, <2>1 DEF Flow
  <2>2. CASE input = <<>> /\ ~inCallback
    <3>1. CallBacksOf(k, n, fin) = <<>> BY Zenon, <1>2, <2>2 DEF Flow, Rest
    <3>2. k \in Nat /\ n \in Nat BY Sizes
    <3>3. QED BY <3>1, <3>2, SomeCallBack, Zenon
  <2>3. QED BY Zenon, <1>1, <2>1, <2>2
<1>4. CASE client_closed
  BY <1>4, Zenon DEF ReadDone, dataVars, Bounded
<1>5. CASE ~client_closed
  <2> DEFINE data == Bytes(downIn + 1, downIn + l)
  <2>1. data \in Seq(Nat)
    <3>1. downIn \in Nat /\ l \in Nat BY Sizes DEF IInv, Types, DataTypes
    <3>2. QED BY Zenon, <3>1, BytesType
  <2>2. tcp_pending = unacked
    <3>1. unacked \in Nat BY Sizes DEF IInv, Types, PcbTypes
    <3>2. tcp_pending = unacked + 0 BY <1>1, <1>2, <1>3, <1>5, Zenon DEF Flow
    <3>3. QED BY <3>1, <3>2
  <2>3. SendOut(data, unacked) /\ downIn' <= DownBytes BY Zenon, <1>5, <2>2 DEF ReadDone
  <2> HIDE DEF data
  <2>4. tcp_pending' \in 0 .. TCP_SND_BUF /\ why' \subseteq why \cup {"oom"}
    BY <2>1, <2>3, SendOutBound, Zenon
  <2>5. tcp_pending' <= TCP_SND_BUF BY <2>4, Sizes
  <2>6. why \subseteq Causes /\ "oom" \in Causes BY Zenon DEF Bounded, Causes
  <2> QED BY <2>3, <2>4, <2>5, <2>6, Zenon
<1> QED BY <1>4, <1>5, Zenon

(* Every step keeps to them.                                                *)
LEMMA BoundedStep ==
  ASSUME IInv, Bounded, [Next]_vars
  PROVE  Bounded'
<1>1. downIn' <= DownBytes /\ tcp_pending' <= TCP_SND_BUF /\ why' \subseteq Causes
  <2>0. downIn <= DownBytes /\ tcp_pending <= TCP_SND_BUF /\ why \subseteq Causes
    BY Zenon DEF Bounded
  <2> USE DEF dataVars, histVars, Causes
  <2>1. CASE Accept \/ AcceptFails \/ CallbackReturns
    BY <2>0, <2>1, Zenon DEF Accept, AcceptFails, CallbackReturns
  <2>2. CASE \E k \in 0 .. TCP_SND_BUF, n \in 0 .. TCP_WND, fin \in 0 .. 1 : Segment(k, n, fin)
    BY <2>0, <2>2, Zenon DEF Segment
  <2>3. CASE RecvEvent
    <3>1. CASE ClientRecv(Head(input).n)
      BY <2>0, <3>1, Zenon DEF ClientRecv
    <3>2. CASE DiscardData(Head(input).n) \/ DataAfterClose
      BY <2>0, <3>2, Zenon DEF DiscardData, DataAfterClose
    <3> QED BY <2>3, <3>1, <3>2, Zenon DEF RecvEvent
  <2>4. CASE FinEvent
    BY <2>0, <2>4, Zenon DEF FinEvent
  <2>5. CASE SentEvent
    BY <2>0, <2>5, SentBound, Zenon
  <2>6. CASE SocksUp
    BY <2>0, <2>6, Zenon DEF SocksUp
  <2>7. CASE SocksError \/ WriteFails \/ ReadFails \/ ReadEnds
    BY <2>0, <2>7, Zenon DEF SocksError, WriteFails, ReadFails, ReadEnds, SocksFails
  <2>8. CASE WriteBlocks \/ ReadBlocks
    BY <2>0, <2>8, Zenon DEF WriteBlocks, ReadBlocks
  <2>9. CASE \E n \in 1 .. TCP_WND : WriteDone(n)
    BY <2>0, <2>9, Zenon DEF WriteDone
  <2>10. CASE \E n \in 1 .. CLIENT_SOCKS_RECV_BUF_SIZE : ReadDone(n)
    BY <2>10, ReadBound, Zenon
  <2>11. CASE PcbError \/ PcbDrains \/ Murder
    BY <2>0, <2>11, Zenon DEF PcbError, PcbDrains, Murder
  <2>12. CASE UNCHANGED vars
    BY <2>0, <2>12, Zenon DEF vars
  <2> QED
    BY <2>1, <2>2, <2>3, <2>4, <2>5, <2>6, <2>7, <2>8, <2>9, <2>10, <2>11, <2>12, Zenon DEF Next
<1> QED BY <1>1, InputKept, Zenon DEF Bounded

(* No call back of lwIP and no operation of the SOCKS connection finds its  *)
(* client freed, lwIP does not go on with a pcb that a call back aborted,   *)
(* and a client is freed exactly when both its sides are closed.  Every     *)
(* variable keeps its kind and its bound: the buffers, the window, the      *)
(* bytes that wait for an acknowledgement and the call backs of a segment,  *)
(* for every size of the window and of the buffers.                         *)
THEOREM MemorySafety == Spec => []MemorySafe
<1>1. IInv /\ Bounded => TypeOK
  <2> SUFFICES ASSUME IInv, Bounded PROVE TypeOK
    OBVIOUS
  <2>1. PcbTypes /\ ClientTypes /\ DataTypes /\ SocksTypes BY Zenon DEF IInv, Types
  <2>2. send_len \in 0 .. TCP_WND
    BY <2>1, Sizes, EmptyLen DEF DataTypes, SocksTypes
  <2>3. tcp_pending \in 0 .. TCP_SND_BUF /\ downIn \in 0 .. DownBytes
    BY <2>1, Sizes, SizesAssumption DEF DataTypes, Bounded
  <2>4. upIn \in 0 .. UpBytes
    <3>1. PICK n \in 0 .. TCP_WND : upIn + n <= UpBytes BY Zenon DEF Bounded, Due
    <3>2. QED BY <2>1, <3>1, Sizes, SizesAssumption DEF DataTypes
  <2>5. {client_closed, aborted, socks_up, socks_closed} \subseteq BOOLEAN
    BY <2>1, Zenon DEF ClientTypes
  <2> QED
    BY <2>1, <2>2, <2>3, <2>4, <2>5, Zenon
       DEF TypeOK, PcbTypes, ClientTypes, DataTypes, SocksTypes, Bounded, Causes
<1>2. IInv /\ Bounded /\ [Next]_vars => Bounded'
  BY BoundedStep
<1>3. IInv /\ Bounded => MemorySafe
  BY <1>1, Zenon DEF IInv, Owned, Called, NoUseAfterFree, MemorySafe
<1> QED BY <1>2, <1>3, BoundedInit, Invariant, PTL DEF Spec

-----------------------------------------------------------------------------
(* Tun2socks implements BytePipe twice: from the app to the server (UpPipe) *)
(* and from the server to the app (DownPipe), whatever the sizes of the     *)
(* window and of the buffers and however many bytes are sent.               *)
(*                                                                          *)
(* The invariant says, byte by byte, where the numbered bytes are: those    *)
(* that left are 1, 2, ... and those in the buffer are the ones after       *)
(* them.  A step of the pipe is then a matter of lengths (UpMoves and       *)
(* DownMoves); each action of Tun2socks is shown to keep the order and to   *)
(* close a side only for a reason or with nothing left to deliver.          *)
UpBroken   == {"socks", "eof", "quit"}
DownBroken == {"fin", "rst", "oom", "quit"}

(* s holds the bytes after the first n, in order.                           *)
After(s, n) == \A i \in 1 .. Len(s) : s[i] = n + i

UpOrder ==
  /\ toSocks \in Seq(Nat) /\ After(toSocks, 0)
  /\ Len(toSocks) + Len(buf) = upIn
  /\ After(buf, Len(toSocks))

DownOrder ==
  /\ toPcb \in Seq(Nat) /\ After(toPcb, 0)
  /\ Len(toPcb) <= downIn
  /\ ~client_closed => /\ Len(toPcb) + Len(socks_recv_buf) = downIn
                       /\ After(socks_recv_buf, Len(toPcb))
  /\ ~socks_up => downIn = 0

(* A side that closed while the other lives on had a reason to.             *)
Reasons ==
  alloc = "live" => /\ socks_closed => why \cap UpBroken # {}
                    /\ client_closed => why \cap DownBroken # {}

PipeInv == UpOrder /\ DownOrder /\ Reasons

-----------------------------------------------------------------------------
(* Appending the bytes that follow, and taking bytes from the front, keep   *)
(* the order.                                                               *)
LEMMA AfterAppend ==
  ASSUME NEW s \in Seq(Nat), NEW t \in Seq(Nat), NEW n \in Nat,
         After(s, n), After(t, n + Len(s))
  PROVE  /\ s \o t \in Seq(Nat) /\ Len(s \o t) = Len(s) + Len(t)
         /\ After(s \o t, n)
<1>1. s \o t \in Seq(Nat) /\ Len(s \o t) = Len(s) + Len(t)
  OBVIOUS
<1>2. ASSUME NEW i \in 1 .. Len(s \o t) PROVE (s \o t)[i] = n + i
  <2>1. CASE i <= Len(s) BY <1>1, <1>2, <2>1 DEF After
  <2>2. CASE i > Len(s)
    <3>1. (s \o t)[i] = t[i - Len(s)] BY <1>1, <1>2, <2>2
    <3>2. i - Len(s) \in 1 .. Len(t) BY <1>1, <1>2, <2>2
    <3>3. t[i - Len(s)] = n + Len(s) + (i - Len(s)) BY Zenon, <3>2 DEF After
    <3>4. QED BY <3>1, <3>3
  <2>3. QED BY <2>1, <2>2
<1>3. QED BY Zenon, <1>1, <1>2 DEF After

(* The bytes that arrive are the ones after those that came before.         *)
LEMMA AfterBytes ==
  ASSUME NEW a \in Nat, NEW n \in Nat
  PROVE  After(Bytes(a + 1, a + n), a)
  BY Zenon, BytesType DEF After

(* Both parts of an ordered sequence are ordered, and the second starts     *)
(* where the first ends.                                                    *)
LEMMA AfterSplit ==
  ASSUME NEW s \in Seq(Nat), NEW n \in Nat, NEW m \in 0 .. Len(s), After(s, n)
  PROVE  /\ SubSeq(s, 1, m) \in Seq(Nat) /\ Len(SubSeq(s, 1, m)) = m
         /\ After(SubSeq(s, 1, m), n)
         /\ From(s, m + 1) \in Seq(Nat) /\ Len(From(s, m + 1)) = Len(s) - m
         /\ After(From(s, m + 1), n + m)
<1>1. /\ SubSeq(s, 1, m) \in Seq(Nat) /\ Len(SubSeq(s, 1, m)) = m
      /\ \A i \in 1 .. m : SubSeq(s, 1, m)[i] = s[i]
  BY SubSeqProperties
<1>2. After(SubSeq(s, 1, m), n) BY <1>1 DEF After
<1>3. /\ From(s, m + 1) \in Seq(Nat) /\ Len(From(s, m + 1)) = Len(s) - m
      /\ \A i \in 1 .. Len(s) - m : From(s, m + 1)[i] = s[m + i]
  BY Zenon, FromType
<1>4. After(From(s, m + 1), n + m)
  <2> SUFFICES ASSUME NEW i \in 1 .. Len(s) - m
               PROVE  From(s, m + 1)[i] = n + m + i
    BY Zenon, <1>3 DEF After
  <2>1. From(s, m + 1)[i] = s[m + i] BY Zenon, <1>3
  <2>2. m + i \in 1 .. Len(s) OBVIOUS
  <2>3. QED BY <2>1, <2>2 DEF After
<1>5. QED BY Zenon, <1>1, <1>2, <1>3, <1>4

(* A longer sequence of the bytes from the first on extends a shorter one.  *)
LEMMA AfterPrefix ==
  ASSUME NEW s \in Seq(Nat), NEW t \in Seq(Nat), After(s, 0), After(t, 0),
         Len(t) >= Len(s)
  PROVE  SubSeq(t, 1, Len(s)) = s
<1>1. /\ SubSeq(t, 1, Len(s)) \in Seq(Nat) /\ Len(SubSeq(t, 1, Len(s))) = Len(s)
      /\ \A i \in 1 .. Len(s) : SubSeq(t, 1, Len(s))[i] = t[i]
  BY SubSeqProperties
<1>2. \A i \in 1 .. Len(s) : t[i] = s[i] BY DEF After
<1>3. QED BY Zenon, <1>1, <1>2, SeqEqual

-----------------------------------------------------------------------------
(* What a step of either pipe comes down to.                                *)
UpEnd   == EndOfSide(socks_closed, client_closed, UpBroken)
DownEnd == EndOfSide(client_closed, socks_closed, DownBroken)

UpStep ==
  /\ client_closed => client_closed' /\ upIn' = upIn
  /\ socks_closed => /\ socks_closed' /\ UNCHANGED <<upIn, toSocks>>
                     /\ why' \cap UpBroken # {} <=> why \cap UpBroken # {}
  /\ ~socks_closed /\ socks_closed' => buf' = <<>> \/ why' \cap UpBroken # {}
  /\ upIn' >= upIn /\ Len(toSocks') >= Len(toSocks)

DownStep ==
  /\ socks_closed => socks_closed' /\ downIn' = downIn
  /\ client_closed => /\ client_closed' /\ UNCHANGED <<downIn, toPcb>>
                      /\ why' \cap DownBroken # {} <=> why \cap DownBroken # {}
  /\ ~client_closed /\ client_closed' =>
       Len(toPcb') = downIn' \/ why' \cap DownBroken # {}
  /\ downIn' >= downIn /\ Len(toPcb') >= Len(toPcb)

(* A step that keeps the order and UpStep is a step of the pipe to the      *)
(* server, or none.                                                         *)
LEMMA UpMoves ==
  ASSUME IInv, IInv', UpOrder, UpOrder', UpStep
  PROVE  [Up!Next]_<<upIn, toSocks, UpEnd>>
<1>1. CASE socks_closed
  <2>1. UpEnd' = UpEnd BY Zenon, <1>1 DEF UpStep, UpEnd, EndOfSide
  <2>2. QED BY Zenon, <1>1, <2>1 DEF UpStep
<1>2. CASE ~socks_closed
  <2>1. UpEnd = IF client_closed THEN "draining" ELSE "open"
    BY Zenon, <1>2 DEF UpEnd, EndOfSide
  <2>2. /\ ~socks_closed' => UpEnd' = IF client_closed' THEN "draining" ELSE "open"
        /\ socks_closed' =>
             UpEnd' = IF why' \cap UpBroken # {} THEN "broken" ELSE "done"
    BY Zenon DEF UpEnd, EndOfSide
  <2>3. PICK w \in Nat, w1 \in Nat, r \in Nat, r1 \in Nat, b1 \in Nat :
          /\ w = upIn /\ w1 = upIn' /\ r = Len(toSocks) /\ r1 = Len(toSocks')
          /\ b1 = Len(buf')
    BY Zenon, EmptyLen DEF IInv, Types, DataTypes, UpOrder
  <2>4. w1 >= w /\ r1 >= r /\ r1 + b1 = w1 /\ b1 <= TCP_WND
    BY Zenon, <2>3 DEF IInv, Types, DataTypes, UpStep, UpOrder
  <2>5. upIn' \in Nat /\ upIn' >= upIn BY Zenon, <2>3, <2>4
  <2>6. UpEnd = "draining" => upIn' = upIn BY Zenon, <2>1 DEF UpStep
  <2>7. Len(toSocks') >= Len(toSocks) /\ Len(toSocks') <= upIn' BY <2>3, <2>4
  <2>8. SubSeq(toSocks', 1, Len(toSocks)) = toSocks
    BY Zenon, <2>7, AfterPrefix DEF UpOrder
  <2>9. Up!InOrder(toSocks')
    <3>1. \A i \in 1 .. Len(toSocks') : toSocks'[i] = 0 + i BY Zenon DEF UpOrder, After
    <3>2. QED BY <3>1 DEF Up!InOrder
  <2>10. upIn' - Len(toSocks') <= TCP_WND BY <2>3, <2>4, Sizes
  <2>11. UpEnd' = "done" => Len(toSocks') = upIn'
    <3>1. UpEnd' = "done" => buf' = <<>> BY Zenon, <1>2, <2>2 DEF UpStep
    <3>2. buf' = <<>> => b1 = 0 BY Zenon, <2>3
    <3>3. QED BY <2>3, <2>4, <3>1, <3>2
  <2>12. UpEnd' = UpEnd \/ UpEnd' \in {"draining", "done", "broken"}
    BY Zenon, <2>1, <2>2 DEF UpStep, IInv, Types, ClientTypes
  <2>13. UpEnd \in {"open", "draining"} BY <2>1
  <2> HIDE DEF UpEnd
  <2>14. Up!Move
    BY Zenon, <2>5, <2>6, <2>7, <2>8, <2>9, <2>10, <2>11, <2>12, <2>13
       DEF Up!Move, UpEnd, UpBroken
  <2>15. QED BY Zenon, <2>14 DEF Up!Next
<1>3. QED BY Zenon, <1>1, <1>2 DEF IInv, Types, ClientTypes

(* The same for the pipe to the app.                                        *)
LEMMA DownMoves ==
  ASSUME IInv, IInv', DownOrder, DownOrder', DownStep
  PROVE  [Down!Next]_<<downIn, toPcb, DownEnd>>
<1>1. CASE client_closed
  <2>1. DownEnd' = DownEnd BY Zenon, <1>1 DEF DownStep, DownEnd, EndOfSide
  <2>2. QED BY Zenon, <1>1, <2>1 DEF DownStep
<1>2. CASE ~client_closed
  <2>1. DownEnd = IF socks_closed THEN "draining" ELSE "open"
    BY Zenon, <1>2 DEF DownEnd, EndOfSide
  <2>2. /\ ~client_closed' => DownEnd' = IF socks_closed' THEN "draining" ELSE "open"
        /\ client_closed' =>
             DownEnd' = IF why' \cap DownBroken # {} THEN "broken" ELSE "done"
    BY Zenon DEF DownEnd, EndOfSide
  <2>3. PICK w \in Nat, w1 \in Nat, r \in Nat, r1 \in Nat, b1 \in Nat :
          /\ w = downIn /\ w1 = downIn' /\ r = Len(toPcb) /\ r1 = Len(toPcb')
          /\ b1 = Len(socks_recv_buf')
    BY Zenon, EmptyLen DEF IInv, Types, DataTypes, DownOrder
  <2>4. /\ w1 >= w /\ r1 >= r /\ r1 <= w1 /\ b1 <= CLIENT_SOCKS_RECV_BUF_SIZE
        /\ ~client_closed' => r1 + b1 = w1
    BY Zenon, <2>3 DEF IInv, Types, DataTypes, DownStep, DownOrder
  <2>5. downIn' \in Nat /\ downIn' >= downIn BY Zenon, <2>3, <2>4
  <2>6. DownEnd = "draining" => downIn' = downIn BY Zenon, <2>1 DEF DownStep
  <2>7. Len(toPcb') >= Len(toPcb) /\ Len(toPcb') <= downIn' BY Zenon, <2>3, <2>4
  <2>8. SubSeq(toPcb', 1, Len(toPcb)) = toPcb
    BY Zenon, <2>7, AfterPrefix DEF DownOrder
  <2>9. Down!InOrder(toPcb')
    <3>1. \A i \in 1 .. Len(toPcb') : toPcb'[i] = 0 + i BY Zenon DEF DownOrder, After
    <3>2. QED BY <3>1 DEF Down!InOrder
  <2>10. DownEnd' = "done" => Len(toPcb') = downIn'
    BY Zenon, <1>2, <2>2 DEF DownStep
  <2>11. DownEnd' # "broken" => downIn' - Len(toPcb') <= CLIENT_SOCKS_RECV_BUF_SIZE
    <3>1. CASE client_closed'
      <4>1. DownEnd' # "broken" => r1 = w1 BY Zenon, <2>2, <2>3, <2>10, <3>1
      <4>2. QED BY <2>3, <4>1, Sizes
    <3>2. CASE ~client_closed' BY <2>3, <2>4, <3>2, Sizes
    <3>3. QED BY Zenon, <3>1, <3>2
  <2>12. DownEnd' = DownEnd \/ DownEnd' \in {"draining", "done", "broken"}
    BY Zenon, <2>1, <2>2 DEF DownStep, IInv, Types, ClientTypes
  <2>13. DownEnd \in {"open", "draining"} BY Zenon, <2>1
  <2> HIDE DEF DownEnd
  <2>14. Down!Move
    BY <2>5, <2>6, <2>7, <2>8, <2>9, <2>10, <2>11, <2>12, <2>13
       DEF Down!Move, DownEnd, DownBroken
  <2>15. QED BY Zenon, <2>14 DEF Down!Next
<1>3. QED BY Zenon, <1>1, <1>2 DEF IInv, Types, ClientTypes

-----------------------------------------------------------------------------
(* What every action is shown to do.                                        *)
PipeStep == UpOrder' /\ DownOrder' /\ Reasons' /\ UpStep /\ DownStep

(* A step that neither moves a byte nor closes a side.                      *)
LEMMA StillSteps ==
  ASSUME IInv, PipeInv,
         UNCHANGED <<client_closed, socks_closed, buf, socks_recv_buf, upIn,
                     toSocks, downIn, toPcb, why>>,
         alloc' = alloc \/ (~client_closed /\ ~socks_closed),
         socks_up => socks_up'
  PROVE  PipeStep
<1>1. UpOrder' BY Zenon DEF PipeInv, UpOrder, After
<1>2. DownOrder' BY Zenon DEF PipeInv, DownOrder, After
<1>3. Reasons' BY Zenon DEF PipeInv, Reasons
<1>4. /\ upIn \in Nat /\ downIn \in Nat /\ Len(toSocks) \in Nat /\ Len(toPcb) \in Nat
  BY Zenon, EmptyLen DEF IInv, Types, DataTypes, PipeInv, UpOrder, DownOrder
<1>5. UpStep BY <1>4 DEF UpStep
<1>6. DownStep BY <1>4 DEF DownStep
<1>7. QED BY Zenon, <1>1, <1>2, <1>3, <1>5, <1>6 DEF PipeStep

(* The app's side closes.                                                   *)
LEMMA AppClosedSteps ==
  ASSUME IInv, PipeInv, alloc = "live", ~client_closed, NEW killed,
         HandleFreedClient(killed),
         UNCHANGED <<buf, upIn, toSocks, toPcb, socks_up>>,
         downIn' \in Nat, downIn' >= downIn,
         socks_closed \/ ~socks_up => downIn' = downIn,
         why' \cap UpBroken = why \cap UpBroken,
         \/ why' \cap DownBroken # {}
         \/ alloc' = "freed" /\ Len(toPcb) = downIn'
  PROVE  PipeStep
<1>1. client_closed' = TRUE
      /\ (socks_closed => socks_closed')
      /\ (~socks_closed /\ socks_closed' => buf = <<>>)
      /\ (alloc' = "live" => ~socks_closed')
  BY Zenon DEF HandleFreedClient, KeepSendingToSocks, Dealloc
<1>2. /\ upIn \in Nat /\ downIn \in Nat /\ Len(toSocks) \in Nat /\ Len(toPcb) \in Nat
      /\ Len(toPcb) <= downIn
  BY Zenon, EmptyLen DEF IInv, Types, DataTypes, PipeInv, UpOrder, DownOrder
<1>3. UpOrder' BY Zenon DEF PipeInv, UpOrder, After
<1>4. DownOrder'
  <2>1. Len(toPcb') <= downIn'
    <3>1. PICK a \in Nat, b \in Nat, c \in Nat : a = Len(toPcb) /\ b = downIn /\ c = downIn'
      BY Zenon, <1>2
    <3>2. a <= b /\ c >= b BY Zenon, <1>2, <3>1
    <3>3. QED BY <3>1, <3>2
  <2>2. ~socks_up' => downIn' = 0 BY Zenon DEF PipeInv, DownOrder
  <2>3. QED BY Zenon, <1>1, <2>1, <2>2 DEF PipeInv, DownOrder, After
<1>5. Reasons' BY Zenon, <1>1 DEF Reasons
<1>6. UpStep BY <1>1, <1>2 DEF UpStep
<1>7. DownStep BY <1>1, <1>2 DEF DownStep
<1>8. QED BY Zenon, <1>3, <1>4, <1>5, <1>6, <1>7 DEF PipeStep

(* The server's side closes.                                                *)
LEMMA SocksClosedSteps ==
  ASSUME IInv, PipeInv, alloc = "live", ~socks_closed, FreeSocks,
         UNCHANGED <<upIn, downIn, toPcb, socks_recv_buf>>,
         UpOrder', Len(toSocks') >= Len(toSocks),
         why' \cap DownBroken = why \cap DownBroken,
         \/ why' \cap UpBroken # {}
         \/ client_closed /\ buf' = <<>>
  PROVE  PipeStep
<1>1. /\ socks_closed' = TRUE /\ UNCHANGED socks_up
      /\ client_closed => client_closed'
      /\ ~client_closed /\ client_closed' => ~socks_up \/ socks_recv_buf = <<>>
      /\ alloc' = "live" => ~client_closed' /\ ~client_closed
  BY Zenon DEF FreeSocks, KeepSendingToClient, Dealloc
<1>2. /\ upIn \in Nat /\ downIn \in Nat /\ Len(toSocks) \in Nat /\ Len(toPcb) \in Nat
      /\ Len(toPcb) <= downIn
  BY Zenon, EmptyLen DEF IInv, Types, DataTypes, PipeInv, UpOrder, DownOrder
<1>3. DownOrder' BY Zenon, <1>1 DEF PipeInv, DownOrder, After
<1>4. ~client_closed /\ client_closed' => Len(toPcb) = downIn
  <2> SUFFICES ASSUME ~client_closed, client_closed' PROVE Len(toPcb) = downIn
    BY Zenon
  <2>1. CASE ~socks_up
    <3>1. downIn = 0 BY Zenon, <2>1 DEF PipeInv, DownOrder
    <3>2. QED BY <1>2, <3>1
  <2>2. CASE socks_recv_buf = <<>>
    <3>1. Len(toPcb) + Len(socks_recv_buf) = downIn /\ Len(socks_recv_buf) = 0
      BY Zenon, <2>2 DEF PipeInv, DownOrder
    <3>2. QED BY <1>2, <3>1
  <2>3. QED BY Zenon, <1>1, <2>1, <2>2
<1>5. Reasons' BY Zenon, <1>1 DEF Reasons
<1>6. UpStep BY <1>1, <1>2 DEF UpStep
<1>7. DownStep BY <1>1, <1>2, <1>4 DEF DownStep
<1>8. QED BY Zenon, <1>3, <1>5, <1>6, <1>7 DEF PipeStep

(* client_recv_func with data appends to buf what follows the bytes in it.  *)
LEMMA ClientRecvSteps ==
  ASSUME IInv, IInv', PipeInv, Starts("recv"), ClientRecv(Head(input).n)
  PROVE  PipeStep
<1>1. PICK n \in 0 .. TCP_WND : Head(input).n = n
  BY Zenon, StartsWith DEF Starts, ClientRecv, Begin
<1>2. PICK u \in Nat, s \in Nat, b \in Nat :
        u = upIn /\ s = Len(toSocks) /\ b = Len(buf)
  BY Zenon, EmptyLen DEF IInv, Types, DataTypes, PipeInv, UpOrder
<1>3. s + b = u BY Zenon, <1>2 DEF PipeInv, UpOrder
<1>4. buf' = buf \o Bytes(upIn + 1, upIn + n) /\ upIn' = upIn + n /\ why' = why
  BY Zenon, <1>1 DEF ClientRecv, IInv, NeverRefused
<1>5. /\ UNCHANGED <<client_closed, socks_closed, alloc, socks_up, toSocks, downIn,
                     toPcb, socks_recv_buf>>
      /\ ~client_closed /\ ~socks_closed /\ n \in Nat
  BY Sizes DEF ClientRecv, clientVars, IInv, Owned
<1>6. UpOrder'
  <2> DEFINE t == Bytes(u + 1, u + n)
  <2>1. t \in Seq(Nat) /\ Len(t) = n /\ After(t, u)
    BY Zenon, <1>5, BytesType, AfterBytes
  <2>2. After(t, s + Len(buf)) BY Zenon, <1>2, <1>3, <2>1
  <2> HIDE DEF t
  <2>3. buf \in Seq(Nat) /\ After(buf, s) BY Zenon, <1>2 DEF IInv, Types, DataTypes, PipeInv, UpOrder
  <2>4. Len(buf \o t) = Len(buf) + Len(t) /\ After(buf \o t, s)
    BY Zenon, <2>1, <2>2, <2>3, AfterAppend
  <2>5. buf' = buf \o t BY Zenon, <1>2, <1>4 DEF t
  <2>6. Len(buf') = b + n /\ After(buf', s) BY <1>2, <2>1, <2>4, <2>5
  <2>7. Len(toSocks') + Len(buf') = upIn'
    <3>1. upIn' = u + n BY Zenon, <1>2, <1>4
    <3>2. Len(toSocks') = s BY Zenon, <1>2, <1>5
    <3>3. s + (b + n) = u + n BY <1>3, <1>5
    <3>4. QED BY Zenon, <2>6, <3>1, <3>2, <3>3
  <2>8. QED BY Zenon, <1>2, <1>5, <2>6, <2>7 DEF PipeInv, UpOrder, After
<1>7. DownOrder' BY Zenon, <1>5 DEF PipeInv, DownOrder, After
<1>8. Reasons' BY Zenon, <1>5 DEF Reasons
<1>9. upIn' >= upIn BY <1>2, <1>4, <1>5
<1>10. Len(toSocks') >= Len(toSocks) /\ downIn' >= downIn /\ Len(toPcb') >= Len(toPcb)
  BY <1>2, <1>5, EmptyLen DEF IInv, Types, DataTypes, PipeInv, DownOrder
<1>11. UpStep BY Zenon, <1>5, <1>9, <1>10 DEF UpStep
<1>12. DownStep BY Zenon, <1>5, <1>10 DEF DownStep
<1>13. QED BY Zenon, <1>6, <1>7, <1>8, <1>11, <1>12 DEF PipeStep

(* client_socks_send_handler_done takes the first bytes of buf.             *)
LEMMA WriteDoneSteps ==
  ASSUME IInv, PipeInv, NEW n \in 1 .. TCP_WND, WriteDone(n)
  PROVE  PipeStep
<1>1. /\ alloc = "live" /\ ~socks_closed /\ n <= send_len
      /\ buf' = From(buf, n + 1) /\ toSocks' = toSocks \o SubSeq(buf, 1, n)
      /\ UNCHANGED <<socks_recv_buf, upIn, downIn, toPcb, why>>
  BY Zenon DEF WriteDone, Writing, RemoveSent, IInv, Owned
<1>2. PICK u \in Nat, s \in Nat, b \in Nat :
        u = upIn /\ s = Len(toSocks) /\ b = Len(buf)
  BY Zenon, EmptyLen DEF IInv, Types, DataTypes, PipeInv, UpOrder
<1>3. s + b = u /\ n \in 0 .. b
  <2>1. send_len \in 0 .. b BY Zenon, <1>2 DEF IInv, Types, SocksTypes
  <2>2. QED BY <1>1, <1>2, <2>1 DEF PipeInv, UpOrder
<1>4. UpOrder' /\ Len(toSocks') >= Len(toSocks)
  <2> DEFINE t == SubSeq(buf, 1, n)
  <2>1. /\ buf \in Seq(Nat) /\ After(buf, s) /\ toSocks \in Seq(Nat) /\ After(toSocks, 0)
    BY Zenon, <1>2 DEF IInv, Types, DataTypes, PipeInv, UpOrder
  <2>2. /\ t \in Seq(Nat) /\ Len(t) = n /\ After(t, s)
        /\ Len(buf') = b - n /\ After(buf', s + n)
    BY Zenon, <1>1, <1>2, <1>3, <2>1, AfterSplit
  <2>3. toSocks' = toSocks \o t /\ s = 0 + Len(toSocks) BY <1>1, <1>2
  <2> HIDE DEF t
  <2>4. toSocks' \in Seq(Nat) /\ Len(toSocks') = s + n /\ After(toSocks', 0)
    BY Zenon, <1>2, <2>1, <2>2, <2>3, AfterAppend
  <2>5. Len(toSocks') + Len(buf') = upIn'
    <3>1. upIn' = u BY Zenon, <1>1, <1>2
    <3>2. (s + n) + (b - n) = u BY <1>3
    <3>3. QED BY Zenon, <2>2, <2>4, <3>1, <3>2
  <2>6. After(buf', Len(toSocks')) BY Zenon, <2>2, <2>4
  <2>7. UpOrder' BY Zenon, <2>4, <2>5, <2>6 DEF UpOrder, After
  <2>8. QED BY <1>2, <1>3, <2>4, <2>7
<1>5. CASE buf' = <<>> /\ ClientDone /\ FreeSocks
  BY <1>1, <1>4, <1>5, SocksClosedSteps DEF ClientDone
<1>6. CASE UNCHANGED <<state, unacked, cb, clientVars, recv_op>>
  <2>1. UNCHANGED <<alloc, client_closed, socks_closed, socks_up>>
    BY Zenon, <1>6 DEF clientVars
  <2>2. DownOrder' BY Zenon, <1>1, <2>1 DEF PipeInv, DownOrder, After
  <2>3. Reasons' BY Zenon, <1>1, <2>1 DEF PipeInv, Reasons
  <2>4. /\ upIn' >= upIn /\ downIn' >= downIn /\ Len(toPcb') >= Len(toPcb)
    BY <1>1, EmptyLen DEF IInv, Types, DataTypes, PipeInv, DownOrder
  <2>5. UpStep BY Zenon, <1>1, <1>4, <2>1, <2>4 DEF UpStep
  <2>6. DownStep BY Zenon, <1>1, <2>1, <2>4 DEF DownStep
  <2>7. QED BY Zenon, <1>4, <2>2, <2>3, <2>5, <2>6 DEF PipeStep
<1>7. QED BY Zenon, <1>5, <1>6 DEF WriteDone

(* client_socks_recv_send_out passes the first bytes on and keeps the rest, *)
(* or ends the client for lack of memory.                                   *)
LEMMA SendOutSteps ==
  ASSUME IInv, PipeInv, alloc = "live", ~client_closed, socks_up,
         NEW data \in Seq(Nat), After(data, Len(toPcb)),
         Len(toPcb) + Len(data) = downIn', downIn' \in Nat, downIn' >= downIn,
         socks_closed => downIn' = downIn,
         NEW pending, SendOut(data, pending),
         UNCHANGED <<buf, upIn, toSocks>>
  PROVE  PipeStep
<1>1. CASE AbortClient /\ why' = why \cup {"oom"} /\ UNCHANGED <<toPcb, socks_up>>
  <2>1. why' \cap UpBroken = why \cap UpBroken /\ why' \cap DownBroken # {}
    BY Zenon, <1>1 DEF UpBroken, DownBroken
  <2>2. HandleFreedClient(TRUE) BY Zenon, <1>1 DEF AbortClient
  <2>3. QED BY Zenon, <1>1, <2>1, <2>2, AppClosedSteps
<1>2. ASSUME NEW k \in {0, Fits(data)},
             socks_recv_buf' = From(data, k + 1),
             toPcb' = toPcb \o SubSeq(data, 1, k),
             UNCHANGED <<clientVars, why>>
      PROVE  PipeStep
  <2>1. k \in 0 .. Len(data) BY Zenon, FitsBound
  <2>2. PICK p \in Nat, d \in Nat : p = Len(toPcb) /\ d = Len(data)
    BY Zenon, EmptyLen DEF PipeInv, DownOrder
  <2>3. UNCHANGED <<alloc, client_closed, socks_closed, socks_up>>
    BY Zenon, <1>2 DEF clientVars
  <2> DEFINE t == SubSeq(data, 1, k)
  <2>4. /\ t \in Seq(Nat) /\ Len(t) = k /\ After(t, p)
        /\ Len(socks_recv_buf') = d - k /\ After(socks_recv_buf', p + k)
    BY Zenon, <1>2, <2>1, <2>2, AfterSplit
  <2>5. toPcb \in Seq(Nat) /\ After(toPcb, 0) /\ p = 0 + Len(toPcb) /\ toPcb' = toPcb \o t
    BY <1>2, <2>2 DEF PipeInv, DownOrder
  <2> HIDE DEF t
  <2>6. toPcb' \in Seq(Nat) /\ Len(toPcb') = p + k /\ After(toPcb', 0)
    <3>1. After(t, 0 + Len(toPcb)) BY Zenon, <2>4, <2>5
    <3>2. toPcb \o t \in Seq(Nat) /\ Len(toPcb \o t) = Len(toPcb) + Len(t) /\ After(toPcb \o t, 0)
      BY Zenon, <2>4, <2>5, <3>1, AfterAppend
    <3>3. QED BY Zenon, <2>2, <2>4, <2>5, <3>2
  <2>7. Len(toPcb') + Len(socks_recv_buf') = downIn' /\ Len(toPcb') <= downIn'
    BY <2>1, <2>2, <2>4, <2>6
  <2>8. After(socks_recv_buf', Len(toPcb')) BY Zenon, <2>4, <2>6
  <2>9. DownOrder' BY Zenon, <2>3, <2>6, <2>7, <2>8 DEF DownOrder, After
  <2>10. UpOrder' BY Zenon DEF PipeInv, UpOrder, After
  <2>11. Reasons' BY Zenon, <1>2, <2>3 DEF PipeInv, Reasons
  <2>12. /\ upIn' >= upIn /\ Len(toSocks') >= Len(toSocks)
    BY EmptyLen DEF IInv, Types, DataTypes, PipeInv, UpOrder
  <2>13. Len(toPcb') >= Len(toPcb) BY <2>1, <2>2, <2>6
  <2>14. UpStep BY Zenon, <1>2, <2>3, <2>12 DEF UpStep
  <2>15. DownStep BY Zenon, <1>2, <2>3, <2>13 DEF DownStep
  <2>16. QED BY Zenon, <2>9, <2>10, <2>11, <2>14, <2>15 DEF PipeStep
<1>3. QED BY Zenon, <1>1, <1>2 DEF SendOut

(* client_sent_func goes on sending, frees a client that has nothing more   *)
(* to send, or does nothing.                                                *)
LEMMA SentSteps ==
  ASSUME IInv, PipeInv, SentEvent
  PROVE  PipeStep
<1>1. /\ alloc = "live" /\ ~client_closed /\ socks_up
      /\ UNCHANGED <<buf, upIn, toSocks, downIn>>
      /\ downIn \in Nat /\ downIn' \in Nat /\ downIn' >= downIn
  BY DEF SentEvent, IInv, Owned, Types, DataTypes
<1>2. CASE socks_recv_buf # <<>>
  <2>1. /\ socks_recv_buf \in Seq(Nat) /\ After(socks_recv_buf, Len(toPcb))
        /\ Len(toPcb) + Len(socks_recv_buf) = downIn'
    BY Zenon, <1>1 DEF IInv, Types, DataTypes, PipeInv, DownOrder
  <2>2. SendOut(socks_recv_buf, tcp_pending - Head(input).n) BY <1>2 DEF SentEvent
  <2>3. QED BY Zenon, <1>1, <2>1, <2>2, SendOutSteps
<1>3. CASE /\ socks_recv_buf = <<>> /\ socks_closed /\ FreeClient(rcv_wnd)
           /\ UNCHANGED <<socks_up, toPcb, why>>
  <2>1. HandleFreedClient(FALSE) BY Zenon, <1>3 DEF FreeClient
  <2>2. alloc' = "freed"
    BY Zenon, <1>3, <2>1 DEF HandleFreedClient, KeepSendingToSocks, Dealloc
  <2>3. Len(toPcb) = downIn'
    <3>1. Len(toPcb) + 0 = downIn BY Zenon, <1>1, <1>3 DEF PipeInv, DownOrder
    <3>2. Len(toPcb) \in Nat BY Zenon, EmptyLen DEF PipeInv, DownOrder
    <3>3. QED BY <1>1, <3>1, <3>2
  <2>4. why' \cap UpBroken = why \cap UpBroken BY Zenon, <1>3
  <2>5. QED BY Zenon, <1>1, <1>3, <2>1, <2>2, <2>3, <2>4, AppClosedSteps
<1>4. CASE UNCHANGED <<cb, clientVars, socks_recv_buf, toPcb, why>>
  BY Zenon, <1>1, <1>4, StillSteps DEF clientVars
<1>5. QED BY Zenon, <1>2, <1>3, <1>4 DEF SentEvent

(* client_socks_recv_handler_done: what was read follows what was read      *)
(* before, of which nothing is left in socks_recv_buf.                      *)
LEMMA ReadDoneSteps ==
  ASSUME IInv, PipeInv, NEW n \in 1 .. CLIENT_SOCKS_RECV_BUF_SIZE, ReadDone(n)
  PROVE  PipeStep
<1>1. CASE client_closed
  BY Zenon, <1>1, StillSteps DEF ReadDone, clientVars, dataVars
<1>2. CASE ~client_closed
  <2>1. /\ alloc = "live" /\ socks_up /\ ~socks_closed
        /\ socks_recv_buf = <<>>
    BY Zenon DEF ReadDone, Reading, IInv, Owned, Awake
  <2>2. PICK d \in Nat, p \in Nat : d = downIn /\ p = Len(toPcb)
    BY Zenon, EmptyLen DEF IInv, Types, DataTypes, PipeInv, DownOrder
  <2>3. p = d
    <3>1. Len(toPcb) + 0 = downIn BY Zenon, <1>2, <2>1 DEF PipeInv, DownOrder
    <3>2. QED BY <2>2, <3>1
  <2>4. /\ SendOut(Bytes(d + 1, d + n), tcp_pending) /\ downIn' = d + n
        /\ UNCHANGED <<buf, upIn, toSocks>> /\ n \in Nat
    BY <1>2, <2>2, Sizes DEF ReadDone
  <2> DEFINE data == Bytes(d + 1, d + n)
  <2>5. data \in Seq(Nat) /\ Len(data) = n /\ After(data, d)
    BY Zenon, <2>4, BytesType, AfterBytes
  <2> HIDE DEF data
  <2>6. After(data, Len(toPcb)) BY Zenon, <2>2, <2>3, <2>5
  <2>7. Len(toPcb) + Len(data) = downIn' BY Zenon, <2>2, <2>3, <2>4, <2>5
  <2>8. downIn' \in Nat /\ downIn' >= downIn BY <2>2, <2>4
  <2>9. SendOut(data, tcp_pending) BY Zenon, <2>4 DEF data
  <2>10. QED BY <1>2, <2>1, <2>4, <2>5, <2>6, <2>7, <2>8, <2>9, SendOutSteps
<1>3. QED BY Zenon, <1>1, <1>2

(* An error or the end of the SOCKS connection.                             *)
LEMMA SocksFailSteps ==
  ASSUME IInv, PipeInv, NEW reason \in {"socks", "eof"}, SocksFails(reason),
         SocksMayReport \/ Writing \/ Reading
  PROVE  PipeStep
<1>1. alloc = "live" /\ ~socks_closed
  BY Zenon DEF SocksMayReport, Writing, Reading, IInv, Owned
<1>2. /\ FreeSocks /\ why' = why \cup {reason}
      /\ UNCHANGED <<upIn, downIn, toPcb, socks_recv_buf, buf, toSocks>>
  BY Zenon DEF SocksFails, dataVars
<1>3. why' \cap DownBroken = why \cap DownBroken /\ why' \cap UpBroken # {}
  BY Zenon, <1>2 DEF UpBroken, DownBroken
<1>4. UpOrder' /\ Len(toSocks') >= Len(toSocks)
  BY <1>2, EmptyLen DEF PipeInv, UpOrder, After
<1>5. QED BY Zenon, <1>1, <1>2, <1>3, <1>4, SocksClosedSteps

(* The end of the app's connection.                                         *)
LEMMA AppEndSteps ==
  ASSUME IInv, PipeInv, alloc = "live", ~client_closed, HandleFreedClient(FALSE),
         NEW reason \in {"fin", "rst"}, why' = why \cup {reason},
         UNCHANGED <<dataVars, socks_up, upIn, toSocks, downIn, toPcb>>
  PROVE  PipeStep
<1>1. downIn' \in Nat /\ downIn' >= downIn BY DEF IInv, Types, DataTypes
<1>2. why' \cap UpBroken = why \cap UpBroken /\ why' \cap DownBroken # {}
  BY Zenon DEF UpBroken, DownBroken
<1>3. QED BY Zenon, <1>1, <1>2, AppClosedSteps DEF dataVars

(* client_murder at the end of the program.                                 *)
LEMMA MurderSteps ==
  ASSUME IInv, PipeInv, Murder
  PROVE  PipeStep
<1>1. /\ alloc = "live" /\ alloc' = "freed" /\ client_closed' = TRUE
      /\ socks_closed' = TRUE /\ why' = why \cup {"quit"}
      /\ UNCHANGED <<buf, socks_recv_buf, socks_up, upIn, toSocks, downIn, toPcb>>
  BY Zenon DEF Murder, dataVars
<1>2. why' \cap UpBroken # {} /\ why' \cap DownBroken # {}
  BY Zenon, <1>1 DEF UpBroken, DownBroken
<1>3. UpOrder' BY Zenon, <1>1 DEF PipeInv, UpOrder, After
<1>4. DownOrder' BY Zenon, <1>1 DEF PipeInv, DownOrder, After
<1>5. Reasons' BY Zenon, <1>1 DEF Reasons
<1>6. /\ upIn' >= upIn /\ downIn' >= downIn
      /\ Len(toSocks') >= Len(toSocks) /\ Len(toPcb') >= Len(toPcb)
  BY <1>1, EmptyLen DEF IInv, Types, DataTypes, PipeInv, UpOrder, DownOrder
<1>7. UpStep BY Zenon, <1>1, <1>2, <1>6 DEF UpStep, PipeInv, Reasons
<1>8. DownStep BY Zenon, <1>1, <1>2, <1>6 DEF DownStep, PipeInv, Reasons
<1>9. QED BY Zenon, <1>3, <1>4, <1>5, <1>7, <1>8 DEF PipeStep

(* Every action keeps the order and the reasons, and moves each pipe as it  *)
(* may.                                                                     *)
LEMMA EveryStep == IInv /\ IInv' /\ PipeInv /\ [Next]_vars => PipeStep
<1> SUFFICES ASSUME IInv, IInv', PipeInv, [Next]_vars PROVE PipeStep
  BY Zenon
<1> USE DEF clientVars, dataVars, histVars
<1>1. CASE Accept
  <2>1. ~client_closed /\ ~socks_closed BY Zenon, <1>1 DEF Accept, IInv, Fresh
  <2>2. QED BY Zenon, <1>1, <2>1, StillSteps DEF Accept
<1>2. CASE AcceptFails BY Zenon, <1>2, StillSteps DEF AcceptFails
<1>3. CASE CallbackReturns BY Zenon, <1>3, StillSteps DEF CallbackReturns
<1>4. ASSUME NEW k \in 0 .. TCP_SND_BUF, NEW n \in 0 .. TCP_WND, NEW fin \in 0 .. 1,
             Segment(k, n, fin)
      PROVE  PipeStep
  BY Zenon, <1>4, StillSteps DEF Segment
<1>5. CASE RecvEvent
  <2>1. CASE ClientRecv(Head(input).n) BY Zenon, <1>5, <2>1, ClientRecvSteps DEF RecvEvent
  <2>2. CASE DiscardData(Head(input).n) BY Zenon, <2>2, StillSteps DEF DiscardData
  <2>3. CASE DataAfterClose BY Zenon, <2>3, StillSteps DEF DataAfterClose
  <2>4. QED BY Zenon, <1>5, <2>1, <2>2, <2>3 DEF RecvEvent
<1>6. CASE FinEvent
  <2>1. CASE "recv" \in cb
    <3>1. alloc = "live" /\ ~client_closed BY Zenon, <2>1 DEF IInv, Owned
    <3>2. HandleFreedClient(FALSE) /\ why' = why \cup {"fin"} /\ UNCHANGED socks_up
      BY Zenon, <1>6, <2>1 DEF FinEvent, FreeClient
    <3>3. QED BY Zenon, <1>6, <3>1, <3>2, AppEndSteps DEF FinEvent
  <2>2. CASE "recv" \notin cb BY <1>6, <2>2, StillSteps DEF FinEvent
  <2>3. QED BY Zenon, <2>1, <2>2
<1>7. CASE SentEvent BY Zenon, <1>7, SentSteps
<1>8. CASE SocksUp BY Zenon, <1>8, StillSteps DEF SocksUp
<1>9. CASE SocksError \/ WriteFails \/ ReadFails \/ ReadEnds
  BY Zenon, <1>9, SocksFailSteps DEF SocksError, WriteFails, ReadFails, ReadEnds
<1>10. CASE WriteBlocks BY Zenon, <1>10, StillSteps DEF WriteBlocks
<1>11. CASE ReadBlocks BY Zenon, <1>11, StillSteps DEF ReadBlocks
<1>12. ASSUME NEW n \in 1 .. TCP_WND, WriteDone(n) PROVE PipeStep
  BY Zenon, <1>12, WriteDoneSteps
<1>13. ASSUME NEW n \in 1 .. CLIENT_SOCKS_RECV_BUF_SIZE, ReadDone(n) PROVE PipeStep
  BY Zenon, <1>13, ReadDoneSteps
<1>14. CASE PcbError
  <2>1. alloc = "live" /\ ~client_closed BY Zenon, <1>14 DEF PcbError, IInv, Owned
  <2>2. QED BY Zenon, <1>14, <2>1, AppEndSteps DEF PcbError
<1>15. CASE PcbDrains BY Zenon, <1>15, StillSteps DEF PcbDrains
<1>16. CASE Murder BY Zenon, <1>16, MurderSteps
<1>17. CASE UNCHANGED vars BY Zenon, <1>17, StillSteps DEF vars
<1>18. QED
  BY <1>1, <1>2, <1>3, <1>4, <1>5, <1>6, <1>7, <1>8, <1>9, <1>10, <1>11, <1>12,
     <1>13, <1>14, <1>15, <1>16, <1>17 DEF Next

(* Both invariants always hold.                                             *)
LEMMA PipeInvariant == Spec => [](IInv /\ PipeInv)
<1>1. Init => PipeInv
  <2> SUFFICES ASSUME Init PROVE PipeInv
    BY Zenon
  <2>1. toSocks \in Seq(Nat) /\ toPcb \in Seq(Nat) /\ Len(toSocks) = 0 /\ Len(toPcb) = 0
    BY DEF Init
  <2>2. Len(buf) = 0 /\ Len(socks_recv_buf) = 0 /\ upIn = 0 /\ downIn = 0 BY Zenon DEF Init
  <2>3. UpOrder BY <2>1, <2>2 DEF UpOrder, After
  <2>4. DownOrder BY <2>1, <2>2 DEF DownOrder, After
  <2>5. QED BY Zenon, <2>3, <2>4 DEF PipeInv, Reasons, Init
<1>2. IInv /\ PipeInv /\ [Next]_vars => (IInv /\ PipeInv)'
  BY Zenon, InvariantStep, EveryStep DEF PipeStep, PipeInv
<1>3. QED BY <1>1, <1>2, InvariantInit, PTL DEF Spec

(* What the app sends reaches the server in order, with none lost, doubled  *)
(* or made up, and all of it before the SOCKS connection is closed, unless  *)
(* that connection fails: tun2socks.c implements BytePipe from              *)
(* client_recv_func to client_socks_send_handler_done.                      *)
THEOREM UpIsAPipe == Spec => UpPipe
<1>1. Init => Up!Init BY Zenon DEF Init, Up!Init, EndOfSide
<1>2. IInv /\ IInv' /\ PipeInv /\ PipeInv' /\ [Next]_vars =>
        [Up!Next]_<<upIn, toSocks, EndOfSide(socks_closed, client_closed, {"socks", "eof", "quit"})>>
  BY Zenon, EveryStep, UpMoves DEF PipeStep, PipeInv, UpEnd, UpBroken
<1>3. QED BY <1>1, <1>2, PipeInvariant, PTL DEF Spec, UpPipe, Up!Spec

(* The same from client_socks_recv_handler_done to tcp_write: what the      *)
(* server sent before it closed is all passed to lwIP before the client is  *)
(* closed, unless the app's side ends or fails.                             *)
THEOREM DownIsAPipe == Spec => DownPipe
<1>1. Init => Down!Init BY Zenon DEF Init, Down!Init, EndOfSide
<1>2. IInv /\ IInv' /\ PipeInv /\ PipeInv' /\ [Next]_vars =>
        [Down!Next]_<<downIn, toPcb, EndOfSide(client_closed, socks_closed, {"fin", "rst", "oom", "quit"})>>
  BY Zenon, EveryStep, DownMoves DEF PipeStep, PipeInv, DownEnd, DownBroken
<1>3. QED BY <1>1, <1>2, PipeInvariant, PTL DEF Spec, DownPipe, Down!Spec

(* Both directions are pipes, and what was passed to lwIP is not dropped    *)
(* because the server ended: what run relay checks on a small instance, for *)
(* every size of the window and of the buffers.                             *)
THEOREM RelayIsPipes == Spec => Pipes
  BY UpIsAPipe, DownIsAPipe, QueuedDataNotLost, PTL DEF Pipes
=============================================================================
