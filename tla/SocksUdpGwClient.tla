-------------------------- MODULE SocksUdpGwClient --------------------------
(***************************************************************************)
(* The UDP relay of tun2socks as it is built for Android                   *)
(* (tun2socks/SocksUdpGwClient.c under __ANDROID__): one socket for every  *)
(* local address, in a list from the least to the most recently used.      *)
(*                                                                         *)
(* The program is one thread.  What makes it subtle is the stack of jobs   *)
(* of the reactor (BPending.c: the job set last runs first): the first     *)
(* packet of a connection is sent by a job that reads it from the buffer   *)
(* of the device, which another job gives back to the device.              *)
(*                                                                         *)
(* A packet is its number; sizes are left out, and packets are taken to    *)
(* fit the buffers with their header.                                      *)
(***************************************************************************)
EXTENDS Naturals, Sequences, Functions

CONSTANTS Local,          \* addresses of apps
          Remote,         \* addresses that they send to
          MaxConnections, \* max_connections
          BufferSize,     \* CONNECTION_UDP_BUFFER_SIZE
          MaxPackets      \* bound: packets the device reads

VARIABLES
  read,       \* packets the device has read: local, remote, is_dns
  buf,        \* number of the packet in the buffer of the device
  reading,    \* the buffer is with the device
  jobs,       \* pending jobs, the next one first
  con,        \* connections_tree: the connection of a local address, or None
  list,       \* connections_list, the least recently used first
  num_connections,
  failed,     \* sockets that stay busy with a send or a receive that failed
  delivered,  \* answers written to the device
  dropped,    \* packets that were not sent
  retyped,    \* history: local addresses whose connection served both kinds
  remixed     \* history: local addresses that asked two servers by DNS

vars == <<read, buf, reading, jobs, con, list, num_connections, failed, delivered,
          dropped, retyped, remixed>>

(* A connection: id is the packet that opened it, remote and dns are those  *)
(* of its last packet, gateway is where its socket sends, ready says that   *)
(* its writer has a buffer; queue and wire hold what it will send and what  *)
(* it has sent and is not answered.                                         *)
Connection(p, to, is_dns) ==
  [id |-> p, remote |-> to, dns |-> is_dns, gateway |-> IF is_dns THEN "dns" ELSE "socks",
   ready |-> FALSE, queue |-> <<>>, wire |-> {}]

None == Connection(0, 0, FALSE)

Init ==
  /\ read = <<>> /\ buf = 0 /\ reading = TRUE /\ jobs = <<>>
  /\ con = [l \in Local |-> None] /\ list = <<>> /\ num_connections = 0
  /\ failed = {} /\ delivered = {} /\ dropped = {} /\ retyped = {} /\ remixed = {}

Open == {l \in Local : con[l] # None}

-----------------------------------------------------------------------------
(* connection_send: the packet is written with a header unless is_dns; the  *)
(* header names the address it is for.                                      *)
Message(c, content) == [content |-> content, to |-> c.remote, header |-> ~c.dns]

Accepts(c) == c.ready /\ Len(c.queue) < BufferSize

(* remove_lru_connection, when there is no room for another connection.     *)
Evicted == IF num_connections = MaxConnections THEN {Head(list)} ELSE {}

(* connection_init for packet p: its first job is set before the jobs that  *)
(* make its writer ready.  It may fail, and then nothing is left of it.     *)
BugFirstJobLast(p) == <<[job |-> "first", id |-> p], [job |-> "ready", id |-> p]>>
InitJobs(p) == <<[job |-> "ready", id |-> p], [job |-> "first", id |-> p]>>

NewConnection(p, l, to, is_dns, ok) ==
  LET left == [m \in Local |-> IF m \in Evicted THEN None ELSE con[m]]
      rest == SelectSeq(list, LAMBDA m : m \notin Evicted)
  IN /\ failed' = {f \in failed : f.socket \notin Evicted}
     /\ IF ok
        THEN /\ con' = [left EXCEPT ![l] = Connection(p, to, is_dns)]
             /\ list' = Append(rest, l)
             /\ num_connections' = Len(rest) + 1
             /\ jobs' = InitJobs(p) \o <<[job |-> "device", id |-> 0]>> \o jobs
             /\ UNCHANGED dropped
        ELSE /\ con' = left /\ list' = rest /\ num_connections' = Len(rest)
             /\ jobs' = <<[job |-> "device", id |-> 0]>> \o jobs
             /\ dropped' = dropped \cup {p}

(* reset_connection and connection_send for a packet of a known address:    *)
(* find_connection does not tell DNS from other packets.                    *)
Used(l) == Append(SelectSeq(list, LAMBDA m : m # l), l)

Resend(p, l, to, is_dns) ==
  LET c == [con[l] EXCEPT !.remote = to, !.dns = is_dns]
  IN /\ IF Accepts(c)
        THEN /\ con' = [con EXCEPT ![l] = [c EXCEPT !.queue = Append(@, Message(c, p))]]
             /\ list' = Used(l)
             /\ UNCHANGED dropped
        ELSE /\ con' = [con EXCEPT ![l] = c]
             /\ dropped' = dropped \cup {p}
             /\ UNCHANGED list
     /\ jobs' = <<[job |-> "device", id |-> 0]>> \o jobs
     /\ UNCHANGED <<num_connections, failed>>

(* device_read_handler_send with a UDP packet: the device is told that the  *)
(* packet is accepted, then the packet is submitted.                        *)
SubmitPacket(l, to, is_dns, ok) ==
  LET p == Len(read) + 1
  IN /\ reading /\ p <= MaxPackets
     /\ reading' = FALSE /\ buf' = p
     /\ read' = Append(read, [local |-> l, remote |-> to, dns |-> is_dns])
     /\ IF con[l] = None
        THEN NewConnection(p, l, to, is_dns, ok) /\ UNCHANGED <<retyped, remixed>>
        ELSE /\ ok
             /\ Resend(p, l, to, is_dns)
             /\ retyped' = IF con[l].dns # is_dns THEN retyped \cup {l} ELSE retyped
             /\ remixed' = IF con[l].dns /\ con[l].remote # to THEN remixed \cup {l} ELSE remixed
     /\ UNCHANGED delivered

(* BPendingGroup_ExecuteJob.  The connection of a job is found by its id.   *)
Owner(id) == {l \in Open : con[l].id = id}

NextJob(s) == Head(s)

ExecuteJob ==
  /\ jobs # <<>>
  /\ LET j == NextJob(jobs)
     IN /\ jobs' = Tail(jobs)
        /\ CASE j.job = "device" ->
                  reading' = TRUE /\ UNCHANGED <<con, dropped>>
             [] j.job = "ready" ->
                  /\ con' = [l \in Local |-> IF l \in Owner(j.id) THEN [con[l] EXCEPT !.ready = TRUE]
                                             ELSE con[l]]
                  /\ UNCHANGED <<reading, dropped>>
             [] j.job = "first" ->
                  /\ con' = [l \in Local |->
                               IF l \in Owner(j.id) /\ Accepts(con[l])
                               THEN [con[l] EXCEPT !.queue = Append(@, Message(con[l], buf))]
                               ELSE con[l]]
                  /\ dropped' = IF \E l \in Owner(j.id) : Accepts(con[l]) THEN dropped
                                ELSE dropped \cup {j.id}
                  /\ UNCHANGED reading
  /\ UNCHANGED <<read, buf, list, num_connections, failed, delivered, retyped, remixed>>

(* BDatagram: the socket of l sends the oldest packet of its queue.  After  *)
(* a call that failed (dgram_handler only logs it) send.busy or recv.busy   *)
(* stays set, and nothing tries again but an error event of the fd.         *)
Busy(l, what) == [socket |-> l, doing |-> what]

Send(l) ==
  /\ l \in Open /\ con[l].queue # <<>> /\ Busy(l, "send") \notin failed
  /\ con' = [con EXCEPT ![l].queue = Tail(@), ![l].wire = @ \cup {Head(con[l].queue)}]
  /\ UNCHANGED <<read, buf, reading, jobs, list, num_connections, failed, delivered, dropped,
                 retyped, remixed>>

SocketFails(l) ==
  /\ l \in Open
  /\ \E f \in {Busy(l, what) : what \in {"send", "receive"}} \ failed :
       /\ IF f.doing = "send" THEN con[l].queue # <<>> ELSE con[l].wire # {}
       /\ failed' = failed \cup {f}
  /\ UNCHANGED <<read, buf, reading, jobs, con, list, num_connections, delivered, dropped,
                 retyped, remixed>>

ErrorEvent(l) ==
  /\ \E f \in failed : f.socket = l
  /\ failed' = {f \in failed : f.socket # l}
  /\ UNCHANGED <<read, buf, reading, jobs, con, list, num_connections, delivered, dropped,
                 retyped, remixed>>

-----------------------------------------------------------------------------
(* The gateways: the DNS gateway understands a packet without a header, the *)
(* SOCKS server one with it; their answers have the same form.              *)
Understood(c, m) == m.header = (c.gateway = "socks")

(* dgram_handler_received.  An answer is taken in the form of the last      *)
(* packet of the connection: without is_dns its header is read, and an      *)
(* answer without one fails the test of the field frag; with is_dns it is   *)
(* passed on as it is, as if from the last address.                         *)
BugKeepsAddress(c, m) == [content |-> m.content, from |-> c.remote, raw |-> FALSE]
Answer(c, m) ==
  IF c.dns THEN [content |-> m.content, from |-> c.remote, raw |-> m.header]
  ELSE [content |-> m.content, from |-> m.to, raw |-> FALSE]

Receive(l, m) ==
  /\ l \in Open /\ jobs = <<>> /\ Busy(l, "receive") \notin failed
  /\ m \in con[l].wire /\ Understood(con[l], m)
  /\ IF con[l].dns \/ m.header
     THEN /\ delivered' = delivered \cup {Answer(con[l], m)}
          /\ con' = [con EXCEPT ![l].wire = @ \ {m}, ![l].remote = Answer(con[l], m).from]
     ELSE con' = [con EXCEPT ![l].wire = @ \ {m}] /\ UNCHANGED delivered
  /\ UNCHANGED <<read, buf, reading, jobs, list, num_connections, failed, dropped, retyped,
                 remixed>>

Next ==
  \/ \E l \in Local, to \in Remote, is_dns, ok \in BOOLEAN : SubmitPacket(l, to, is_dns, ok)
  \/ ExecuteJob
  \/ \E l \in Local : Send(l) \/ SocketFails(l) \/ ErrorEvent(l)
  \/ \E l \in Local : \E m \in con[l].wire : Receive(l, m)

Spec == Init /\ [][Next]_vars

-----------------------------------------------------------------------------
(* The tree, the list and the counter agree, the limit is kept, and the     *)
(* list goes from the least to the most recently used connection, so that   *)
(* the one to be freed is the oldest: connection_init, connection_free.     *)
LastAccepted(l) ==
  CHOOSE p \in 1..Len(read) : /\ read[p].local = l /\ (p \notin dropped \/ p = con[l].id)
                              /\ \A q \in p + 1..Len(read) : read[q].local = l => q \in dropped

TableInOrder ==
  /\ Len(list) = num_connections /\ num_connections <= MaxConnections
  /\ Range(list) = Open /\ IsInjective(list)
  /\ \A i, j \in DOMAIN list : i < j => LastAccepted(list[i]) < LastAccepted(list[j])

(* The connection that is freed for a new one is the least recently used:   *)
(* remove_lru_connection.                                                   *)
EvictsOldest ==
  [][\A l \in Open : con'[l] = None =>
       \A m \in Open \ {l} : LastAccepted(l) < LastAccepted(m)]_vars

(* A job never runs for a connection that was freed.                        *)
JobsHaveOwner == \A i \in DOMAIN jobs : jobs[i].job # "device" => Owner(jobs[i].id) # {}

(* The packet that opens a connection is sent, and sent as it was: the job  *)
(* that sends it finds a buffer to write to, and the packet still in the    *)
(* buffer of the device.                                                    *)
FirstPacketSent ==
  /\ \A l \in Open : con[l].id \notin dropped
  /\ \A l \in Open : \A m \in con[l].wire \cup Range(con[l].queue) : read[m.content].local = l

(* A DNS query goes to the DNS gateway as it is and every other packet to   *)
(* the SOCKS server with a header, unless the local address has sent both   *)
(* kinds while its socket was open.                                         *)
RightGateway ==
  \A l \in Open \ retyped : \A m \in con[l].wire \cup Range(con[l].queue) :
    /\ Understood(con[l], m)
    /\ read[m.content].dns = (con[l].gateway = "dns")

(* An app gets an answer from the address that it asked, without a header,  *)
(* unless it has sent both kinds, or has asked two DNS servers, from one    *)
(* local address.                                                           *)
AnswerFromAsked ==
  \A d \in delivered : read[d.content].local \notin retyped \cup remixed =>
    d.from = read[d.content].remote /\ ~d.raw
=============================================================================
