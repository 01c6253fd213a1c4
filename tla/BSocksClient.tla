---------------------------- MODULE BSocksClient ----------------------------
(***************************************************************************)
(* The SOCKS5 handshake of tun2socks: badvpn/socksclient/BSocksClient.c,   *)
(* over a connection of badvpn/system/BConnection_unix.c.                  *)
(*                                                                         *)
(* The client talks to the server in messages of fixed length, over a      *)
(* stream that hands bytes over in any portions, and when the handshake is *)
(* done gives the stream to its owner.  Bytes keep the values the protocol *)
(* gives them, so that a client that lost its place would misread them.    *)
(*                                                                         *)
(* All runs on one thread.  An operation is first tried by a job, and when *)
(* the kernel would block it waits for the fd.  The owner frees the client *)
(* in the handler of an error, and may free it at any other time.          *)
(***************************************************************************)
EXTENDS Naturals, Sequences

CONSTANTS AuthInfos,     \* the lists of methods the client may be given
          Servers,       \* what servers may send
          OwnerRead      \* how much the owner reads at once

Methods == {0, 2}        \* no authentication, user name and password

VARIABLES
  state,     \* of the client, or "freed"
  server,    \* the server it talks to
  auth_info, \* the methods it offers, and whether the user name and the
             \* password have the length they may have
  held,      \* which parts are initialized
  misuse,    \* a part was freed or initialized in the wrong state
  fd,        \* who has the socket
  buffer,    \* size of the buffer, 0: none
  op,        \* the operation in progress: none, send or recv
  waits,     \* it waits for the fd
  is_hupd,   \* the fd is not watched any more
  dest, total, \* place and length of the operation
  done,      \* how much of it is done
  taken,     \* how many bytes were taken from the stream
  got,       \* the bytes taken by the operation
  sent,      \* the messages sent
  events,    \* what was reported to the owner
  upRead     \* the bytes the owner has read

resVars == <<held, misuse, fd, buffer>>
opVars  == <<op, waits, dest, total, done, got>>
vars == <<state, server, auth_info, resVars, opVars, is_hupd, taken, sent,
          events, upRead>>

Stream == server.handshake \o server.payload

Init ==
  /\ state = "CONNECTING"
  /\ server \in Servers /\ auth_info \in AuthInfos
  /\ held = {"connector"} /\ misuse = FALSE /\ fd = "connector" /\ buffer = 0
  /\ op = "none" /\ waits = FALSE /\ dest = 0 /\ total = 0 /\ done = 0
  /\ got = <<>>
  /\ is_hupd = FALSE
  /\ taken = 0 /\ sent = <<>> /\ events = <<>> /\ upRead = <<>>

-----------------------------------------------------------------------------
(* Sizes of the messages (misc/socks_proto.h).                              *)
AddrLen(atyp)  == IF atyp = 1 THEN 6 ELSE 18
ServerHello    == 2
PasswordReply  == 2
ReplyHeader    == 4
ReplyBuffer == ReplyHeader + AddrLen(4)

NoOp ==
  /\ op' = "none" /\ waits' = FALSE /\ dest' = 0 /\ total' = 0 /\ done' = 0
  /\ got' = <<>>

StartOp(kind, at, len) ==
  /\ op' = kind /\ waits' = FALSE /\ dest' = at /\ total' = len /\ done' = 0
  /\ got' = <<>>

BugOnlyNotes(at, len) ==
  /\ op' = "none" /\ waits' = FALSE /\ dest' = at /\ total' = len /\ done' = 0
  /\ got' = <<>>
StartReceive(at, len) == StartOp("recv", at, len)

(* What BSocksClient_Free frees in the state it finds.                      *)
FreedParts(st) ==
  {"connector"} \cup (IF st = "CONNECTING" THEN {}
                      ELSE {"con"} \cup (IF st = "UP" THEN {"up"} ELSE {"control"}))

(* BSocksClient_Free; parts: what is initialized when it is called.  The    *)
(* socket is closed by the part that has it.                                *)
FreeAll(parts) ==
  /\ state' = "freed"
  /\ held' = parts \ FreedParts(state)
  /\ misuse' = (misuse \/ ~(FreedParts(state) \subseteq parts))
  /\ fd' = IF fd \in FreedParts(state) \cap parts \/ fd \notin parts
           THEN "closed" ELSE fd
  /\ buffer' = 0
  /\ NoOp

(* report_error: the owner frees the client in the handler.                 *)
ReportError(event, parts) ==
  /\ events' = Append(events, event)
  /\ FreeAll(parts)

Keep == UNCHANGED <<server, auth_info>>

-----------------------------------------------------------------------------
(* connector_handler.  It fails because the connection does, or after the   *)
(* connection has taken the socket over and the control I/O is set up,      *)
(* because there is no memory for the hello: then both are freed again.     *)
ConnectFails ==
  /\ state = "CONNECTING"
  /\ ReportError("ERROR", held)
  /\ Keep /\ UNCHANGED <<is_hupd, taken, sent, upRead>>

HeldAfterFail1 == {}

HelloFails ==
  /\ state = "CONNECTING"
  /\ ReportError("ERROR", held \cup HeldAfterFail1)
  /\ Keep /\ UNCHANGED <<is_hupd, taken, sent, upRead>>

Connected ==
  /\ state = "CONNECTING"
  /\ Len(auth_info.methods) \in 1 .. 255
  /\ held' = held \cup {"con", "control"}
  /\ fd' = "con"
  /\ buffer' = 2 + Len(auth_info.methods)
  /\ StartOp("send", 0, 2 + Len(auth_info.methods))
  /\ state' = "SENDING_HELLO"
  /\ Keep /\ UNCHANGED <<misuse, is_hupd, taken, sent, events, upRead>>

-----------------------------------------------------------------------------
(* connection_send, connection_recv.  An operation is tried by its job, and *)
(* again when the fd is ready.  After a hang-up the fd is not watched.      *)
MayWait == ~is_hupd

Blocks ==
  /\ op # "none" /\ ~waits /\ MayWait
  /\ waits' = TRUE
  /\ Keep /\ UNCHANGED <<state, resVars, is_hupd, op, dest, total, done, got,
                         taken, sent, events, upRead>>

(* connection_fd_handler with a hang-up: what is in progress is tried; with *)
(* nothing in progress nothing is reported.                                 *)
HangUp ==
  /\ "con" \in held /\ ~is_hupd
  /\ op = "none" \/ waits
  /\ is_hupd' = TRUE
  /\ waits' = FALSE
  /\ Keep /\ UNCHANGED <<state, resVars, op, dest, total, done, got, taken,
                         sent, events, upRead>>

(* An error of the socket, reported through the operation in progress or,   *)
(* if there is none, by the fd.                                             *)
OperationFails ==
  /\ "con" \in held
  /\ op # "none" \/ ~is_hupd
  /\ ReportError("ERROR", held)
  /\ Keep /\ UNCHANGED <<is_hupd, taken, sent, upRead>>

(* The server has closed: connection_handler.                               *)
ClosedEvent == IF state = "UP" THEN "ERROR_CLOSED" ELSE "ERROR"

StreamEnds ==
  /\ op = "recv" /\ taken = Len(Stream)
  /\ ReportError(ClosedEvent, held)
  /\ Keep /\ UNCHANGED <<is_hupd, taken, sent, upRead>>

(* No memory for the next message: reserve_buffer.                          *)
OutOfMemory ==
  /\ ReportError("ERROR", held)
  /\ UNCHANGED sent

-----------------------------------------------------------------------------
(* PacketStreamSender, and send_handler_done when the message is sent.      *)
Message ==
  CASE state = "SENDING_HELLO"    -> "hello"
    [] state = "SENDING_PASSWORD" -> "password"
    [] state = "SENDING_REQUEST"  -> "request"

Receive(next, size, len) ==
  /\ buffer' = size
  /\ StartReceive(0, len)
  /\ state' = next
  /\ sent' = Append(sent, Message)
  /\ UNCHANGED <<held, misuse, fd, events>>

SendHandlerDone ==
  \/ OutOfMemory
  \/ /\ state = "SENDING_HELLO"
     /\ Receive("SENT_HELLO", ServerHello, ServerHello)
  \/ /\ state = "SENDING_REQUEST"
     /\ Receive("SENT_REQUEST", ReplyBuffer, ReplyHeader)
  \/ /\ state = "SENDING_PASSWORD"
     /\ Receive("SENT_PASSWORD", PasswordReply, PasswordReply)

BytesSent(n) ==
  /\ op = "send" /\ n <= total - done
  /\ IF done + n < total
     THEN /\ done' = done + n
          /\ waits' = FALSE
          /\ UNCHANGED <<state, resVars, op, dest, total, got, sent, events>>
     ELSE SendHandlerDone
  /\ Keep /\ UNCHANGED <<is_hupd, taken, upRead>>

-----------------------------------------------------------------------------
(* recv_handler_done, when the message is complete: data is what was        *)
(* received.                                                                *)
Send(next, len) ==
  /\ buffer' = len
  /\ StartOp("send", 0, len)
  /\ state' = next
  /\ UNCHANGED <<held, misuse, fd, events, sent>>

(* auth_finished, for a destination with an IPv4 or an IPv6 address.        *)
AuthFinished ==
  \/ OutOfMemory
  \/ \E atyp \in {1, 4} : Send("SENDING_REQUEST", 4 + AddrLen(atyp))

Offered(method) == \E i \in 1 .. Len(auth_info.methods) : auth_info.methods[i] = method

(* Any length of user name and password stands for one of either.           *)
GotHello(data) ==
  IF data[1] # 5 \/ ~Offered(data[2]) \/ (data[2] = 2 /\ ~auth_info.fits)
  THEN ReportError("ERROR", held) /\ UNCHANGED sent
  ELSE \/ data[2] = 0 /\ AuthFinished
       \/ data[2] = 2 /\ OutOfMemory
       \/ data[2] = 2 /\ Send("SENDING_PASSWORD", 5)

PasswordAccepted(data) == data[1] = 1 /\ data[2] = 0

GotPasswordReply(data) ==
  IF PasswordAccepted(data) THEN AuthFinished
  ELSE ReportError("ERROR", held) /\ UNCHANGED sent

BugAddrLen(atyp) == AddrLen(1)
ReplyAddrLen(atyp) == AddrLen(atyp)

ReplyGranted(data) == data[1] = 5 /\ data[2] = 0

GotReplyHeader(data) ==
  IF ~ReplyGranted(data) \/ data[4] \notin {1, 4}
  THEN ReportError("ERROR", held) /\ UNCHANGED sent
  ELSE /\ StartReceive(ReplyHeader, ReplyAddrLen(data[4]))
       /\ state' = "RECEIVED_REPLY_HEADER"
       /\ UNCHANGED <<resVars, events, sent>>

GotReplyRest ==
  /\ buffer' = 0
  /\ held' = (held \ {"control"}) \cup {"up"}
  /\ misuse' = (misuse \/ "control" \notin held)
  /\ NoOp
  /\ state' = "UP"
  /\ events' = Append(events, "UP")
  /\ UNCHANGED <<fd, sent>>

(* The owner gets its bytes.                                                *)
OwnerGets(data) ==
  /\ NoOp
  /\ upRead' = upRead \o data
  /\ UNCHANGED <<state, resVars, events, sent>>

MessageReceived(data) ==
  \/ state = "SENT_HELLO" /\ GotHello(data)
  \/ state = "SENT_PASSWORD" /\ GotPasswordReply(data)
  \/ state = "SENT_REQUEST" /\ GotReplyHeader(data)
  \/ state = "RECEIVED_REPLY_HEADER" /\ GotReplyRest

BytesReceived(n) ==
  LET data == got \o SubSeq(Stream, taken + 1, taken + n) IN
  /\ op = "recv" /\ n <= total - done /\ taken + n <= Len(Stream)
  /\ taken' = taken + n
  /\ \/ state = "UP" /\ OwnerGets(data)
     \/ /\ state # "UP" /\ done + n = total
        /\ MessageReceived(data)
        /\ UNCHANGED upRead
     \/ /\ state # "UP" /\ done + n < total
        /\ got' = data
        /\ done' = done + n
        /\ waits' = FALSE
        /\ UNCHANGED <<state, resVars, op, dest, total, sent, events, upRead>>
  /\ Keep /\ UNCHANGED is_hupd

-----------------------------------------------------------------------------
(* The owner reads from the stream, or frees the client.                    *)
OwnerReads ==
  /\ state = "UP" /\ op = "none"
  /\ StartOp("recv", 0, OwnerRead)
  /\ Keep /\ UNCHANGED <<state, resVars, is_hupd, taken, sent, events, upRead>>

OwnerFrees ==
  /\ state # "freed"
  /\ FreeAll(held)
  /\ Keep /\ UNCHANGED <<is_hupd, taken, sent, events, upRead>>

Terminated == state = "freed" /\ UNCHANGED vars

Next ==
  \/ ConnectFails \/ HelloFails \/ Connected
  \/ Blocks \/ HangUp \/ OperationFails \/ StreamEnds
  \/ \E n \in 1 .. 18 : BytesSent(n) \/ BytesReceived(n)
  \/ OwnerReads \/ OwnerFrees \/ Terminated

Spec == Init /\ [][Next]_vars

(* Fairness: the jobs run; the server takes what it is sent and sends what  *)
(* it has, or ends the connection, or the connection fails.                 *)
Progress ==
  \/ OperationFails \/ StreamEnds
  \/ \E n \in 1 .. 18 : BytesSent(n) \/ BytesReceived(n)

Connects == ConnectFails \/ HelloFails \/ Connected

FairSpec ==
  /\ Spec
  /\ WF_vars(Connects)
  /\ SF_vars(op # "none" /\ Progress)

-----------------------------------------------------------------------------
TypeOK ==
  /\ state \in {"CONNECTING", "SENDING_HELLO", "SENT_HELLO",
                "SENDING_PASSWORD", "SENT_PASSWORD", "SENDING_REQUEST",
                "SENT_REQUEST", "RECEIVED_REPLY_HEADER", "UP", "freed"}
  /\ held \subseteq {"connector", "con", "control", "up"}
  /\ fd \in {"connector", "con", "closed"} /\ buffer \in 0 .. 258
  /\ op \in {"none", "send", "recv"} /\ {waits, is_hupd, misuse} \subseteq BOOLEAN
  /\ done \in 0 .. total /\ taken \in 0 .. Len(Stream)

(* Every part is initialized and freed once, on every path: BSocksClient_   *)
(* Free relies on state to know what connector_handler and the hand-over to *)
(* the up I/O have left.  A freed client has no part left and the socket is *)
(* closed.                                                                  *)
PartsFreedOnce ==
  /\ ~misuse
  /\ state = "freed" => held = {} /\ fd = "closed"

(* While the handshake goes on exactly one operation is in progress, it is  *)
(* not finished, and it stays within the buffer, which is reallocated for   *)
(* every message: the second part of the reply as well.                     *)
OperationInBuffer ==
  state \notin {"CONNECTING", "UP", "freed"} =>
    op # "none" /\ done < total /\ dest + total <= buffer

(* The owner is told UP only by a server that has granted the request with  *)
(* a method the client offered.                                             *)
UpOnlyIfGranted ==
  events # <<>> /\ Head(events) = "UP" =>
    server.grants /\ Offered(server.handshake[2])

(* The request is sent only to a server that needs no password or has       *)
(* accepted it.                                                             *)
RequestAfterAuth ==
  /\ sent = <<"hello", "request">> => server.handshake[2] = 0
  /\ sent = <<"hello", "password", "request">> =>
       server.handshake[2] = 2 /\ server.handshake[4] = 0
  /\ \A i \in 1 .. Len(sent) : sent[i] = "request" => i = Len(sent) /\ i > 1

(* The handshake takes its own bytes and no more, however the stream is cut *)
(* into portions: what the server sends right behind its reply is the first *)
(* thing the owner reads.                                                   *)
PayloadIntact ==
  state = "UP" =>
    /\ upRead = SubSeq(server.payload, 1, Len(upRead))
    /\ taken = Len(server.handshake) + Len(upRead)

(* UP is reported first and once, an error once and last, and CLOSED only   *)
(* after UP; the client is freed then.                                      *)
ReportsInOrder ==
  /\ events \in {<<>>, <<"UP">>, <<"ERROR">>, <<"UP", "ERROR">>,
                 <<"UP", "ERROR_CLOSED">>}
  /\ state = "UP" <=> events = <<"UP">> /\ state # "freed"

(* After a hang-up the fd is not watched any more: an operation that waited *)
(* for it would wait for ever.                                              *)
NoWaitAfterHup == is_hupd => ~waits

(* The handshake ends.                                                      *)
HandshakeEnds == <>(state \in {"UP", "freed"})
=============================================================================
