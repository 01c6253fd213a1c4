----------------------------- MODULE Tun2socks -----------------------------
(***************************************************************************)
(* One TCP connection of tun2socks: badvpn/tun2socks/tun2socks.c (struct   *)
(* tcp_client and its functions, from client_handle_freed_client to        *)
(* client_sent_func), between the lwIP pcb that                            *)
(* terminates the connection of an app and the SOCKS connection to         *)
(* sslocal.                                                                *)
(*                                                                         *)
(* Everything runs on one thread, but in small pieces: lwIP calls the      *)
(* client back while it works on a segment, a call back may post jobs to   *)
(* the reactor and run them before it returns (SYNC_COMMIT), and a job may *)
(* free the client, or the pcb lwIP is working on, under the call back.    *)
(* input holds the call backs that the segment at hand still has to make;  *)
(* no other event of the outside world happens before they are done.       *)
(*                                                                         *)
(* Bytes are numbered in the order they are sent.  The ASSERTs of the code *)
(* are compiled out (-DNDEBUG); they are stated here as invariants.        *)
(***************************************************************************)
EXTENDS Naturals, Integers, Sequences

CONSTANTS TCP_WND,                     \* receive window, and size of buf
          TCP_SND_BUF,                 \* send buffer of a pcb
          CLIENT_SOCKS_RECV_BUF_SIZE,  \* size of socks_recv_buf
          UpBytes, DownBytes           \* how much the app and the server send

ASSUME SizesAssumption ==
  /\ {TCP_WND, TCP_SND_BUF, CLIENT_SOCKS_RECV_BUF_SIZE} \subseteq Nat \ {0}
  /\ {UpBytes, DownBytes} \subseteq Nat

VARIABLES
  \* the pcb
  state,          \* its TCP state, or what became of it
  rcv_wnd,        \* how much the app may still send
  unacked,        \* how many bytes were written and not acknowledged
  cb,             \* the call backs that are registered
  input,          \* the call backs still to be made for this segment
  inCallback,     \* the first of them has begun
  dead,           \* badvpn__dead of the call back that is running
  \* the client
  alloc,          \* whether struct tcp_client exists
  client_closed, aborted,
  buf,            \* bytes for the SOCKS server
  socks_up, socks_closed,
  socks_recv_buf, \* the part of it not written to the pcb yet
  tcp_pending,    \* socks_recv_tcp_pending
  \* the SOCKS connection
  send_len,       \* length of the write in progress, 0 if there is none
  send_job,       \* that write is to be tried, rather than waiting for the fd
  recv_op,        \* the read in progress: none, to be tried, waiting
  \* history
  upIn, toSocks,  \* bytes the client accepted, bytes the server read
  downIn, toPcb,  \* bytes read for the app, bytes written to the pcb
  why             \* what happened to the connection

pcbVars    == <<state, rcv_wnd, unacked, cb>>
inputVars  == <<input, inCallback>>
clientVars == <<alloc, client_closed, aborted, socks_up, socks_closed, dead>>
dataVars   == <<buf, socks_recv_buf, tcp_pending>>
socksVars  == <<send_len, send_job, recv_op>>
histVars   == <<upIn, toSocks, downIn, toPcb, why>>
vars == <<pcbVars, inputVars, clientVars, dataVars, socksVars, histVars>>

Bytes(from, to) == [i \in 1 .. to - from + 1 |-> from + i - 1]
From(s, i)      == SubSeq(s, i, Len(s))
Smaller(a, b)   == IF a < b THEN a ELSE b

(* The pcb can be written to and read from.                                 *)
Open == state \in {"ESTABLISHED", "CLOSE_WAIT"}

(* The reactor has nothing left to do for this connection: the next thing   *)
(* to happen is an event.                                                   *)
NoJob == ~send_job /\ recv_op # "job"
Idle  == input = <<>> /\ NoJob

Init ==
  /\ state = "SYN_RCVD" /\ rcv_wnd = TCP_WND /\ unacked = 0 /\ cb = {}
  /\ input = <<>> /\ inCallback = FALSE /\ dead = 0
  /\ alloc = "none" /\ client_closed = FALSE /\ aborted = FALSE
  /\ buf = <<>> /\ socks_up = FALSE /\ socks_closed = FALSE
  /\ socks_recv_buf = <<>> /\ tcp_pending = 0
  /\ send_len = 0 /\ send_job = FALSE /\ recv_op = "none"
  /\ upIn = 0 /\ toSocks = <<>> /\ downIn = 0 /\ toPcb = <<>> /\ why = {}

-----------------------------------------------------------------------------
(* tcp_close: with data the application has not taken, the app is reset and *)
(* what was queued for it is dropped; else a FIN follows the queued data.   *)
(* A pcb that lwIP is working on is freed when it is done with it.  (The    *)
(* error of tcp_close that client_free_client provides for does not occur:  *)
(* tcp_send_fin fails with ERR_MEM only, which tcp_close retries later.)    *)
TcpClose(wnd) ==
  IF wnd # TCP_WND
  THEN /\ state' = IF state = "ESTABLISHED" THEN "TIME_WAIT"
                   ELSE IF input # <<>> THEN "closed" ELSE "freed"
       /\ unacked' = 0
  ELSE /\ state' = "FIN_SENT"
       /\ UNCHANGED unacked

TcpAbort == state' = "freed" /\ unacked' = 0

(* client_dealloc; d: what the running call back finds in dead_aborted.      *)
Dealloc(d) == alloc' = "freed" /\ dead' = d

NoSocksOp == send_len' = 0 /\ send_job' = FALSE /\ recv_op' = "none"

KeepSendingToSocks == buf # <<>> /\ ~socks_closed

(* client_handle_freed_client.  The pcb is aborted only where no read from   *)
(* the server is in progress.                                               *)
HandleFreedClient(killed) ==
  /\ client_closed' = TRUE
  /\ cb' = {}
  /\ aborted' = killed
  /\ IF KeepSendingToSocks
     THEN /\ dead' = IF killed THEN 1 ELSE dead
          /\ recv_op' = IF killed THEN "none" ELSE recv_op
          /\ UNCHANGED <<alloc, socks_closed, send_len, send_job>>
     ELSE /\ socks_closed' = TRUE
          /\ NoSocksOp
          /\ Dealloc(IF killed THEN 1 ELSE -1)

FreeClient(wnd) == TcpClose(wnd) /\ HandleFreedClient(FALSE)
AbortClient     == TcpAbort /\ HandleFreedClient(TRUE)

(* client_free_socks.                                                       *)
BugClosesAtOnce == FALSE
KeepSendingToClient ==
  socks_up /\ (socks_recv_buf # <<>> \/ tcp_pending > 0) /\ ~client_closed

FreeSocks ==
  /\ socks_closed' = TRUE
  /\ NoSocksOp
  /\ IF KeepSendingToClient
     THEN /\ cb' = cb \ {"recv"}
          /\ UNCHANGED <<state, unacked, alloc, client_closed, dead>>
     ELSE /\ client_closed' = TRUE
          /\ cb' = {}
          /\ IF client_closed THEN UNCHANGED <<state, unacked>>
             ELSE TcpClose(rcv_wnd)
          /\ Dealloc(IF aborted THEN dead ELSE -1)
  /\ UNCHANGED <<socks_up, aborted>>

-----------------------------------------------------------------------------
(* listener_accept_func.  Without memory there is no client and lwIP aborts *)
(* the pcb.  Otherwise the connection to the server is started, and what    *)
(* comes of it at once happens before the call back returns.                *)
AcceptFails ==
  /\ alloc = "none" /\ Idle /\ state = "SYN_RCVD"
  /\ TcpAbort
  /\ UNCHANGED <<rcv_wnd, cb, inputVars, clientVars, dataVars, socksVars,
                 histVars>>

Accept ==
  /\ alloc = "none" /\ Idle /\ state = "SYN_RCVD"
  /\ state' = "ESTABLISHED"
  /\ alloc' = "live"
  /\ cb' = {"err", "recv"}
  /\ input' = <<[ev |-> "accept"]>> /\ inCallback' = TRUE /\ dead' = 0
  /\ UNCHANGED <<rcv_wnd, unacked, client_closed, aborted, socks_up,
                 socks_closed, dataVars, socksVars, histVars>>

(* A segment with an acknowledgement of k bytes, n bytes of data and a FIN  *)
(* (fin = 1: it takes a sequence number), in order and within the window:   *)
(* what tcp_process does with it before the call backs, and the call backs  *)
(* it will make.                                                            *)
Before(cond, e, s) == IF cond THEN <<e>> \o s ELSE s

CallBacksOf(k, n, fin) ==
  Before(k > 0, [ev |-> "sent", n |-> k],
         Before(n > 0, [ev |-> "recv", n |-> n],
                Before(fin > 0, [ev |-> "fin"], <<>>)))

Segment(k, n, fin) ==
  /\ Idle /\ Open
  /\ input' = CallBacksOf(k, n, fin) /\ input' # <<>>
  /\ n + fin > 0 => state = "ESTABLISHED"
  /\ n + fin <= rcv_wnd
  /\ upIn + n <= UpBytes
  /\ k <= unacked
  /\ rcv_wnd' = rcv_wnd - n - fin
  /\ unacked' = unacked - k
  /\ state' = IF fin > 0 THEN "CLOSE_WAIT" ELSE state
  /\ UNCHANGED <<cb, inCallback, clientVars, dataVars, socksVars, histVars>>

Starts(e) ==
  /\ input # <<>> /\ Head(input).ev = e /\ ~inCallback
  /\ NoJob
Begin == inCallback' = TRUE /\ UNCHANGED input
Skip  == input' = Tail(input) /\ UNCHANGED inCallback

(* The call back returns.  ERR_ABRT, which it returns if dead_aborted was   *)
(* killed with 1, tells lwIP not to touch the pcb again; a pcb that         *)
(* tcp_close left to tcp_input is freed now.                                *)
BugNeverAborted == FALSE
ReturnsAbrt == dead > 0

CallbackReturns ==
  /\ inCallback /\ NoJob
  /\ inCallback' = FALSE
  /\ IF ReturnsAbrt \/ state = "closed" THEN input' = <<>> ELSE input' = Tail(input)
  /\ state' = IF state = "closed" THEN "freed" ELSE state
  /\ dead' = 0
  /\ UNCHANGED <<rcv_wnd, unacked, cb, alloc, client_closed, aborted, socks_up,
                 socks_closed, dataVars, socksVars, histVars>>

-----------------------------------------------------------------------------
(* client_recv_func with data.                                              *)
ClientRecv(n) ==
  /\ "recv" \in cb /\ Begin
  /\ IF n > TCP_WND - Len(buf)
     THEN /\ why' = why \cup {"refused"}
          /\ UNCHANGED <<buf, upIn, send_len, send_job>>
     ELSE /\ buf' = buf \o Bytes(upIn + 1, upIn + n)
          /\ upIn' = upIn + n
          /\ IF buf = <<>> /\ socks_up
             THEN send_len' = n /\ send_job' = TRUE
             ELSE UNCHANGED <<send_len, send_job>>
          /\ UNCHANGED why
  /\ UNCHANGED <<pcbVars, clientVars, socks_recv_buf, tcp_pending, recv_op,
                 toSocks, downIn, toPcb>>

(* tcp_recv_null: nobody wants the data any more.                           *)
DiscardData(n) ==
  /\ Open /\ "recv" \notin cb /\ Skip
  /\ rcv_wnd' = Smaller(rcv_wnd + n, TCP_WND)
  /\ UNCHANGED <<state, unacked, cb, clientVars, dataVars, socksVars, histVars>>

(* Data for a pcb that was closed by the call back before this one.         *)
DataAfterClose ==
  /\ ~Open
  /\ TcpAbort
  /\ input' = <<>>
  /\ UNCHANGED <<rcv_wnd, cb, inCallback, clientVars, dataVars, socksVars,
                 histVars>>

RecvEvent == Starts("recv") /\ LET n == Head(input).n IN
               ClientRecv(n) \/ DiscardData(n) \/ DataAfterClose

(* The FIN: the window gets the sequence number of the FIN back, then       *)
(* client_recv_func is called without data.                                 *)
FinEvent ==
  /\ Starts("fin")
  /\ rcv_wnd' = IF rcv_wnd # TCP_WND THEN rcv_wnd + 1 ELSE rcv_wnd
  /\ \/ /\ "recv" \in cb /\ Begin
        /\ FreeClient(rcv_wnd')
        /\ why' = why \cup {"fin"}
        /\ UNCHANGED socks_up
     \/ /\ "recv" \notin cb /\ Skip
        /\ UNCHANGED <<state, unacked, cb, clientVars, socksVars, why>>
  /\ UNCHANGED <<dataVars, upIn, toSocks, downIn, toPcb>>

(* client_socks_recv_send_out: as much as the send buffer takes, or nothing *)
(* if lwIP is out of memory; the rest waits for an acknowledgement.  Then,  *)
(* if all is written, the next read from the server.                        *)
Fits(data) == Smaller(Len(data), TCP_SND_BUF - unacked)

CannotContinue(rest, pending) == rest # <<>> /\ pending = 0

SendOut(data, pending) ==
  \/ \E k \in {0, Fits(data)} :
       LET rest == From(data, k + 1) IN
       /\ ~CannotContinue(rest, pending + k)
       /\ socks_recv_buf' = rest
       /\ tcp_pending' = pending + k
       /\ unacked' = unacked + k
       /\ toPcb' = toPcb \o SubSeq(data, 1, k)
       /\ recv_op' = IF rest = <<>> /\ ~socks_closed THEN "job" ELSE "none"
       /\ UNCHANGED <<state, cb, clientVars, send_len, send_job, why>>
  \/ /\ AbortClient
     /\ why' = why \cup {"oom"}
     /\ socks_recv_buf' = data
     /\ tcp_pending' = pending
     /\ UNCHANGED <<toPcb, socks_up>>

(* client_sent_func, which is registered as long as there is something to   *)
(* acknowledge.                                                             *)
SentEvent ==
  /\ Starts("sent") /\ "sent" \in cb /\ Begin
  /\ LET pending == tcp_pending - Head(input).n IN
     \/ /\ socks_recv_buf # <<>>
        /\ SendOut(socks_recv_buf, pending)
     \/ /\ socks_recv_buf = <<>>
        /\ tcp_pending' = pending
        /\ IF socks_closed /\ pending = 0
           THEN FreeClient(rcv_wnd) /\ UNCHANGED socks_up
           ELSE UNCHANGED <<state, unacked, cb, clientVars, socksVars>>
        /\ UNCHANGED <<socks_recv_buf, toPcb, why>>
  /\ UNCHANGED <<rcv_wnd, buf, upIn, toSocks, downIn>>

-----------------------------------------------------------------------------
(* The SOCKS connection may report something whenever the reactor is idle,  *)
(* and while listener_accept_func runs its jobs.                            *)
SocksMayReport ==
  /\ alloc = "live" /\ ~socks_closed /\ NoJob
  /\ input # <<>> => Head(input).ev = "accept"

(* client_socks_handler, BSOCKSCLIENT_EVENT_UP.                             *)
BugForgetsBuffered == 0
SendAtUp == Len(buf)

SocksUp ==
  /\ SocksMayReport /\ ~socks_up
  /\ socks_up' = TRUE
  /\ cb' = IF client_closed THEN cb ELSE cb \cup {"sent"}
  /\ send_len' = SendAtUp
  /\ send_job' = (SendAtUp > 0)
  /\ recv_op' = IF client_closed THEN "none" ELSE "job"
  /\ UNCHANGED <<state, rcv_wnd, unacked, inputVars, alloc, client_closed,
                 aborted, socks_closed, dead, dataVars, histVars>>

(* client_socks_handler, BSOCKSCLIENT_EVENT_ERROR and _ERROR_CLOSED.        *)
SocksFails(reason) ==
  /\ FreeSocks
  /\ why' = why \cup {reason}
  /\ UNCHANGED <<rcv_wnd, inputVars, dataVars, upIn, toSocks, downIn, toPcb>>

SocksError == SocksMayReport /\ SocksFails("socks")

(* A write to the server is tried: when it is posted, and when the fd       *)
(* becomes writable.                                                        *)
Writing == send_job \/ (send_len > 0 /\ Idle)

WriteBlocks ==
  /\ send_job
  /\ send_job' = FALSE
  /\ UNCHANGED <<pcbVars, inputVars, clientVars, dataVars, send_len, recv_op,
                 histVars>>

WriteFails == Writing /\ SocksFails("socks")

(* client_socks_send_handler_done.                                          *)
Credit(n) == Smaller(rcv_wnd + n, TCP_WND)

RemoveSent(n) == From(buf, n + 1)

BugSocksStays == FALSE
ClientDone == client_closed

WriteDone(n) ==
  /\ Writing /\ n <= send_len
  /\ buf' = RemoveSent(n)
  /\ toSocks' = toSocks \o SubSeq(buf, 1, n)
  /\ rcv_wnd' = IF client_closed THEN rcv_wnd ELSE Credit(n)
  /\ IF buf' = <<>> /\ ClientDone
     THEN FreeSocks
     ELSE /\ send_len' = Len(buf')
          /\ send_job' = (buf' # <<>>)
          /\ UNCHANGED <<state, unacked, cb, clientVars, recv_op>>
  /\ UNCHANGED <<inputVars, socks_recv_buf, tcp_pending, upIn, downIn, toPcb,
                 why>>

(* A read from the server is tried.                                         *)
Reading == recv_op = "job" \/ (recv_op = "busy" /\ Idle)

ReadBlocks ==
  /\ recv_op = "job"
  /\ recv_op' = "busy"
  /\ UNCHANGED <<pcbVars, inputVars, clientVars, dataVars, send_len, send_job,
                 histVars>>

ReadFails == Reading /\ SocksFails("socks")
ReadEnds  == Reading /\ SocksFails("eof")

(* client_socks_recv_handler_done.                                          *)
ReadDone(n) ==
  /\ Reading /\ downIn + n <= DownBytes
  /\ IF client_closed
     THEN /\ recv_op' = "none"
          /\ UNCHANGED <<pcbVars, clientVars, dataVars, send_len, send_job,
                         downIn, toPcb, why>>
     ELSE /\ SendOut(Bytes(downIn + 1, downIn + n), tcp_pending)
          /\ downIn' = downIn + n
          /\ UNCHANGED <<rcv_wnd, buf>>
  /\ UNCHANGED <<inputVars, upIn, toSocks>>

-----------------------------------------------------------------------------
(* client_err_func: the app resets the connection, or lwIP gives it up.     *)
PcbError ==
  /\ Idle /\ Open /\ "err" \in cb
  /\ TcpAbort
  /\ HandleFreedClient(FALSE)
  /\ why' = why \cup {"rst"}
  /\ UNCHANGED <<rcv_wnd, inputVars, dataVars, socks_up, upIn, toSocks, downIn,
                 toPcb>>

(* The end of a pcb that the client has closed: what was queued is sent and *)
(* acknowledged, or is not.                                                 *)
PcbDrains ==
  /\ Idle /\ state \in {"FIN_SENT", "TIME_WAIT"}
  /\ TcpAbort
  /\ UNCHANGED <<rcv_wnd, cb, inputVars, clientVars, dataVars, socksVars,
                 histVars>>

(* client_murder, for every client when the event loop has ended.           *)
Murder ==
  /\ Idle /\ alloc = "live"
  /\ IF client_closed
     THEN UNCHANGED <<state, unacked, aborted, dead>>
     ELSE TcpAbort /\ aborted' = TRUE /\ dead' = 1
  /\ client_closed' = TRUE /\ cb' = {}
  /\ socks_closed' = TRUE /\ NoSocksOp
  /\ alloc' = "freed"
  /\ why' = why \cup {"quit"}
  /\ UNCHANGED <<rcv_wnd, inputVars, dataVars, socks_up, upIn, toSocks, downIn,
                 toPcb>>

Next ==
  \/ Accept \/ AcceptFails \/ CallbackReturns
  \/ \E k \in 0 .. TCP_SND_BUF, n \in 0 .. TCP_WND, fin \in 0 .. 1 :
       Segment(k, n, fin)
  \/ RecvEvent \/ FinEvent \/ SentEvent
  \/ SocksUp \/ SocksError
  \/ WriteBlocks \/ WriteFails \/ \E n \in 1 .. TCP_WND : WriteDone(n)
  \/ ReadBlocks \/ ReadFails \/ ReadEnds
  \/ \E n \in 1 .. CLIENT_SOCKS_RECV_BUF_SIZE : ReadDone(n)
  \/ PcbError \/ PcbDrains \/ Murder

Spec == Init /\ [][Next]_vars

(* Fairness: the reactor runs its jobs and lwIP makes the call backs it     *)
(* owes.  The app need not acknowledge what it is sent, nor the server read *)
(* or answer: nothing here times them out.                                  *)
CallBacks == CallbackReturns \/ RecvEvent \/ FinEvent \/ SentEvent
JobsRun == WriteBlocks \/ ReadBlocks

Fairness == WF_vars(CallBacks) /\ WF_vars(JobsRun)

FairSpec == Spec /\ Fairness

-----------------------------------------------------------------------------
TypeOK ==
  /\ state \in {"SYN_RCVD", "ESTABLISHED", "CLOSE_WAIT", "FIN_SENT",
                "TIME_WAIT", "closed", "freed"}
  /\ rcv_wnd \in 0 .. TCP_WND /\ unacked \in 0 .. TCP_SND_BUF
  /\ cb \subseteq {"err", "recv", "sent"}
  /\ Len(input) <= 3 /\ inCallback \in BOOLEAN /\ dead \in {-1, 0, 1}
  /\ alloc \in {"none", "live", "freed"}
  /\ {client_closed, aborted, socks_up, socks_closed} \subseteq BOOLEAN
  /\ Len(buf) <= TCP_WND /\ Len(socks_recv_buf) <= CLIENT_SOCKS_RECV_BUF_SIZE
  /\ tcp_pending \in 0 .. TCP_SND_BUF
  /\ send_len \in 0 .. TCP_WND /\ send_job \in BOOLEAN
  /\ recv_op \in {"none", "job", "busy"}
  /\ upIn \in 0 .. UpBytes /\ downIn \in 0 .. DownBytes
  /\ why \subseteq {"refused", "fin", "rst", "oom", "socks", "eof", "quit"}

(* Nobody holds on to what was freed.  lwIP has call backs registered only  *)
(* for a client that exists and is not closed, the SOCKS connection works   *)
(* only for a client that still has it, and lwIP goes on with a segment     *)
(* only if the call back that just returned did not free the pcb ("Return   *)
(* ERR_ABRT if and only if tcp_abort was called from this callback").       *)
NoUseAfterFree ==
  /\ cb # {} => alloc = "live" /\ ~client_closed /\ Open
  /\ send_len > 0 \/ recv_op # "none" =>
       alloc = "live" /\ socks_up /\ ~socks_closed
  /\ input # <<>> /\ ~inCallback => state # "freed"

(* The client is freed when both its sides are closed, and not before.      *)
FreedWithBothSides ==
  alloc # "none" => (alloc = "freed" <=> client_closed /\ socks_closed)

(* The window announced to the app never promises more than buf can take:   *)
(* "no buffer for data !?!" is never logged, and lwIP never has to keep     *)
(* data that the client refused.                                            *)
NeverRefused == "refused" \notin why

(* The acknowledgements that lwIP has seen and not yet reported.            *)
Unreported ==
  IF input # <<>> /\ Head(input).ev = "sent" /\ ~inCallback
  THEN Head(input).n ELSE 0

(* No wake-up is lost.  While the SOCKS connection is up, buffered bytes    *)
(* have a write in progress; a client with an empty socks_recv_buf has a    *)
(* read in progress, one with data in it has unacknowledged data, whose     *)
(* acknowledgement will make it go on; and a client that outlives its SOCKS *)
(* connection waits for an acknowledgement that is still to come.           *)
NothingStalls ==
  alloc = "live" =>
    /\ socks_up /\ ~socks_closed => (buf # <<>> <=> send_len > 0)
    /\ socks_up /\ ~client_closed =>
         /\ tcp_pending = unacked + Unreported
         /\ socks_recv_buf # <<>> => tcp_pending > 0
         /\ ~socks_closed => (socks_recv_buf = <<>> <=> recv_op # "none")
    /\ socks_closed => tcp_pending > 0

(* Nobody holds on to what was freed: a call back of lwIP or an operation   *)
(* of the SOCKS connection never finds its client gone, and a client is     *)
(* freed when both its sides are.  Every variable keeps its kind.           *)
MemorySafe == TypeOK /\ NoUseAfterFree /\ FreedWithBothSides

(* No wake-up is lost: data that waits in a connection has an operation or  *)
(* an acknowledgement to come that will make it go on, and lwIP is never    *)
(* left with data the client refused.                                       *)
NoWakeUpLost == NothingStalls /\ NeverRefused

(* A step that closes the connection to the app loses bytes that were       *)
(* queued for it only when the app itself ended it, on an error, or at the  *)
(* end of the program: never when tun2socks closes because the server has   *)
(* ended.                                                                   *)
QueuedDataSent ==
  [][state' # "FIN_SENT" /\ Open /\ unacked' < unacked /\ ~Open'
       => why' \cap {"fin", "rst", "oom", "quit"} # {}]_vars

(* The app has not acknowledged all that the server sent before it ended.   *)
WaitsForApp == socks_closed /\ ~client_closed /\ unacked > 0

(* The server has not answered, or not read all that the app sent before it *)
(* ended.                                                                   *)
WaitsForServer ==
  client_closed /\ ~socks_closed /\ (socks_up => send_len > 0 /\ ~send_job)

(* Either side that is gone takes the client with it (client_free_socks,    *)
(* client_handle_freed_client), unless from some time on it is the other    *)
(* side that keeps the client: the app, which does not acknowledge the last *)
(* bytes (client_sent_func), or the server, which does not read them        *)
(* (client_socks_send_handler_done) or does not answer.                     *)
ClientEnds ==
  [](client_closed \/ socks_closed =>
       <>(alloc = "freed") \/ <>[]WaitsForApp \/ <>[]WaitsForServer)

-----------------------------------------------------------------------------
(* Both directions are pipes.                                               *)
EndOfSide(readerClosed, writerClosed, broke) ==
  IF readerClosed THEN (IF why \cap broke # {} THEN "broken" ELSE "done")
  ELSE IF writerClosed THEN "draining" ELSE "open"

Up == INSTANCE BytePipe WITH
        Capacity <- TCP_WND, written <- upIn, read <- toSocks,
        end <- EndOfSide(socks_closed, client_closed, {"socks", "eof", "quit"})

Down == INSTANCE BytePipe WITH
          Capacity <- CLIENT_SOCKS_RECV_BUF_SIZE, written <- downIn,
          read <- toPcb,
          end <- EndOfSide(client_closed, socks_closed,
                           {"fin", "rst", "oom", "quit"})

(* From the app to the server: what the app sent before it closed reaches   *)
(* the server, unless the server's side fails.                              *)
UpPipe == Up!Spec

(* From the server to the app: what the server sent before it closed is     *)
(* written to the app's connection, unless the app's side fails or ends.    *)
DownPipe == Down!Spec

(* Both directions of a connection are pipes, Tun2socks implements BytePipe *)
(* from the app to the server and back, and what was passed to lwIP for the *)
(* app is not lost when the server ends.                                    *)
Pipes == UpPipe /\ DownPipe /\ QueuedDataSent
=============================================================================
