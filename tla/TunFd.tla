------------------------------- MODULE TunFd -------------------------------
(***************************************************************************)
(* The hand-over of the tun device to tun2socks: the service sends the     *)
(* file descriptor over a local socket (VpnService.sendFd), tun2socks      *)
(* waits for it before it does anything else (wait_for_fd and main of      *)
(* tun2socks.c), and the guard of the process pool restarts a process that *)
(* died and sends again (GuardedProcessPool.Guard.looper).                 *)
(*                                                                         *)
(* There are two senders: "start" runs in the connecting job, "restart" in *)
(* the guard.  The guard looks at the process again only when its sender   *)
(* is done, so a process may be dead while both senders still try.         *)
(*                                                                         *)
(* Time is left out but for one fact: a sender gives up 6.35 s after it    *)
(* started (50 ms << tries, seven attempts), and tun2socks waits for 10 s, *)
(* so tun2socks does not time out while a sender that was started with it  *)
(* is trying.                                                              *)
(***************************************************************************)
EXTENDS Naturals, Sequences

CONSTANTS MaxTries,   \* a sender gives up when it has failed more often: 5
          MaxStarts   \* bound: how often the process is started

Senders == {"start", "restart"}

VARIABLES
  service,  \* starting, connected, stopped or dead (the app's process is gone)
  starts,   \* how often tun2socks was started
  proc,     \* where tun2socks is
  path,     \* what sock_path is: none, stale, or the socket of this process
  backlog,  \* the connections not accepted yet: who made them
  conn,     \* the connection being read from, as a set of at most one
  told,     \* the connections over which the descriptor was sent
  fd,       \* what wait_for_fd returned
  sender,   \* what each sender is doing
  tries,    \* how often each sender has failed
  overlap   \* history: a restart began to send while the start still did

vars == <<service, starts, proc, path, backlog, conn, told, fd, sender, tries,
          overlap>>

Init ==
  /\ service = "starting" /\ starts = 1 /\ proc = "started"
  /\ path \in {"none", "stale"}
  /\ backlog = <<>> /\ conn = {} /\ told = {} /\ fd = "unset"
  /\ sender = [s \in Senders |-> IF s = "start" THEN "delay" ELSE "idle"]
  /\ tries = [s \in Senders |-> 0]
  /\ overlap = FALSE

Trying(s) == sender[s] \in {"delay", "connected"}

Up == service \in {"starting", "connected"}

(* The sockets of a process that ends: senders that are connected will find *)
(* out, the path stays behind.                                              *)
SocketsGone ==
  /\ path' = IF path = "live" THEN "stale" ELSE path
  /\ backlog' = <<>> /\ conn' = {} /\ told' = {}

Die == proc' = "exited" /\ SocketsGone /\ fd' = "unset"

-----------------------------------------------------------------------------
(* wait_for_fd: unlink, bind, listen; or one of socket, bind and listen     *)
(* fails and main ends.                                                     *)
Listen ==
  /\ proc = "started"
  /\ proc' = "listening" /\ path' = "live"
  /\ UNCHANGED <<service, starts, backlog, conn, told, fd, sender, tries, overlap>>

Accept ==
  /\ proc = "listening" /\ backlog # <<>>
  /\ proc' = "accepted"
  /\ conn' = {Head(backlog)}
  /\ backlog' = Tail(backlog)
  /\ UNCHANGED <<service, starts, path, told, fd, sender, tries, overlap>>

(* ancil_recv_fd: the descriptor, or -1 if the sender closed without        *)
(* sending it; then both sockets are closed and the path stays.             *)
Receive ==
  /\ proc = "accepted"
  /\ \A s \in conn : s \in told \/ sender[s] # "connected"
  /\ fd' = IF conn \subseteq told THEN "tun" ELSE "minus1"
  /\ proc' = "returned"
  /\ SocketsGone
  /\ UNCHANGED <<service, starts, sender, tries, overlap>>

(* select times out and accept finds nobody: fd was never assigned.         *)
Timeout ==
  /\ proc = "listening" /\ backlog = <<>>
  /\ \A s \in Senders : ~Trying(s)
  /\ fd' \in {"minus1", "garbage"}
  /\ proc' = "returned"
  /\ SocketsGone
  /\ UNCHANGED <<service, starts, sender, tries, overlap>>

(* main: the event loop runs on the descriptor, if it is one.               *)
EnterLoop ==
  /\ proc = "returned" /\ fd \in {"tun", "garbage"}
  /\ proc' = "running"
  /\ UNCHANGED <<service, starts, path, backlog, conn, told, fd, sender, tries,
                 overlap>>

(* The process ends, by itself or killed by the system, at any point; with  *)
(* -1 it has to, and garbage need not be a descriptor.                      *)
Exit ==
  /\ proc # "exited"
  /\ Die
  /\ UNCHANGED <<service, starts, sender, tries, overlap>>

-----------------------------------------------------------------------------
(* Guard.looper: the exit is seen when the guard is not sending; the        *)
(* process is started again and its sender begins, or that fails and the    *)
(* service stops.                                                           *)
BugNoResend == sender
Resend == [sender EXCEPT !["restart"] = "delay"]

Restart ==
  /\ Up /\ proc = "exited" /\ sender["restart"] \in {"idle", "done"}
  /\ starts < MaxStarts
  /\ starts' = starts + 1
  /\ proc' = "started"
  /\ sender' = Resend
  /\ tries' = [tries EXCEPT !["restart"] = 0]
  /\ overlap' = (overlap \/ Trying("start"))
  /\ UNCHANGED <<service, path, backlog, conn, told, fd>>

(* stopRunner, for whatever reason: the senders are cancelled and the       *)
(* process is killed.                                                       *)
StopAll ==
  /\ service' = "stopped"
  /\ Die
  /\ sender' = [s \in Senders |-> "idle"]

Stop ==
  /\ Up
  /\ StopAll
  /\ UNCHANGED <<starts, tries, overlap>>

(* The process of the app dies; tun2socks lives on until the next start     *)
(* kills it (Executable.killAll).                                           *)
JvmDies ==
  /\ Up
  /\ service' = "dead"
  /\ sender' = [s \in Senders |-> "idle"]
  /\ UNCHANGED <<starts, proc, path, backlog, conn, told, fd, tries, overlap>>

-----------------------------------------------------------------------------
(* sendFd.  An attempt fails in connect, or later because the process has   *)
(* closed its sockets.                                                      *)
Connect(s) ==
  /\ sender[s] = "delay" /\ path = "live"
  /\ sender' = [sender EXCEPT ![s] = "connected"]
  /\ backlog' = Append(backlog, s)
  /\ UNCHANGED <<service, starts, proc, path, conn, told, fd, tries, overlap>>

InProgress(s) == s \in conn \/ \E i \in 1 .. Len(backlog) : backlog[i] = s

AfterSending == "done"

Send(s) ==
  /\ sender[s] = "connected" /\ InProgress(s)
  /\ sender' = [sender EXCEPT ![s] = AfterSending]
  /\ told' = told \cup {s}
  /\ service' = IF s = "start" /\ service = "starting" THEN "connected"
                ELSE service
  /\ UNCHANGED <<starts, proc, path, backlog, conn, fd, tries, overlap>>

GivesUp(s) == tries[s] > MaxTries

(* A refused sender gives up: the connecting job fails, or the guard ends   *)
(* with an IOException, and either stops the service.                       *)
AttemptFails(s) ==
  /\ \/ sender[s] = "delay" /\ path # "live"
     \/ sender[s] = "connected" /\ ~InProgress(s)
  /\ IF GivesUp(s)
     THEN /\ StopAll
          /\ UNCHANGED <<starts, tries, overlap>>
     ELSE /\ sender' = [sender EXCEPT ![s] = "delay"]
          /\ tries' = [tries EXCEPT ![s] = tries[s] + 1]
          /\ UNCHANGED <<service, starts, proc, path, backlog, conn, told, fd,
                         overlap>>

Over == ~Up /\ proc = "exited" /\ UNCHANGED vars

Next ==
  \/ Listen \/ Accept \/ Receive \/ Timeout \/ EnterLoop \/ Exit
  \/ Restart \/ Stop \/ JvmDies
  \/ \E s \in Senders : Connect(s) \/ Send(s) \/ AttemptFails(s)
  \/ Over

Spec == Init /\ [][Next]_vars

(* Fairness: tun2socks goes on with what it can do, and so do the senders   *)
(* and the guard.                                                           *)
Goes == Listen \/ Accept \/ Receive \/ Timeout \/ EnterLoop
Tries(s) == Connect(s) \/ Send(s) \/ AttemptFails(s)

FairSpec ==
  /\ Spec
  /\ WF_vars(Goes)
  /\ WF_vars(fd = "minus1" /\ Exit)
  /\ WF_vars(Restart)
  /\ \A s \in Senders : WF_vars(Tries(s))

-----------------------------------------------------------------------------
TypeOK ==
  /\ service \in {"starting", "connected", "stopped", "dead"}
  /\ starts \in 1 .. MaxStarts
  /\ proc \in {"started", "listening", "accepted", "returned", "running",
               "exited"}
  /\ path \in {"none", "stale", "live"}
  /\ Len(backlog) <= 2 /\ conn \subseteq Senders /\ told \subseteq Senders
  /\ fd \in {"unset", "tun", "minus1", "garbage"}
  /\ sender \in [Senders -> {"idle", "delay", "connected", "done"}]
  /\ tries \in [Senders -> 0 .. MaxTries + 1]
  /\ overlap \in BOOLEAN

(* "wait for the file descriptor sent from JVM": tun2socks enters its event *)
(* loop only with the descriptor the service sent.                          *)
RunsOnTun == proc = "running" => fd = "tun"

(* While the service is there, tun2socks runs on nothing but the tun        *)
(* device: every process that is started is followed by a sender, which     *)
(* hands the descriptor to this process or stops the service.               *)
RunsOnTunUnlessOrphaned == RunsOnTun \/ service = "dead"

(* A sender that gives up stops the service.  It takes a working tun2socks  *)
(* down with it only where a restart overlapped with the start: tun2socks   *)
(* accepts one connection and closes its socket, and the other sender is    *)
(* refused until it has no attempts left.                                   *)
GivingUpIsJustified ==
  [][\A s \in Senders :
       AttemptFails(s) /\ service' = "stopped" => fd # "tun" \/ overlap]_vars

(* A service that stays up gets tun2socks to run on the tun device, after   *)
(* any crash of tun2socks at any point of the hand-over.                    *)
TunArrives ==
  Up ~> \/ proc = "running" /\ fd = "tun"
        \/ ~Up
        \/ proc = "exited" /\ starts = MaxStarts
=============================================================================
