----------------------------- MODULE MCClients -----------------------------
(* The service and those who talk to it: the clients that listen for        *)
(* bandwidth (two connections of other processes and the notification), and *)
(* the local sockets that the native processes connect to (each of the      *)
(* three classes, with three connections).                                  *)
(*                                                                          *)
(* The two share no state, so they need not be interleaved: part says which *)
(* of them moves in this behaviour; the other stays as it is.               *)
EXTENDS Bandwidth

CONSTANT Conn

VARIABLES
  part,
  kind, running, cancelled, thread, open, conn, ready, stopper, channel,
  received, joined

Socket == INSTANCE LocalSocketListener WITH main <- stopper

socketVars == <<kind, running, cancelled, thread, open, conn, ready, stopper,
                channel, received, joined>>
all == <<part, vars, socketVars>>

MCInit ==
  /\ part \in {"clients", "socket"}
  /\ Init
  /\ Socket!Init /\ (part # "socket" => kind = "plain")

MCNext ==
  /\ UNCHANGED part
  /\ \/ part = "clients" /\ Next /\ UNCHANGED socketVars
     \/ part = "socket" /\ Socket!Next /\ UNCHANGED vars

(* The fairness of each component, for the one that moves.                  *)
MCSpec ==
  /\ MCInit /\ [][MCNext]_all
  /\ WF_vars(part = "clients" /\ RunPosted)
  /\ WF_vars(part = "clients" /\ TakeOneway)
  /\ \A c \in Client : /\ WF_vars(part = "clients" /\ TakeRegister(c))
                       /\ WF_vars(part = "clients" /\ TakeStart(c))
                       /\ WF_vars(part = "clients" /\ CallbackDied(c))
  /\ WF_socketVars(part = "socket" /\ Socket!Thread)
  /\ WF_socketVars(part = "socket" /\ Socket!Main)
  /\ \A x \in Conn :
       /\ WF_socketVars(part = "socket" /\ Socket!Job(x))
       /\ WF_socketVars(part = "socket" /\ stopper # "up" /\ Socket!PeerReady(x))

-----------------------------------------------------------------------------
(* While the service lives one loop runs if somebody listens and none if    *)
(* nobody does, the field looper names it, and its checks never fail.       *)
LoopAsNeeded == TypeOK /\ OneLoop /\ LooperChecks

(* A shutdown of a local socket ends, wherever the thread and the           *)
(* coroutines were, and then nothing of it runs into the next start.        *)
ShutdownCompletes ==
  Socket!ShutdownCompletes /\ [](Socket!TypeOK /\ Socket!DoneIsDone)

(* A request is answered whatever other connections do, if each has a       *)
(* coroutine of its own.                                                    *)
Answered == part = "socket" => Socket!Answered
=============================================================================
