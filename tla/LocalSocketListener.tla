------------------------ MODULE LocalSocketListener ------------------------
(***************************************************************************)
(* The thread behind each local socket of the service, and its shutdown:   *)
(* net/LocalSocketListener.kt, with net/ConcurrentLocalSocketListener.kt   *)
(* (a coroutine for each connection) and bg/LocalDnsWorker.kt (one that    *)
(* also waits for the resolver).                                           *)
(*                                                                         *)
(* The main thread shuts the listener down while the thread is anywhere in *)
(* its loop.  Reads of a connection block until its peer, a process of the *)
(* service, has sent or closed, and a cancelled coroutine does not stop    *)
(* reading; one that has not begun never begins.                           *)
(***************************************************************************)
EXTENDS FiniteSets

CONSTANT Conn    \* connections that the processes may make

Kind == {"plain", "concurrent", "dns"}

VARIABLES
  kind,     \* the class of the listener
  running, cancelled,
  thread,   \* where the thread is
  open,     \* the socket takes connections
  conn,     \* state of each connection
  ready,    \* connections whose peer has sent, or closed its end
  main,     \* where the shutdown is
  channel,  \* closeChannel holds the one element
  received, \* closeChannel.receive() has returned
  joined    \* job.join() has returned

connVars == <<conn, ready>>
mainVars == <<main, received, joined>>
vars == <<kind, running, cancelled, thread, open, connVars, channel, mainVars>>

Init ==
  /\ kind \in Kind
  /\ running = TRUE /\ cancelled = FALSE
  /\ thread = "test" /\ open = TRUE
  /\ conn = [x \in Conn |-> "none"] /\ ready = {}
  /\ main = "up" /\ channel = FALSE /\ received = FALSE /\ joined = FALSE

Set(x, s) == conn' = [conn EXCEPT ![x] = s]

-----------------------------------------------------------------------------
(* The processes of the service.                                            *)
Connect(x) ==
  /\ conn[x] = "none" /\ open
  /\ Set(x, "backlog")
  /\ UNCHANGED <<kind, running, cancelled, thread, open, ready, channel, mainVars>>

(* The peer sends its request, closes, or is killed.                        *)
PeerReady(x) ==
  /\ conn[x] # "none" /\ x \notin ready
  /\ ready' = ready \cup {x}
  /\ UNCHANGED <<kind, running, cancelled, thread, open, conn, channel, mainVars>>

-----------------------------------------------------------------------------
(* run.                                                                     *)
TestRunning ==
  /\ thread = "test"
  /\ thread' = IF running THEN "accept" ELSE "end"
  /\ UNCHANGED <<kind, running, cancelled, open, connVars, channel, mainVars>>

(* The three methods accept(socket).  In a cancelled scope launch does      *)
(* nothing with the connection.                                             *)
BugOneAtATime(x) ==
  \/ kind = "plain" /\ Set(x, "reading") /\ thread' = "handle"
  \/ /\ kind # "plain" /\ \A y \in Conn : conn[y] \notin {"launched", "reading"}
     /\ thread' = "test"
     /\ Set(x, IF cancelled THEN "dropped" ELSE "launched")
Take(x) ==
  \/ kind = "plain" /\ Set(x, "reading") /\ thread' = "handle"
  \/ /\ kind # "plain" /\ thread' = "test"
     /\ Set(x, IF cancelled THEN "dropped" ELSE "launched")

(* Connections that were made before the socket was shut are still handed   *)
(* out.                                                                     *)
Accept ==
  /\ thread = "accept"
  /\ \E x \in Conn : conn[x] = "backlog" /\ Take(x)
  /\ UNCHANGED <<kind, running, cancelled, open, ready, channel, mainVars>>

(* An exception of accept, which the loop catches.                          *)
AcceptFails ==
  /\ thread = "accept" /\ ~open
  /\ \A x \in Conn : conn[x] # "backlog"
  /\ thread' = "test"
  /\ UNCHANGED <<kind, running, cancelled, open, connVars, channel, mainVars>>

(* acceptInternal on the thread: the answer or an exception, then close.    *)
Handle(x) ==
  /\ thread = "handle" /\ conn[x] = "reading" /\ x \in ready
  /\ Set(x, "closed")
  /\ thread' = "test"
  /\ UNCHANGED <<kind, running, cancelled, open, ready, channel, mainVars>>

(* localSocket is closed, with the connections in its backlog, and the      *)
(* channel takes its element.                                               *)
End ==
  /\ thread = "end"
  /\ open' = FALSE
  /\ conn' = [x \in Conn |-> IF conn[x] = "backlog" THEN "closed" ELSE conn[x]]
  /\ channel' = TRUE
  /\ thread' = "ended"
  /\ UNCHANGED <<kind, running, cancelled, ready, mainVars>>

-----------------------------------------------------------------------------
(* The coroutine of a connection.                                           *)
Begin(x) ==
  /\ conn[x] = "launched"
  /\ Set(x, IF cancelled THEN "dropped" ELSE "reading")
  /\ UNCHANGED <<kind, running, cancelled, thread, open, ready, channel, mainVars>>

Serve(x) ==
  /\ kind # "plain" /\ conn[x] = "reading" /\ x \in ready
  /\ Set(x, IF kind = "dns" THEN "resolving" ELSE "closed")
  /\ UNCHANGED <<kind, running, cancelled, thread, open, ready, channel, mainVars>>

(* The resolver answers, fails or is cancelled; each is answered, and the   *)
(* socket closed.                                                           *)
Resolve(x) ==
  /\ conn[x] = "resolving"
  /\ Set(x, "closed")
  /\ UNCHANGED <<kind, running, cancelled, thread, open, ready, channel, mainVars>>

-----------------------------------------------------------------------------
(* shutdown: running = false; cancel(); Os.shutdown; the two launches.      *)
ShutdownBegins ==
  /\ main = "up"
  /\ running' = FALSE
  /\ main' = "cancel"
  /\ UNCHANGED <<kind, cancelled, thread, open, connVars, channel, received, joined>>

Cancel ==
  /\ main = "cancel"
  /\ cancelled' = (kind # "plain")
  /\ main' = "shut"
  /\ UNCHANGED <<kind, running, thread, open, connVars, channel, received, joined>>

BugNotShut == open
Shut == FALSE

OsShutdown ==
  /\ main = "shut"
  /\ open' = Shut
  /\ main' = "wait"
  /\ UNCHANGED <<kind, running, cancelled, thread, connVars, channel, received,
                 joined>>

ReceiveClose ==
  /\ main = "wait" /\ channel
  /\ channel' = FALSE /\ received' = TRUE
  /\ UNCHANGED <<kind, running, cancelled, thread, open, connVars, main, joined>>

JobsEnded == \A x \in Conn : conn[x] \notin {"launched", "reading", "resolving"}

Join ==
  /\ main = "wait" /\ ~joined
  /\ kind = "plain" \/ JobsEnded
  /\ joined' = TRUE
  /\ UNCHANGED <<kind, running, cancelled, thread, open, connVars, channel, main,
                 received>>

(* The scope of the stop has ended.                                         *)
Done == received /\ joined

Over == Done /\ thread = "ended" /\ UNCHANGED vars

Thread == TestRunning \/ Accept \/ AcceptFails \/ End \/ \E x \in Conn : Handle(x)
Job(x) == Begin(x) \/ Serve(x) \/ Resolve(x)
Main == Cancel \/ OsShutdown \/ ReceiveClose \/ Join

Next ==
  \/ TestRunning \/ Accept \/ AcceptFails \/ End
  \/ \E x \in Conn : Connect(x) \/ PeerReady(x) \/ Handle(x)
                     \/ Begin(x) \/ Serve(x) \/ Resolve(x)
  \/ ShutdownBegins \/ Cancel \/ OsShutdown \/ ReceiveClose \/ Join \/ Over

(* The threads run, the resolver has a timeout, and the stop that shuts the *)
(* listener down kills the processes too, which closes their ends.          *)
Fairness ==
  /\ WF_vars(Thread) /\ WF_vars(Main)
  /\ \A x \in Conn : WF_vars(Job(x)) /\ WF_vars(main # "up" /\ PeerReady(x))

Spec == Init /\ [][Next]_vars
FairSpec == Spec /\ Fairness

-----------------------------------------------------------------------------
(* Every variable keeps its kind; the thread has one connection in hand,    *)
(* and none of the others.                                                  *)
TypeOK ==
  /\ kind \in Kind
  /\ {running, cancelled, open, channel, received, joined} \subseteq BOOLEAN
  /\ thread \in {"test", "accept", "handle", "end", "ended"}
  /\ conn \in [Conn -> {"none", "backlog", "launched", "reading", "resolving",
                        "dropped", "closed"}]
  /\ ready \subseteq Conn
  /\ main \in {"up", "cancel", "shut", "wait"}
  /\ kind = "plain" =>
       Cardinality({x \in Conn : conn[x] = "reading"})
         = IF thread = "handle" THEN 1 ELSE 0

(* Once the scope of the stop has ended, the thread has too and no          *)
(* connection is worked on: nothing of the listener runs into the next      *)
(* start, which binds the same path.                                        *)
DoneIsDone ==
  Done => /\ thread = "ended"
          /\ \A x \in Conn : conn[x] \in {"none", "dropped", "closed"}

(* A shutdown ends, wherever the thread and the coroutines were.            *)
ShutdownCompletes == main # "up" ~> Done

(* While the listener is up, a request is answered whatever other           *)
(* connections do, if each has a coroutine of its own.                      *)
Answered ==
  \A x \in Conn :
    kind # "plain" /\ conn[x] = "backlog" /\ x \in ready
      ~> conn[x] = "closed" \/ main # "up"
=============================================================================
