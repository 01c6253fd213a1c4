---------------------------- MODULE ClientsProofs ----------------------------
(***************************************************************************)
(* The service and those who talk to it, for every set of clients and of   *)
(* connections and any number of sessions: the loop for bandwidth runs     *)
(* when somebody listens and then only once, the clients are served as     *)
(* they asked, and a local socket that was shut down is at rest.           *)
(***************************************************************************)
EXTENDS MCClients, FiniteSetTheorems, TLAPS

(* The local sockets.                                                       *)

State == {"none", "backlog", "launched", "reading", "resolving", "dropped",
          "closed"}

Idle(x) == conn[x] \notin {"launched", "reading", "resolving"}

(* The element of the channel says that the thread has ended, and a thread  *)
(* that has ended leaves no backlog.  A plain listener works only on the    *)
(* connection its thread has in hand.  The join of the others says that no  *)
(* coroutine works, and stays true because the scope is cancelled before.   *)
Stopped ==
  /\ kind \in Socket!Kind
  /\ stopper \in {"shut", "wait"} => cancelled = (kind # "plain")
  /\ received \/ joined => stopper = "wait"
  /\ stopper = "wait" \/ thread = "ended" => ~open
  /\ channel \/ received => thread = "ended"

Worked ==
  /\ \A x \in Conn : thread = "ended" => conn[x] # "backlog"
  /\ \A x \in Conn : kind = "plain" => conn[x] \notin {"launched", "resolving"}
  /\ \A x \in Conn : kind = "plain" /\ conn[x] = "reading" => thread = "handle"
  /\ \A x, y \in Conn :
       kind = "plain" /\ conn[x] = "reading" /\ conn[y] = "reading" => x = y
  /\ \A x \in Conn : joined /\ kind # "plain" => Idle(x)

SocketInv == conn \in [Conn -> State] /\ Stopped /\ Worked

(* A listener starts with its thread about to test running.                 *)
LEMMA SocketInit == Socket!Init => SocketInv
  BY Zenon DEF Socket!Init, SocketInv, Stopped, Worked, State, Idle

(* A connection that is made finds the thread running.                      *)
LEMMA SocketConnectKeeps ==
  ASSUME SocketInv, NEW x \in Conn, Socket!Connect(x)
  PROVE  SocketInv'
  BY
     DEF SocketInv, Stopped, Worked, State, Idle, Socket!Connect, Socket!Set,
         Socket!mainVars

(* The connection the thread accepts: in its hand, or a coroutine that a    *)
(* cancelled scope never begins.                                            *)
LEMMA SocketAcceptKeeps ==
  ASSUME SocketInv, Socket!Accept
  PROVE  SocketInv'
<1>1. PICK x \in Conn : conn[x] = "backlog" /\ Socket!Take(x)
  BY Zenon DEF Socket!Accept
<1>2. CASE kind = "plain"
  BY <1>1, <1>2
     DEF SocketInv, Stopped, Worked, State, Idle, Socket!Accept, Socket!Take,
         Socket!Set, Socket!mainVars
<1>3. CASE kind # "plain"
  <2>1. joined => cancelled BY Zenon, <1>3 DEF SocketInv, Stopped
  <2>2. QED
    BY Zenon, <1>1, <1>3, <2>1
          DEF SocketInv, Stopped, Worked, State, Idle, Socket!Accept, Socket!Take,
              Socket!Set, Socket!mainVars
<1>4. QED BY Zenon, <1>2, <1>3

(* What the thread and the coroutines do with a connection.                 *)
LEMMA SocketWorkKeeps ==
  ASSUME SocketInv, NEW x \in Conn,
         Socket!Handle(x) \/ Socket!Begin(x) \/ Socket!Serve(x) \/ Socket!Resolve(x)
  PROVE  SocketInv'
<1>1. CASE Socket!Handle(x)
  BY Zenon, <1>1
     DEF SocketInv, Stopped, Worked, State, Idle, Socket!Handle, Socket!Set,
         Socket!mainVars
<1>2. CASE Socket!Begin(x)
  BY Zenon, <1>2
     DEF SocketInv, Stopped, Worked, State, Idle, Socket!Begin, Socket!Set,
         Socket!mainVars
<1>3. CASE Socket!Serve(x)
  BY Zenon, <1>3
     DEF SocketInv, Stopped, Worked, State, Idle, Socket!Serve, Socket!Set,
         Socket!mainVars
<1>4. CASE Socket!Resolve(x)
  BY <1>4
     DEF SocketInv, Stopped, Worked, State, Idle, Socket!Resolve, Socket!Set,
         Socket!mainVars
<1>5. QED BY Zenon, <1>1, <1>2, <1>3, <1>4

(* Every step keeps the invariant.                                          *)
LEMMA SocketStep == SocketInv /\ [Socket!Next]_socketVars => SocketInv'
<1> SUFFICES ASSUME SocketInv, [Socket!Next]_socketVars PROVE SocketInv'
  BY Zenon
<1>1. CASE Socket!TestRunning
  BY Zenon, <1>1
     DEF Socket!TestRunning, SocketInv, Stopped, Worked, Idle, Socket!connVars,
         Socket!mainVars
<1>2. CASE Socket!AcceptFails
  BY Zenon, <1>2
     DEF Socket!AcceptFails, SocketInv, Stopped, Worked, Idle, Socket!connVars,
         Socket!mainVars
<1>3. CASE Socket!End
  <2>1. conn' \in [Conn -> State] BY Zenon, <1>3 DEF Socket!End, SocketInv, State
  <2>2. \A x \in Conn : conn'[x] # "backlog"
                        /\ (conn'[x] = conn[x] \/ conn'[x] = "closed")
    BY Zenon, <1>3 DEF Socket!End, SocketInv
  <2>3. QED
    BY Zenon, <1>3, <2>1, <2>2 DEF Socket!End, SocketInv, Stopped, Worked, Idle, Socket!mainVars
<1>4. ASSUME NEW x \in Conn, Socket!PeerReady(x) PROVE SocketInv'
  BY Zenon, <1>4 DEF Socket!PeerReady, SocketInv, Stopped, Worked, Idle, Socket!mainVars
<1>5. CASE Socket!ShutdownBegins
  BY Zenon, <1>5 DEF Socket!ShutdownBegins, SocketInv, Stopped, Worked, Idle, Socket!connVars
<1>6. CASE Socket!Cancel
  BY Zenon, <1>6 DEF Socket!Cancel, SocketInv, Stopped, Worked, Idle, Socket!connVars
<1>7. CASE Socket!OsShutdown
  BY Zenon, <1>7
     DEF Socket!OsShutdown, Socket!Shut, SocketInv, Stopped, Worked, Idle,
         Socket!connVars
<1>8. CASE Socket!ReceiveClose
  BY Zenon, <1>8 DEF Socket!ReceiveClose, SocketInv, Stopped, Worked, Idle, Socket!connVars
<1>9. CASE Socket!Join
  BY Zenon, <1>9
     DEF Socket!Join, Socket!JobsEnded, SocketInv, Stopped, Worked, Idle,
         Socket!connVars
<1>10. CASE UNCHANGED socketVars
  BY Zenon, <1>10
     DEF socketVars, SocketInv, Stopped, Worked, Idle, Socket!connVars,
         Socket!mainVars
<1>11. QED
  BY <1>1, <1>2, <1>3, <1>4, <1>5, <1>6, <1>7, <1>8, <1>9, <1>10,
     SocketConnectKeeps, SocketAcceptKeeps, SocketWorkKeeps
        DEF Socket!Next, Socket!Over, Socket!vars, Socket!connVars,
            Socket!mainVars, socketVars

(* When receive() and join() have returned, the thread has ended and no     *)
(* connection is worked on: nothing of the listener runs into the next      *)
(* start.                                                                   *)
THEOREM ShutdownIsFinal == MCSpec => []Socket!DoneIsDone
<1>1. SocketInv => Socket!DoneIsDone
  BY Zenon DEF SocketInv, Stopped, Worked, Idle, State, Socket!DoneIsDone, Socket!Done
<1>2. MCInit => SocketInv
  BY Zenon, SocketInit DEF MCInit
<1>3. SocketInv /\ [MCNext]_all => SocketInv'
  <2>1. [MCNext]_all => [Socket!Next]_socketVars
    BY Zenon DEF MCNext, all
  <2>2. QED BY Zenon, <2>1, SocketStep
<1>4. QED BY <1>1, <1>2, <1>3, PTL DEF MCSpec

-----------------------------------------------------------------------------
(* Who listens for bandwidth.                                               *)

Where == {"out", "registering", "registered", "starting", "listening"}
Ops == {"start", "stop"} \X Client
Oneways == {"unregister", "stop"} \X Client \X Nat

ClientTyped ==
  /\ dead \subseteq Client /\ overtaken \subseteq Client
  /\ sessions \in 0..MaxSessions /\ session \in [Client -> 0..MaxSessions]
  /\ at \in [Client -> Where]
  /\ calls \subseteq ({"register", "start"} \X Client)
  /\ oneway \in Seq(Oneways) /\ posted \in Seq(Ops)
  /\ callbacks \subseteq All /\ bandwidthListeners \subseteq All
  /\ looper \in Job \cup {0} /\ loops \subseteq Job
  /\ closed \in BOOLEAN /\ checks \in BOOLEAN

Closed == closed => callbacks = {} /\ loops = {} /\ posted = <<>>

LoopInv == ClientTyped /\ Closed /\ OneLoop /\ checks

(* Whether c listens once what is posted has run: the last that concerns it *)
(* is a start, or nothing does and it listens now.                          *)
Will(q, listening, c) ==
  \/ \E i \in 1..Len(q) : /\ q[i][1] = "start" /\ q[i][2] = c
                          /\ \A j \in 1..Len(q) : j > i => q[j][2] # c
  \/ c \in listening /\ \A j \in 1..Len(q) : q[j][2] # c

(* The oneway calls of c that wait, and those of a session it has left for  *)
(* another.                                                                 *)
Pending(q, c) == \E i \in 1..Len(q) : q[i][2] = c
Unregisters(q, c) == \E i \in 1..Len(q) : q[i][1] = "unregister" /\ q[i][2] = c
Stale(q, c, n) == \E i \in 1..Len(q) : q[i][2] = c /\ q[i][3] # n

(* A call that waits for a thread is the one the client is in, and oneway   *)
(* calls are of sessions there were.                                        *)
Calling ==
  /\ \A c \in Client : /\ <<"register", c>> \in calls <=> at[c] = "registering"
                       /\ <<"start", c>> \in calls <=> at[c] = "starting"
  /\ \A c \in Client : session[c] <= sessions
  /\ \A i \in 1..Len(oneway) : oneway[i][3] <= sessions

(* A client none of whose calls were or will be overtaken.                  *)
Orderly(c) == c \notin overtaken /\ ~Stale(oneway, c, session[c])

(* What the callbacks have of c, what the listeners will have, and what is  *)
(* still to come to change that.                                            *)
Serving(c) ==
  LET will == Will(posted, bandwidthListeners, c) IN
  /\ Pending(oneway, c) => at[c] = "out"
  /\ at[c] = "out" => /\ c \in callbacks => Unregisters(oneway, c)
                      /\ will => Pending(oneway, c)
  /\ at[c] = "registering" => c \notin callbacks
  /\ at[c] \in {"registered", "starting", "listening"} => c \in callbacks \/ c \in dead
  /\ at[c] \in {"registering", "registered", "starting"} => ~will
  /\ at[c] = "listening" => (will <=> c \in callbacks)

ClientInv ==
  /\ LoopInv /\ Calling
  /\ ~closed => \A c \in Client : Orderly(c) => Serving(c)


(* There is at least one job.                                               *)
LEMMA JobExists == 1 \in Job /\ 0 \notin Job
<1>1. IsFiniteSet(All) /\ Cardinality(All) = Cardinality(Client) + 1
  BY Zenon, ClientAssumption, FS_AddElement DEF All
<1>2. Cardinality(Client) \in Nat
  BY Zenon, ClientAssumption, FS_CardinalityType
<1>3. QED BY <1>1, <1>2 DEF Job

(* The invariant of the loop holds at first.                                *)
LEMMA LoopInit == Init => LoopInv
<1> SUFFICES ASSUME Init PROVE LoopInv
  BY Zenon
<1>1. closed \in BOOLEAN /\ checks \in BOOLEAN /\ ~closed /\ checks
  BY Zenon DEF Init
<1>2. session \in [Client -> 0..MaxSessions] /\ sessions \in 0..MaxSessions
  BY ClientAssumption DEF Init
<1>3. ClientTyped
  BY <1>1, <1>2 DEF Init, ClientTyped, Where, All
<1>4. QED BY Zenon, <1>1, <1>3 DEF Init, LoopInv, Closed, OneLoop

(* A start, of which the first makes the loop, and a stop, of which the     *)
(* last ends it.                                                            *)
LEMMA StartLoop ==
  ASSUME LoopInv, ~closed, NEW c \in All, Start(c)
  PROVE  /\ bandwidthListeners' = bandwidthListeners \cup {c}
         /\ looper' \in Job /\ loops' = {looper'}
         /\ checks' \in BOOLEAN /\ checks'
<1>0. /\ bandwidthListeners' = bandwidthListeners \cup {c}
      /\ loops = IF bandwidthListeners = {} THEN {} ELSE {looper}
      /\ looper = 0 <=> bandwidthListeners = {}
      /\ looper \in Job \cup {0}
  BY Zenon DEF Start, LoopInv, ClientTyped, OneLoop
<1>1. CASE bandwidthListeners = {}
  <2>1. /\ looper' = NewJob /\ loops' = loops \cup {NewJob}
        /\ checks' = (checks /\ looper = 0)
    BY Zenon, <1>1 DEF Start, StartsLoop
  <2>2. NewJob \in Job BY Zenon, <1>0, <1>1, JobExists DEF NewJob
  <2>3. looper = 0 /\ checks BY Zenon, <1>0, <1>1 DEF LoopInv
  <2>4. checks' \in BOOLEAN /\ checks' BY Zenon, <2>1, <2>3
  <2>5. QED BY Zenon, <1>0, <1>1, <2>1, <2>2, <2>4
<1>2. CASE bandwidthListeners # {}
  <2>1. UNCHANGED <<looper, loops, checks>>
    BY Zenon, <1>2 DEF Start, StartsLoop
  <2>2. QED BY Zenon, <1>0, <1>2, <2>1 DEF LoopInv, ClientTyped
<1>3. QED BY Zenon, <1>1, <1>2

(* The last listener that stops ends the loop, and no other does.           *)
LEMMA StopLoop ==
  ASSUME LoopInv, ~closed, NEW c \in All, Stop(c)
  PROVE  /\ bandwidthListeners' = bandwidthListeners \ {c}
         /\ looper' \in Job \cup {0}
         /\ loops' = IF bandwidthListeners' = {} THEN {} ELSE {looper'}
         /\ looper' = 0 <=> bandwidthListeners' = {}
         /\ checks' \in BOOLEAN /\ checks'
<1>0. /\ bandwidthListeners' = bandwidthListeners \ {c}
      /\ loops = IF bandwidthListeners = {} THEN {} ELSE {looper}
      /\ looper = 0 <=> bandwidthListeners = {}
      /\ looper \in Job \cup {0}
  BY Zenon DEF Stop, LoopInv, ClientTyped, OneLoop
<1>1. CASE bandwidthListeners = {c}
  <2>1. /\ looper' = 0 /\ loops' = loops \ {looper}
        /\ checks' = (checks /\ looper # 0)
    BY Zenon, <1>1 DEF Stop, LastOf
  <2>3. looper # 0 /\ checks BY Zenon, <1>0, <1>1 DEF LoopInv
  <2>4. checks' \in BOOLEAN /\ checks' BY Zenon, <2>1, <2>3
  <2>5. QED BY Zenon, <1>0, <1>1, <2>1, <2>4
<1>2. CASE bandwidthListeners # {c}
  <2>1. UNCHANGED <<looper, loops, checks>>
    BY Zenon, <1>2 DEF Stop, LastOf
  <2>2. bandwidthListeners' = {} <=> bandwidthListeners = {}
    BY Zenon, <1>0, <1>2
  <2>3. QED BY Zenon, <1>0, <2>1, <2>2 DEF LoopInv, ClientTyped
<1>3. QED BY Zenon, <1>1, <1>2

(* What is posted to the main thread of a Binder that is open.              *)
LEMMA PostTyped ==
  ASSUME LoopInv, NEW op \in {"start", "stop"}, NEW c \in Client, Post(op, c)
  PROVE  posted' \in Seq(Ops) /\ (closed => posted' = <<>>)
<1>1. <<op, c>> \in Ops BY Zenon DEF Ops
<1>2. posted \in Seq(Ops) /\ (closed => posted = <<>>)
  BY Zenon DEF LoopInv, ClientTyped, Closed
<1>3. QED BY <1>1, <1>2 DEF Post

(* The steps of the clients and of the threads of the service, which leave  *)
(* the listeners and the loop alone.                                        *)
LEMMA MainSame ==
  ASSUME LoopInv, UNCHANGED <<bandwidthListeners, looper, loops, checks, closed>>,
         dead' \subseteq Client, overtaken' \subseteq Client,
         sessions' \in 0..MaxSessions, session' \in [Client -> 0..MaxSessions],
         at' \in [Client -> Where], calls' \subseteq ({"register", "start"} \X Client),
         oneway' \in Seq(Oneways), posted' \in Seq(Ops), callbacks' \subseteq All,
         closed => callbacks' = {} /\ posted' = <<>>
  PROVE  LoopInv'
<1>1. ClientTyped' BY Zenon DEF LoopInv, ClientTyped
<1>2. Closed' BY Zenon DEF LoopInv, Closed
<1>3. OneLoop' /\ checks' BY Zenon DEF LoopInv, OneLoop
<1>4. QED BY Zenon, <1>1, <1>2, <1>3 DEF LoopInv

(* What the clients do by themselves leaves the loop alone.                 *)
LEMMA ClientStepLoop ==
  ASSUME LoopInv, NEW c \in Client,
         Register(c) \/ StartListening(c) \/ Disconnect(c) \/ Die(c)
  PROVE  LoopInv'
<1>0. /\ dead \subseteq Client /\ overtaken \subseteq Client
      /\ sessions \in 0..MaxSessions /\ session \in [Client -> 0..MaxSessions]
      /\ at \in [Client -> Where] /\ calls \subseteq ({"register", "start"} \X Client)
      /\ oneway \in Seq(Oneways) /\ posted \in Seq(Ops) /\ callbacks \subseteq All
      /\ closed => callbacks = {} /\ posted = <<>>
  BY Zenon DEF LoopInv, ClientTyped, Closed
<1>1. CASE Register(c)
  <2>1. /\ sessions < MaxSessions /\ sessions' = sessions + 1
        /\ session' = [session EXCEPT ![c] = sessions']
        /\ at' = [at EXCEPT ![c] = "registering"]
        /\ calls' = calls \cup {<<"register", c>>}
        /\ UNCHANGED <<dead, oneway, posted, callbacks, bandwidthListeners, looper,
                       loops, checks, closed, overtaken>>
    BY Zenon, <1>1 DEF Register, mainVars
  <2>2. sessions' \in 0..MaxSessions BY <1>0, <2>1, ClientAssumption
  <2>3. /\ session' \in [Client -> 0..MaxSessions] /\ at' \in [Client -> Where]
        /\ calls' \subseteq ({"register", "start"} \X Client)
    BY <1>0, <2>1, <2>2 DEF Where
  <2>4. QED BY Zenon, <1>0, <2>1, <2>2, <2>3, MainSame
<1>2. CASE StartListening(c)
  <2>1. /\ at' = [at EXCEPT ![c] = "starting"]
        /\ calls' = calls \cup {<<"start", c>>}
        /\ UNCHANGED <<dead, sessions, session, oneway, posted, callbacks,
                       bandwidthListeners, looper, loops, checks, closed, overtaken>>
    BY Zenon, <1>2 DEF StartListening, mainVars
  <2>2. /\ at' \in [Client -> Where]
        /\ calls' \subseteq ({"register", "start"} \X Client)
    BY <1>0, <2>1 DEF Where
  <2>3. QED BY Zenon, <1>0, <2>1, <2>2, MainSame
<1>3. CASE Disconnect(c)
  <2>1. /\ at' = [at EXCEPT ![c] = "out"]
        /\ oneway' = oneway \o <<<<"unregister", c, session[c]>>, <<"stop", c, session[c]>>>>
        /\ UNCHANGED <<dead, sessions, session, calls, posted, callbacks,
                       bandwidthListeners, looper, loops, checks, closed, overtaken>>
    BY Zenon, <1>3 DEF Disconnect, mainVars
  <2>2. at' \in [Client -> Where] BY Zenon, <1>0, <2>1 DEF Where
  <2>3. oneway' \in Seq(Oneways)
    <3>1. session[c] \in Nat BY <1>0, ClientAssumption
    <3>2. /\ <<"unregister", c, session[c]>> \in Oneways
          /\ <<"stop", c, session[c]>> \in Oneways
      BY Zenon, <3>1 DEF Oneways
    <3>3. QED BY <1>0, <2>1, <3>2
  <2>4. QED BY Zenon, <1>0, <2>1, <2>2, <2>3, MainSame
<1>4. CASE Die(c)
  <2>1. /\ dead' = dead \cup {c}
        /\ UNCHANGED <<sessions, session, at, calls, oneway, posted, callbacks,
                       bandwidthListeners, looper, loops, checks, closed, overtaken>>
    BY Zenon, <1>4 DEF Die, mainVars
  <2>2. dead' \subseteq Client BY Zenon, <1>0, <2>1
  <2>3. QED BY Zenon, <1>0, <2>1, <2>2, MainSame
<1>5. QED BY Zenon, <1>1, <1>2, <1>3, <1>4

(* The calls that are not oneway, and the death of a callback, leave the    *)
(* loop alone.                                                              *)
LEMMA ThreadStepLoop ==
  ASSUME LoopInv, NEW c \in Client, TakeRegister(c) \/ TakeStart(c) \/ CallbackDied(c)
  PROVE  LoopInv'
<1>0. /\ dead \subseteq Client /\ overtaken \subseteq Client
      /\ sessions \in 0..MaxSessions /\ session \in [Client -> 0..MaxSessions]
      /\ at \in [Client -> Where] /\ calls \subseteq ({"register", "start"} \X Client)
      /\ oneway \in Seq(Oneways) /\ posted \in Seq(Ops) /\ callbacks \subseteq All
      /\ closed => callbacks = {} /\ posted = <<>>
  BY Zenon DEF LoopInv, ClientTyped, Closed
<1>1. CASE TakeRegister(c)
  <2>1. /\ calls' \subseteq calls
        /\ callbacks' = IF closed \/ c \in dead THEN callbacks ELSE callbacks \cup {c}
        /\ at' = [at EXCEPT ![c] = "registered"]
        /\ UNCHANGED <<dead, sessions, session, oneway, posted, bandwidthListeners,
                       looper, loops, checks, closed, overtaken>>
    BY Zenon, <1>1 DEF TakeRegister, mainVars
  <2>2. at' \in [Client -> Where] BY Zenon, <1>0, <2>1 DEF Where
  <2>3. callbacks' \subseteq All /\ (closed => callbacks' = {})
    BY Zenon, <1>0, <2>1 DEF All
  <2>4. calls' \subseteq ({"register", "start"} \X Client) BY Zenon, <1>0, <2>1
  <2>5. QED BY Zenon, <1>0, <2>1, <2>2, <2>3, <2>4, MainSame
<1>2. CASE TakeStart(c)
  <2>1. /\ calls' \subseteq calls /\ Post("start", c)
        /\ at' = [at EXCEPT ![c] = "listening"]
        /\ overtaken' \subseteq overtaken \cup {c}
        /\ UNCHANGED <<dead, sessions, session, oneway, callbacks, bandwidthListeners,
                       looper, loops, checks, closed>>
    BY Zenon, <1>2 DEF TakeStart, mainVars
  <2>2. at' \in [Client -> Where] BY Zenon, <1>0, <2>1 DEF Where
  <2>3. overtaken' \subseteq Client BY Zenon, <1>0, <2>1
  <2>4. calls' \subseteq ({"register", "start"} \X Client) BY Zenon, <1>0, <2>1
  <2>5. posted' \in Seq(Ops) /\ (closed => posted' = <<>>) BY Zenon, <2>1, PostTyped
  <2>6. QED BY Zenon, <1>0, <2>1, <2>2, <2>3, <2>4, <2>5, MainSame
<1>3. CASE CallbackDied(c)
  <2>1. /\ callbacks' = callbacks \ {c} /\ Post("stop", c)
        /\ UNCHANGED <<dead, sessions, session, at, calls, oneway, bandwidthListeners,
                       looper, loops, checks, closed, overtaken>>
    BY Zenon, <1>3 DEF CallbackDied, DeathStops, mainVars, clientVars
  <2>2. callbacks' \subseteq All /\ (closed => callbacks' = {})
    BY Zenon, <1>0, <2>1
  <2>3. posted' \in Seq(Ops) /\ (closed => posted' = <<>>) BY Zenon, <2>1, PostTyped
  <2>4. QED BY Zenon, <1>0, <2>1, <2>2, <2>3, MainSame
<1>4. QED BY Zenon, <1>1, <1>2, <1>3

(* The first of the oneway calls.                                           *)
LEMMA FirstOneway ==
  ASSUME LoopInv, oneway # <<>>
  PROVE  /\ Head(oneway) \in Oneways /\ Tail(oneway) \in Seq(Oneways)
         /\ Head(oneway)[1] \in {"unregister", "stop"} /\ Head(oneway)[2] \in Client
         /\ Head(oneway)[3] \in Nat
         /\ Head(oneway) = oneway[1]
<1>1. oneway \in Seq(Oneways) BY Zenon DEF LoopInv, ClientTyped
<1>2. Head(oneway) \in Oneways /\ Tail(oneway) \in Seq(Oneways) /\ Head(oneway) = oneway[1]
  BY <1>1
<1>3. QED BY Zenon, <1>2 DEF Oneways

(* The first of the posted operations is the start or the stop of a client. *)
LEMMA FirstPosted ==
  ASSUME LoopInv, posted # <<>>
  PROVE  /\ Head(posted) \in Ops /\ Tail(posted) \in Seq(Ops)
         /\ Head(posted)[1] \in {"start", "stop"} /\ Head(posted)[2] \in Client
         /\ Head(posted)[2] \in All /\ Head(posted) = posted[1]
<1>1. posted \in Seq(Ops) BY Zenon DEF LoopInv, ClientTyped
<1>2. Head(posted) \in Ops /\ Tail(posted) \in Seq(Ops) /\ Head(posted) = posted[1]
  BY <1>1
<1>3. QED BY Zenon, <1>2 DEF Ops, All

(* A oneway call keeps the invariant of the loop.                           *)
LEMMA OnewayLoop == LoopInv /\ TakeOneway => LoopInv'
<1> SUFFICES ASSUME LoopInv, TakeOneway PROVE LoopInv'
  BY Zenon
<1> DEFINE c == Head(oneway)[2]
<1>1. /\ oneway # <<>> /\ Post("stop", c) /\ oneway' = Tail(oneway)
      /\ callbacks' \subseteq callbacks
      /\ overtaken' \subseteq overtaken \cup {c}
      /\ UNCHANGED <<dead, sessions, session, at, calls, bandwidthListeners, looper,
                     loops, checks, closed>>
  BY Zenon DEF TakeOneway, CallbacksAfter, mainVars, clientVars
<1>2. c \in Client /\ oneway' \in Seq(Oneways) BY Zenon, <1>1, FirstOneway
<1> HIDE DEF c
<1>3. posted' \in Seq(Ops) /\ (closed => posted' = <<>>) BY Zenon, <1>1, <1>2, PostTyped
<1>4. /\ dead \subseteq Client /\ overtaken' \subseteq Client
      /\ sessions \in 0..MaxSessions /\ session \in [Client -> 0..MaxSessions]
      /\ at \in [Client -> Where] /\ calls \subseteq ({"register", "start"} \X Client)
      /\ callbacks' \subseteq All /\ (closed => callbacks' = {})
  BY Zenon, <1>1, <1>2 DEF LoopInv, ClientTyped, Closed
<1>5. QED BY Zenon, <1>1, <1>2, <1>3, <1>4, MainSame

(* A change of the listeners.                                               *)
LEMMA ListenersLoop ==
  ASSUME LoopInv, ~closed, NEW c \in All, Start(c) \/ Stop(c),
         posted' \in Seq(Ops), callbacks' \subseteq All,
         UNCHANGED <<dead, sessions, session, at, calls, oneway, closed, overtaken>>
  PROVE  LoopInv'
<1>1. /\ looper' \in Job \cup {0}
      /\ loops' = IF bandwidthListeners' = {} THEN {} ELSE {looper'}
      /\ looper' = 0 <=> bandwidthListeners' = {}
      /\ checks' \in BOOLEAN /\ checks'
      /\ bandwidthListeners' \subseteq All
  <2>1. bandwidthListeners \subseteq All BY Zenon DEF LoopInv, ClientTyped
  <2>2. CASE Start(c)
    BY Zenon, <2>1, <2>2, StartLoop, JobExists
  <2>3. CASE Stop(c)
    BY Zenon, <2>1, <2>3, StopLoop
  <2>4. QED BY Zenon, <2>2, <2>3
<1>2. loops' \subseteq Job BY Zenon, <1>1
<1>3. ClientTyped' BY <1>1, <1>2 DEF LoopInv, ClientTyped
<1>4. QED BY Zenon, <1>1, <1>3 DEF LoopInv, Closed, OneLoop

(* Every step keeps the invariant of the loop.                              *)
LEMMA LoopStep == LoopInv /\ [Next]_vars => LoopInv'
<1> SUFFICES ASSUME LoopInv, [Next]_vars PROVE LoopInv'
  BY Zenon
<1>0. /\ posted \in Seq(Ops) /\ callbacks \subseteq All /\ Notification \in All
      /\ closed \in BOOLEAN
  BY Zenon DEF LoopInv, ClientTyped, All
<1>1. CASE RunPosted
  <2>1. /\ posted # <<>> /\ posted' = Tail(posted)
        /\ Start(Head(posted)[2]) \/ Stop(Head(posted)[2])
        /\ UNCHANGED <<dead, sessions, session, at, calls, oneway, callbacks, closed,
                       overtaken>>
    BY Zenon, <1>1 DEF RunPosted, clientVars
  <2>2. ~closed BY Zenon, <2>1 DEF LoopInv, Closed
  <2>3. QED BY Zenon, <1>0, <2>1, <2>2, FirstPosted, ListenersLoop
<1>2. CASE TakeOneway
  BY Zenon, <1>2, OnewayLoop
<1>3. CASE ScreenOn
  <2>1. /\ ~closed /\ callbacks' = callbacks \cup {Notification} /\ Start(Notification)
        /\ UNCHANGED <<dead, sessions, session, at, calls, oneway, posted, closed,
                       overtaken>>
    BY Zenon, <1>3 DEF ScreenOn, clientVars
  <2>2. callbacks' \subseteq All BY Zenon, <1>0, <2>1
  <2>3. QED BY Zenon, <1>0, <2>1, <2>2, ListenersLoop
<1>4. CASE ScreenOff
  <2>1. /\ ~closed /\ callbacks' = callbacks \ {Notification} /\ Stop(Notification)
        /\ UNCHANGED <<dead, sessions, session, at, calls, oneway, posted, closed,
                       overtaken>>
    BY Zenon, <1>4 DEF ScreenOff, clientVars
  <2>2. callbacks' \subseteq All BY Zenon, <1>0, <2>1
  <2>3. QED BY Zenon, <1>0, <2>1, <2>2, ListenersLoop
<1>5. CASE Close \/ StartThrows
  <2>1. /\ closed' = TRUE /\ callbacks' = {} /\ loops' = {} /\ posted' = <<>>
        /\ UNCHANGED <<dead, sessions, session, at, calls, oneway, bandwidthListeners,
                       looper, checks, overtaken>>
    BY Zenon, <1>5 DEF Close, StartThrows, Ends, clientVars
  <2>2. closed' \in BOOLEAN /\ closed' BY Zenon, <2>1
  <2>3. ClientTyped' BY <2>1, <2>2 DEF LoopInv, ClientTyped
  <2>4. QED BY Zenon, <2>1, <2>2, <2>3 DEF LoopInv, Closed, OneLoop
<1>6. ASSUME NEW l \in loops, Round(l)
      PROVE  LoopInv'
  <2>1. /\ loops' = IF bandwidthListeners = {} THEN loops \ {l} ELSE loops
        /\ UNCHANGED <<dead, sessions, session, at, calls, oneway, posted, callbacks,
                       bandwidthListeners, looper, checks, closed, overtaken>>
    BY Zenon, <1>6 DEF Round, clientVars
  <2>2. loops # {} BY Zenon, <1>6
  <2>3. loops' = loops BY Zenon, <2>1, <2>2 DEF LoopInv, Closed, OneLoop
  <2>4. QED BY Zenon, <2>1, <2>3 DEF LoopInv, ClientTyped, Closed, OneLoop
<1>7. CASE UNCHANGED vars
  BY Zenon, <1>7 DEF vars, clientVars, mainVars, LoopInv, ClientTyped, Closed, OneLoop
<1>8. QED
  BY <1>1, <1>2, <1>3, <1>4, <1>5, <1>6, <1>7, ClientStepLoop, ThreadStepLoop
     DEF Next, Service

(* While the service lives one loop runs if somebody listens and none if    *)
(* nobody does, the field looper names it, and check(looper == null) and    *)
(* looper!! never fail; a Binder that is closed has nothing left to run.    *)
THEOREM LoopRuns == Spec => []LoopAsNeeded
<1>1. LoopInv => LoopAsNeeded
  <2> SUFFICES ASSUME LoopInv PROVE LoopAsNeeded
    BY Zenon
  <2>1. /\ \A i \in DOMAIN oneway : oneway[i] \in {"unregister", "stop"} \X Client \X Nat
        /\ \A i \in DOMAIN posted : posted[i] \in {"start", "stop"} \X Client
    BY DEF LoopInv, ClientTyped, Oneways, Ops
  <2>2. {closed, checks} \subseteq BOOLEAN
    BY Zenon DEF LoopInv, ClientTyped
  <2>3. TypeOK
    BY Zenon, <2>1, <2>2 DEF LoopInv, ClientTyped, Closed, Where, TypeOK
  <2>4. QED BY Zenon, <2>3 DEF LoopInv, LoopAsNeeded, LooperChecks
<1>2. QED BY <1>1, LoopInit, LoopStep, PTL DEF Spec

-----------------------------------------------------------------------------
(* The clients are served as they asked.                                    *)

(* What one more post does to whether c will listen, and that to run one    *)
(* does nothing.                                                            *)
LEMMA WillAppend ==
  ASSUME NEW q \in Seq(Ops), NEW op \in {"start", "stop"}, NEW d \in Client,
         NEW c \in Client, NEW B
  PROVE  Will(Append(q, <<op, d>>), B, c) <=> IF d = c THEN op = "start" ELSE Will(q, B, c)
<1> DEFINE r == Append(q, <<op, d>>)
<1>1. /\ Len(q) \in Nat /\ Len(r) = Len(q) + 1
      /\ r[Len(q) + 1][1] = op /\ r[Len(q) + 1][2] = d
      /\ \A i \in 1..Len(q) : r[i] = q[i]
  <2>1. <<op, d>> \in Ops BY Zenon DEF Ops
  <2>2. QED BY <2>1
<1> HIDE DEF r
<1>2. /\ \A i \in 1..Len(r) : i \in 1..Len(q) \/ i = Len(q) + 1
      /\ \A i \in 1..Len(q) : i \in 1..Len(r) /\ Len(q) + 1 > i
      /\ Len(q) + 1 \in 1..Len(r)
      /\ \A i \in 1..Len(r) : ~(i > Len(q) + 1)
  BY <1>1
<1>3. CASE d = c
  <2>1. op = "start" => Will(r, B, c)
    BY Zenon, <1>1, <1>2, <1>3 DEF Will
  <2>2. op # "start" => ~Will(r, B, c)
    BY Zenon, <1>1, <1>2, <1>3 DEF Will
  <2>3. QED BY Zenon, <1>3, <2>1, <2>2 DEF r
<1>4. CASE d # c
  <2>1. Will(q, B, c) => Will(r, B, c)
    BY <1>1, <1>2, <1>4 DEF Will
  <2>2. Will(r, B, c) => Will(q, B, c)
    BY <1>1, <1>2, <1>4 DEF Will
  <2>3. QED BY Zenon, <1>4, <2>1, <2>2 DEF r
<1>5. QED BY Zenon, <1>3, <1>4

(* Running the first posted operation does not change what the rest will    *)
(* lead to.                                                                 *)
LEMMA WillTail ==
  ASSUME NEW q \in Seq(Ops), q # <<>>, NEW c \in Client, NEW B, NEW C,
         c \in C <=> IF Head(q)[2] = c THEN Head(q)[1] = "start" ELSE c \in B
  PROVE  Will(Tail(q), C, c) <=> Will(q, B, c)
<1> DEFINE r == Tail(q)
<1>1. /\ Len(q) \in Nat /\ Len(q) >= 1 /\ Len(r) = Len(q) - 1 /\ q[1] = Head(q)
      /\ \A j \in 1..Len(r) : r[j] = q[j + 1]
  OBVIOUS
<1> HIDE DEF r
<1>2. /\ \A j \in 1..Len(r) : j + 1 \in 1..Len(q) /\ j + 1 > 1 /\ r[j] = q[j + 1]
      /\ \A j \in 1..Len(q) : j = 1 \/ (j - 1 \in 1..Len(r) /\ r[j - 1] = q[j] /\ j > 1)
      /\ 1 \in 1..Len(q)
  BY <1>1
<1>3. (\A j \in 1..Len(r) : r[j][2] # c) <=> (\A j \in 1..Len(q) : j > 1 => q[j][2] # c)
  <2>1. ASSUME \A j \in 1..Len(r) : r[j][2] # c, NEW j \in 1..Len(q), j > 1
        PROVE  q[j][2] # c
    <3>1. j - 1 \in 1..Len(r) /\ r[j - 1] = q[j] BY <1>2, <2>1
    <3>2. QED BY Zenon, <2>1, <3>1
  <2>2. ASSUME \A j \in 1..Len(q) : j > 1 => q[j][2] # c, NEW j \in 1..Len(r)
        PROVE  r[j][2] # c
    <3>1. j + 1 \in 1..Len(q) /\ j + 1 > 1 /\ r[j] = q[j + 1] BY Zenon, <1>2
    <3>2. QED BY Zenon, <2>2, <3>1
  <2>3. QED BY Zenon, <2>1, <2>2
<1>4. ASSUME NEW i \in 1..Len(r)
      PROVE  (\A j \in 1..Len(r) : j > i => r[j][2] # c)
               <=> (\A j \in 1..Len(q) : j > i + 1 => q[j][2] # c)
  <2>1. ASSUME \A j \in 1..Len(r) : j > i => r[j][2] # c,
               NEW j \in 1..Len(q), j > i + 1
        PROVE  q[j][2] # c
    <3>1. j - 1 \in 1..Len(r) /\ r[j - 1] = q[j] /\ j - 1 > i
      BY <1>2, <2>1
    <3>2. QED BY Zenon, <2>1, <3>1
  <2>2. ASSUME \A j \in 1..Len(q) : j > i + 1 => q[j][2] # c,
               NEW j \in 1..Len(r), j > i
        PROVE  r[j][2] # c
    <3>1. j + 1 \in 1..Len(q) /\ r[j] = q[j + 1] /\ j + 1 > i + 1
      BY <1>2, <2>2
    <3>2. QED BY Zenon, <2>2, <3>1
  <2>3. QED BY Zenon, <2>1, <2>2
<1>5. ASSUME Will(q, B, c) PROVE Will(r, C, c)
  <2>1. CASE \E i \in 1..Len(q) : /\ q[i][1] = "start" /\ q[i][2] = c
                                  /\ \A j \in 1..Len(q) : j > i => q[j][2] # c
    <3>1. PICK i \in 1..Len(q) : /\ q[i][1] = "start" /\ q[i][2] = c
                                 /\ \A j \in 1..Len(q) : j > i => q[j][2] # c
      BY Zenon, <2>1
    <3>2. CASE i = 1
      BY Zenon, <1>1, <1>3, <3>1, <3>2 DEF Will
    <3>3. CASE i # 1
      <4>1. /\ i - 1 \in 1..Len(r) /\ r[i - 1] = q[i] /\ (i - 1) + 1 = i
        BY <1>2, <3>3
      <4>2. \A j \in 1..Len(r) : j > i - 1 => r[j][2] # c
        BY Zenon, <1>4, <3>1, <4>1
      <4>3. QED BY Zenon, <3>1, <4>1, <4>2 DEF Will
    <3>4. QED BY Zenon, <3>2, <3>3
  <2>2. CASE c \in B /\ \A j \in 1..Len(q) : q[j][2] # c
    BY <1>1, <1>2, <1>3, <2>2 DEF Will
  <2>3. QED BY Zenon, <1>5, <2>1, <2>2 DEF Will
<1>6. ASSUME Will(r, C, c) PROVE Will(q, B, c)
  <2>1. CASE \E i \in 1..Len(r) : /\ r[i][1] = "start" /\ r[i][2] = c
                                  /\ \A j \in 1..Len(r) : j > i => r[j][2] # c
    <3>1. PICK i \in 1..Len(r) : /\ r[i][1] = "start" /\ r[i][2] = c
                                 /\ \A j \in 1..Len(r) : j > i => r[j][2] # c
      BY Zenon, <2>1
    <3>2. /\ i + 1 \in 1..Len(q) /\ q[i + 1] = r[i]
          /\ \A j \in 1..Len(q) : j > i + 1 => q[j][2] # c
      BY Zenon, <1>2, <1>4, <3>1
    <3>3. QED BY Zenon, <3>1, <3>2 DEF Will
  <2>2. CASE c \in C /\ \A j \in 1..Len(r) : r[j][2] # c
    <3>1. \A j \in 1..Len(q) : j > 1 => q[j][2] # c BY <1>3, <2>2
    <3>2. CASE Head(q)[2] = c
      BY Zenon, <1>1, <1>2, <2>2, <3>1, <3>2 DEF Will
    <3>3. CASE Head(q)[2] # c
      BY <1>1, <1>2, <2>2, <3>1, <3>3 DEF Will
    <3>4. QED BY Zenon, <3>2, <3>3
  <2>3. QED BY Zenon, <1>6, <2>1, <2>2 DEF Will
<1>7. QED BY Zenon, <1>5, <1>6 DEF r

(* The oneway calls of c that wait, when the first is taken and when two    *)
(* more are made.                                                           *)
LEMMA OnewayTail ==
  ASSUME NEW q \in Seq(Oneways), q # <<>>, NEW c \in Client, NEW n
  PROVE  /\ Pending(q, c) <=> (Head(q)[2] = c \/ Pending(Tail(q), c))
         /\ Unregisters(q, c) <=> \/ Head(q)[1] = "unregister" /\ Head(q)[2] = c
                                  \/ Unregisters(Tail(q), c)
         /\ Stale(q, c, n) <=> \/ Head(q)[2] = c /\ Head(q)[3] # n
                               \/ Stale(Tail(q), c, n)
<1> DEFINE r == Tail(q)
<1>1. /\ Len(q) \in Nat /\ Len(q) >= 1 /\ Len(r) = Len(q) - 1 /\ q[1] = Head(q)
      /\ \A j \in 1..Len(r) : r[j] = q[j + 1]
  OBVIOUS
<1> HIDE DEF r
<1>2. /\ \A j \in 1..Len(r) : j + 1 \in 1..Len(q) /\ r[j] = q[j + 1]
      /\ \A j \in 1..Len(q) : j = 1 \/ (j - 1 \in 1..Len(r) /\ r[j - 1] = q[j])
      /\ 1 \in 1..Len(q)
  BY <1>1
<1>3. Pending(q, c) <=> (Head(q)[2] = c \/ Pending(r, c))
  BY <1>1, <1>2 DEF Pending
<1>4. Unregisters(q, c) <=> \/ Head(q)[1] = "unregister" /\ Head(q)[2] = c
                            \/ Unregisters(r, c)
  <2>1. ASSUME NEW j \in 1..Len(q), q[j][1] = "unregister", q[j][2] = c, j # 1
        PROVE  Unregisters(r, c)
    <3>1. j - 1 \in 1..Len(r) /\ r[j - 1] = q[j] BY Zenon, <1>2, <2>1
    <3>2. QED BY Zenon, <2>1, <3>1 DEF Unregisters
  <2>2. ASSUME NEW j \in 1..Len(r), r[j][1] = "unregister", r[j][2] = c
        PROVE  Unregisters(q, c)
    <3>1. j + 1 \in 1..Len(q) /\ r[j] = q[j + 1] BY Zenon, <1>2
    <3>2. QED BY Zenon, <2>2, <3>1 DEF Unregisters
  <2>3. QED BY Zenon, <1>1, <1>2, <2>1, <2>2 DEF Unregisters
<1>5. Stale(q, c, n) <=> \/ Head(q)[2] = c /\ Head(q)[3] # n
                         \/ Stale(r, c, n)
  <2>1. ASSUME NEW j \in 1..Len(q), q[j][2] = c, q[j][3] # n, j # 1
        PROVE  Stale(r, c, n)
    <3>1. j - 1 \in 1..Len(r) /\ r[j - 1] = q[j] BY Zenon, <1>2, <2>1
    <3>2. QED BY Zenon, <2>1, <3>1 DEF Stale
  <2>2. ASSUME NEW j \in 1..Len(r), r[j][2] = c, r[j][3] # n
        PROVE  Stale(q, c, n)
    <3>1. j + 1 \in 1..Len(q) /\ r[j] = q[j + 1] BY Zenon, <1>2
    <3>2. QED BY Zenon, <2>2, <3>1 DEF Stale
  <2>3. QED BY Zenon, <1>1, <1>2, <2>1, <2>2 DEF Stale
<1>6. QED BY Zenon, <1>3, <1>4, <1>5 DEF r

(* What a client that unregisters and stops adds to the calls under way.    *)
LEMMA OnewayTwo ==
  ASSUME NEW q \in Seq(Oneways), NEW d \in Client, NEW n \in Nat, NEW c \in Client, NEW m
  PROVE  LET r == q \o <<<<"unregister", d, n>>, <<"stop", d, n>>>> IN
         /\ Pending(r, c) <=> (d = c \/ Pending(q, c))
         /\ Unregisters(r, c) <=> (d = c \/ Unregisters(q, c))
         /\ Stale(r, c, m) <=> ((d = c /\ n # m) \/ Stale(q, c, m))
         /\ Len(q) \in Nat
         /\ \A i \in 1..Len(r) : r[i][3] = n \/ (i \in 1..Len(q) /\ r[i] = q[i])
<1> DEFINE a == <<"unregister", d, n>>
           b == <<"stop", d, n>>
           r == q \o <<a, b>>
<1>0. a \in Oneways /\ b \in Oneways BY Zenon DEF Oneways
<1>1. /\ a[1] = "unregister" /\ a[2] = d /\ a[3] = n
      /\ b[1] = "stop" /\ b[2] = d /\ b[3] = n
  BY Zenon
<1> HIDE DEF a, b
<1>2. /\ Len(q) \in Nat /\ Len(r) = Len(q) + 2
      /\ r[Len(q) + 1] = a /\ r[Len(q) + 2] = b
      /\ \A i \in 1..Len(q) : r[i] = q[i]
  BY <1>0
<1> HIDE DEF r
<1>3. /\ \A i \in 1..Len(r) : i \in 1..Len(q) \/ i = Len(q) + 1 \/ i = Len(q) + 2
      /\ \A i \in 1..Len(q) : i \in 1..Len(r)
      /\ Len(q) + 1 \in 1..Len(r) /\ Len(q) + 2 \in 1..Len(r)
  BY <1>2
<1>4. Pending(r, c) <=> (d = c \/ Pending(q, c))
  BY Zenon, <1>1, <1>2, <1>3 DEF Pending
<1>5. Unregisters(r, c) <=> (d = c \/ Unregisters(q, c))
  BY Zenon, <1>1, <1>2, <1>3 DEF Unregisters
<1>6. Stale(r, c, m) <=> ((d = c /\ n # m) \/ Stale(q, c, m))
  <2>1. Stale(r, c, m) => ((d = c /\ n # m) \/ Stale(q, c, m))
    BY Zenon, <1>1, <1>2, <1>3 DEF Stale
  <2>2. d = c /\ n # m => Stale(r, c, m) BY Zenon, <1>1, <1>2, <1>3 DEF Stale
  <2>3. Stale(q, c, m) => Stale(r, c, m) BY Zenon, <1>2, <1>3 DEF Stale
  <2>4. QED BY Zenon, <2>1, <2>2, <2>3
<1>7. \A i \in 1..Len(r) : r[i][3] = n \/ (i \in 1..Len(q) /\ r[i] = q[i])
  BY Zenon, <1>1, <1>2, <1>3
<1>8. QED BY Zenon, <1>2, <1>4, <1>5, <1>6, <1>7 DEF r, a, b

-----------------------------------------------------------------------------
(* The calls are in order at first.                                         *)
LEMMA CallingInit == Init => Calling
BY ClientAssumption DEF Init, Calling

(* A step that leaves alone all that concerns c, or overtakes it.           *)
LEMMA ServingSame ==
  ASSUME NEW c \in Client, Orderly(c) => Serving(c), at'[c] = at[c],
         c \in callbacks' <=> c \in callbacks, c \in dead => c \in dead',
         c \in overtaken => c \in overtaken',
         Will(posted, bandwidthListeners, c)' <=> Will(posted, bandwidthListeners, c),
         Pending(oneway, c)' <=> Pending(oneway, c),
         Unregisters(oneway, c)' <=> Unregisters(oneway, c),
         Stale(oneway, c, session[c]) => Stale(oneway, c, session[c])'
  PROVE  Orderly(c)' => Serving(c)'
BY Zenon DEF Orderly, Serving

(* A client that registers.                                                 *)
LEMMA RegisterServes ==
  ASSUME ClientInv, NEW d \in Client, Register(d)
  PROVE  ClientInv'
<1>0. /\ at[d] = "out" /\ sessions' = sessions + 1
      /\ session' = [session EXCEPT ![d] = sessions']
      /\ at' = [at EXCEPT ![d] = "registering"]
      /\ calls' = calls \cup {<<"register", d>>}
      /\ UNCHANGED <<dead, oneway, posted, callbacks, bandwidthListeners, closed, overtaken>>
  BY Zenon DEF Register, mainVars
<1>1. LoopInv' BY Zenon, ClientStepLoop DEF ClientInv
<1>2. /\ sessions \in Nat /\ session \in [Client -> Nat] /\ at \in [Client -> Where]
      /\ oneway \in Seq(Oneways)
  BY ClientAssumption DEF ClientInv, LoopInv, ClientTyped
<1>3. /\ at'[d] = "registering" /\ session'[d] = sessions + 1
      /\ \A c \in Client : c # d => at'[c] = at[c] /\ session'[c] = session[c]
  BY Zenon, <1>0, <1>2
<1>4. \A i \in 1..Len(oneway) : oneway[i][3] \in Nat /\ oneway[i][3] <= sessions
  BY <1>2 DEF ClientInv, Calling, Oneways
<1>5. Calling'
  <2>1. \A c \in Client : /\ <<"register", c>> \in calls' <=> at'[c] = "registering"
                          /\ <<"start", c>> \in calls' <=> at'[c] = "starting"
    BY Zenon, <1>0, <1>3 DEF ClientInv, Calling
  <2>2. \A c \in Client : session'[c] <= sessions'
    BY <1>0, <1>2, <1>3 DEF ClientInv, Calling
  <2>3. \A i \in 1..Len(oneway) : oneway[i][3] <= sessions'
    BY <1>0, <1>2, <1>4
  <2>4. QED BY Zenon, <1>0, <2>1, <2>2, <2>3 DEF Calling
<1>6. ASSUME ~closed', NEW c \in Client
      PROVE  Orderly(c)' => Serving(c)'
  <2>0. Orderly(c) => Serving(c) BY Zenon, <1>0, <1>6 DEF ClientInv
  <2>1. CASE c = d
    <3>1. SUFFICES ASSUME Orderly(c)' PROVE Serving(c)'
      BY Zenon
    <3>2. ~Pending(oneway, c)
      <4>1. SUFFICES ASSUME NEW i \in 1..Len(oneway), oneway[i][2] = c PROVE FALSE
        BY Zenon DEF Pending
      <4>2. oneway[i][3] # sessions + 1 BY <1>2, <1>4
      <4>3. Stale(oneway, c, sessions + 1) BY Zenon, <4>1, <4>2 DEF Stale
      <4>4. QED BY Zenon, <3>1, <4>3, <1>0, <1>3, <2>1 DEF Orderly
    <3>3. ~Stale(oneway, c, session[c]) /\ ~Unregisters(oneway, c)
      BY Zenon, <3>2 DEF Pending, Stale, Unregisters
    <3>4. Serving(c) BY <1>0, <2>0, <3>1, <3>3 DEF Orderly
    <3>5. c \notin callbacks /\ ~Will(posted, bandwidthListeners, c)
      BY Zenon, <1>0, <2>1, <3>2, <3>3, <3>4 DEF Serving
    <3>6. QED BY Zenon, <1>0, <1>3, <2>1, <3>2, <3>5 DEF Serving
  <2>2. CASE c # d
    BY <1>0, <1>3, <2>0, <2>2, ServingSame
  <2>3. QED BY Zenon, <2>1, <2>2
<1>7. QED BY Zenon, <1>1, <1>5, <1>6 DEF ClientInv

(* A client that asks for the traffic.                                      *)
LEMMA StartListeningServes ==
  ASSUME ClientInv, NEW d \in Client, StartListening(d)
  PROVE  ClientInv'
<1>0. /\ at[d] = "registered" /\ at' = [at EXCEPT ![d] = "starting"]
      /\ calls' = calls \cup {<<"start", d>>}
      /\ UNCHANGED <<dead, sessions, session, oneway, posted, callbacks,
                     bandwidthListeners, closed, overtaken>>
  BY Zenon DEF StartListening, mainVars
<1>1. LoopInv' BY Zenon, ClientStepLoop DEF ClientInv
<1>2. at \in [Client -> Where] BY Zenon DEF ClientInv, LoopInv, ClientTyped
<1>3. at'[d] = "starting" /\ \A c \in Client : c # d => at'[c] = at[c]
  BY Zenon, <1>0, <1>2
<1>4. Calling' BY Zenon, <1>0, <1>3 DEF ClientInv, Calling
<1>5. ASSUME ~closed', NEW c \in Client
      PROVE  Orderly(c)' => Serving(c)'
  <2>0. Orderly(c) => Serving(c) BY <1>0, <1>5 DEF ClientInv
  <2>1. CASE c = d
    BY Zenon, <1>0, <1>3, <2>0, <2>1 DEF Orderly, Serving
  <2>2. CASE c # d
    BY <1>0, <1>3, <2>0, <2>2, ServingSame
  <2>3. QED BY Zenon, <2>1, <2>2
<1>6. QED BY Zenon, <1>1, <1>4, <1>5 DEF ClientInv

(* A client that disconnects.                                               *)
LEMMA DisconnectServes ==
  ASSUME ClientInv, NEW d \in Client, Disconnect(d)
  PROVE  ClientInv'
<1>0. /\ at[d] = "listening" /\ at' = [at EXCEPT ![d] = "out"]
      /\ oneway' = oneway \o <<<<"unregister", d, session[d]>>, <<"stop", d, session[d]>>>>
      /\ UNCHANGED <<dead, sessions, session, calls, posted, callbacks,
                     bandwidthListeners, closed, overtaken>>
  BY Zenon DEF Disconnect, mainVars
<1>1. LoopInv' BY Zenon, ClientStepLoop DEF ClientInv
<1>2. /\ at \in [Client -> Where] /\ oneway \in Seq(Oneways) /\ session[d] \in Nat
  BY ClientAssumption DEF ClientInv, LoopInv, ClientTyped
<1>3. at'[d] = "out" /\ \A c \in Client : c # d => at'[c] = at[c]
  BY Zenon, <1>0, <1>2
<1>4. ASSUME NEW c \in Client
      PROVE  /\ Pending(oneway', c) <=> (d = c \/ Pending(oneway, c))
             /\ Unregisters(oneway', c) <=> (d = c \/ Unregisters(oneway, c))
             /\ Stale(oneway', c, session[c])
                  <=> ((d = c /\ session[d] # session[c]) \/ Stale(oneway, c, session[c]))
  BY Zenon, <1>0, <1>2, OnewayTwo
<1>5. \A i \in 1..Len(oneway') :
        oneway'[i][3] = session[d] \/ (i \in 1..Len(oneway) /\ oneway'[i] = oneway[i])
  BY <1>0, <1>2, OnewayTwo
<1>6. Calling'
  <2>1. \A i \in 1..Len(oneway') : oneway'[i][3] <= sessions
    BY Zenon, <1>5 DEF ClientInv, Calling
  <2>2. QED BY Zenon, <1>0, <1>3, <2>1 DEF ClientInv, Calling
<1>7. ASSUME ~closed', NEW c \in Client
      PROVE  Orderly(c)' => Serving(c)'
  <2>0. Orderly(c) => Serving(c) BY Zenon, <1>0, <1>7 DEF ClientInv
  <2>1. CASE c = d
    BY Zenon, <1>0, <1>3, <1>4, <2>0, <2>1 DEF Orderly, Serving
  <2>2. CASE c # d
    BY Zenon, <1>0, <1>3, <1>4, <2>0, <2>2, ServingSame
  <2>3. QED BY Zenon, <2>1, <2>2
<1>8. QED BY Zenon, <1>1, <1>6, <1>7 DEF ClientInv

(* A client that dies.                                                      *)
LEMMA DieServes ==
  ASSUME ClientInv, NEW d \in Client, Die(d)
  PROVE  ClientInv'
<1>0. /\ dead' = dead \cup {d}
      /\ UNCHANGED <<sessions, session, at, calls, oneway, posted, callbacks,
                     bandwidthListeners, closed, overtaken>>
  BY Zenon DEF Die, mainVars
<1>1. LoopInv' BY Zenon, ClientStepLoop DEF ClientInv
<1>2. Calling' BY Zenon, <1>0 DEF ClientInv, Calling
<1>3. ASSUME ~closed', NEW c \in Client
      PROVE  Orderly(c)' => Serving(c)'
  <2>0. Orderly(c) => Serving(c) BY Zenon, <1>0, <1>3 DEF ClientInv
  <2>1. QED BY Zenon, <1>0, <2>0, ServingSame
<1>4. QED BY Zenon, <1>1, <1>2, <1>3 DEF ClientInv

(* The service takes a registration.                                        *)
LEMMA TakeRegisterServes ==
  ASSUME ClientInv, NEW d \in Client, TakeRegister(d)
  PROVE  ClientInv'
<1>0. /\ <<"register", d>> \in calls /\ calls' = calls \ {<<"register", d>>}
      /\ callbacks' = IF closed \/ d \in dead THEN callbacks ELSE callbacks \cup {d}
      /\ at' = [at EXCEPT ![d] = "registered"]
      /\ UNCHANGED <<dead, sessions, session, oneway, posted, bandwidthListeners, closed,
                     overtaken>>
  BY Zenon DEF TakeRegister, mainVars
<1>1. LoopInv' BY Zenon, ThreadStepLoop DEF ClientInv
<1>2. at \in [Client -> Where] BY Zenon DEF ClientInv, LoopInv, ClientTyped
<1>3. /\ at'[d] = "registered" /\ at[d] = "registering"
      /\ \A c \in Client : c # d => at'[c] = at[c]
  BY Zenon, <1>0, <1>2 DEF ClientInv, Calling
<1>4. Calling' BY Zenon, <1>0, <1>3 DEF ClientInv, Calling
<1>5. ASSUME ~closed', NEW c \in Client
      PROVE  Orderly(c)' => Serving(c)'
  <2>0. Orderly(c) => Serving(c) BY Zenon, <1>0, <1>5 DEF ClientInv
  <2>1. CASE c = d
    BY <1>0, <1>3, <1>5, <2>0, <2>1 DEF Orderly, Serving
  <2>2. CASE c # d
    BY Zenon, <1>0, <1>3, <2>0, <2>2, ServingSame
  <2>3. QED BY Zenon, <2>1, <2>2
<1>6. QED BY Zenon, <1>1, <1>4, <1>5 DEF ClientInv

(* A post by a thread of the service, while the Binder is open.             *)
LEMMA PostWill ==
  ASSUME ClientInv, ~closed, NEW op \in {"start", "stop"}, NEW d \in Client, Post(op, d),
         NEW c \in Client
  PROVE  Will(posted', bandwidthListeners, c)
           <=> IF d = c THEN op = "start" ELSE Will(posted, bandwidthListeners, c)
<1>1. posted \in Seq(Ops) /\ posted' = Append(posted, <<op, d>>)
  BY Zenon DEF Post, ClientInv, LoopInv, ClientTyped
<1>2. QED BY Zenon, <1>1, WillAppend

(* The service takes a request for the traffic.                             *)
LEMMA TakeStartServes ==
  ASSUME ClientInv, NEW d \in Client, TakeStart(d)
  PROVE  ClientInv'
<1>0. /\ <<"start", d>> \in calls /\ calls' = calls \ {<<"start", d>>}
      /\ Post("start", d)
      /\ at' = [at EXCEPT ![d] = "listening"]
      /\ overtaken' = IF d \in callbacks THEN overtaken ELSE overtaken \cup {d}
      /\ UNCHANGED <<dead, sessions, session, oneway, callbacks, bandwidthListeners, closed>>
  BY Zenon DEF TakeStart, mainVars
<1>1. LoopInv' BY Zenon, ThreadStepLoop DEF ClientInv
<1>2. at \in [Client -> Where] BY Zenon DEF ClientInv, LoopInv, ClientTyped
<1>3. /\ at'[d] = "listening" /\ at[d] = "starting"
      /\ \A c \in Client : c # d => at'[c] = at[c]
  BY Zenon, <1>0, <1>2 DEF ClientInv, Calling
<1>4. Calling' BY Zenon, <1>0, <1>3 DEF ClientInv, Calling
<1>5. ASSUME ~closed', NEW c \in Client
      PROVE  Orderly(c)' => Serving(c)'
  <2>0. Orderly(c) => Serving(c) BY Zenon, <1>0, <1>5 DEF ClientInv
  <2>1. Will(posted', bandwidthListeners, c)
          <=> (d = c \/ Will(posted, bandwidthListeners, c))
    BY Zenon, <1>0, <1>5, PostWill
  <2>2. CASE c = d
    BY <1>0, <1>3, <2>0, <2>1, <2>2 DEF Orderly, Serving
  <2>3. CASE c # d
    BY <1>0, <1>3, <2>0, <2>1, <2>3, ServingSame
  <2>4. QED BY Zenon, <2>2, <2>3
<1>6. QED BY Zenon, <1>1, <1>4, <1>5 DEF ClientInv

(* The service is told that a client died.                                  *)
LEMMA CallbackDiedServes ==
  ASSUME ClientInv, NEW d \in Client, CallbackDied(d)
  PROVE  ClientInv'
<1>0. /\ d \in dead /\ callbacks' = callbacks \ {d} /\ Post("stop", d)
      /\ UNCHANGED <<dead, sessions, session, at, calls, oneway, bandwidthListeners,
                     closed, overtaken>>
  BY DEF CallbackDied, DeathStops, mainVars, clientVars
<1>1. LoopInv' BY Zenon, ThreadStepLoop DEF ClientInv
<1>2. Calling' BY Zenon, <1>0 DEF ClientInv, Calling
<1>3. ASSUME ~closed', NEW c \in Client
      PROVE  Orderly(c)' => Serving(c)'
  <2>0. Orderly(c) => Serving(c) BY Zenon, <1>0, <1>3 DEF ClientInv
  <2>1. Will(posted', bandwidthListeners, c)
          <=> (d # c /\ Will(posted, bandwidthListeners, c))
    BY Zenon, <1>0, <1>3, PostWill
  <2>2. CASE c = d
    BY <1>0, <2>0, <2>1, <2>2 DEF Orderly, Serving
  <2>3. CASE c # d
    BY Zenon, <1>0, <2>0, <2>1, <2>3, ServingSame
  <2>4. QED BY Zenon, <2>2, <2>3
<1>4. QED BY Zenon, <1>1, <1>2, <1>3 DEF ClientInv

(* A oneway call of the session the client is in finds it out, and stops    *)
(* it; one of an earlier session makes the client overtaken.                *)
LEMMA OnewayServes == ClientInv /\ TakeOneway => ClientInv'
<1> SUFFICES ASSUME ClientInv, TakeOneway PROVE ClientInv'
  BY Zenon
<1> DEFINE op == Head(oneway)[1]
           d  == Head(oneway)[2]
           n  == Head(oneway)[3]
<1>0. /\ oneway # <<>> /\ oneway' = Tail(oneway) /\ Post("stop", d)
      /\ callbacks' = IF op = "unregister" THEN callbacks \ {d} ELSE callbacks
      /\ overtaken' = IF n = session[d] THEN overtaken ELSE overtaken \cup {d}
      /\ UNCHANGED <<dead, sessions, session, at, calls, bandwidthListeners, closed>>
  BY Zenon DEF TakeOneway, CallbacksAfter, mainVars, clientVars
<1>1. LoopInv' BY Zenon, OnewayLoop DEF ClientInv
<1>2. /\ d \in Client /\ oneway \in Seq(Oneways)
      /\ op \in {"unregister", "stop"}
  BY Zenon, <1>0, FirstOneway DEF ClientInv, LoopInv, ClientTyped
<1>3. Calling'
  <2>1. \A i \in 1..Len(oneway') : i + 1 \in 1..Len(oneway) /\ oneway'[i] = oneway[i + 1]
    BY <1>0, <1>2
  <2>2. \A i \in 1..Len(oneway') : oneway'[i][3] <= sessions
    BY <2>1 DEF ClientInv, Calling
  <2>3. QED BY Zenon, <1>0, <2>2 DEF ClientInv, Calling
<1>4. ASSUME NEW c \in Client
      PROVE  /\ Pending(oneway, c) <=> (d = c \/ Pending(oneway', c))
             /\ Unregisters(oneway, c)
                  <=> ((op = "unregister" /\ d = c) \/ Unregisters(oneway', c))
             /\ Stale(oneway, c, session[c])
                  <=> ((d = c /\ n # session[c]) \/ Stale(oneway', c, session[c]))
  BY Zenon, <1>0, <1>2, OnewayTail
<1> HIDE DEF op, d, n
<1>5. ASSUME ~closed', NEW c \in Client
      PROVE  Orderly(c)' => Serving(c)'
  <2>0. Orderly(c) => Serving(c) BY Zenon, <1>0, <1>5 DEF ClientInv
  <2>1. Will(posted', bandwidthListeners, c)
          <=> (d # c /\ Will(posted, bandwidthListeners, c))
    BY <1>0, <1>2, <1>5, PostWill
  <2>2. CASE c = d
    <3>1. SUFFICES ASSUME Orderly(c)' PROVE Serving(c)'
      BY Zenon
    <3>2. Orderly(c) /\ Serving(c)
      BY Zenon, <1>0, <1>4, <2>0, <2>2, <3>1 DEF Orderly
    <3>3. at[c] = "out" BY <1>4, <2>2, <3>2 DEF Serving
    <3>4. c \in callbacks' => Unregisters(oneway', c)
      BY Zenon, <1>0, <1>4, <2>2, <3>2, <3>3 DEF Serving
    <3>5. QED BY Zenon, <1>0, <2>1, <2>2, <3>3, <3>4 DEF Serving
  <2>3. CASE c # d
    <3>1. /\ c \in callbacks' <=> c \in callbacks
          /\ c \in overtaken => c \in overtaken'
          /\ Will(posted', bandwidthListeners', c) <=> Will(posted, bandwidthListeners, c)
      BY Zenon, <1>0, <2>1, <2>3
    <3>2. /\ Pending(oneway', c) <=> Pending(oneway, c)
          /\ Unregisters(oneway', c) <=> Unregisters(oneway, c)
          /\ Stale(oneway, c, session[c]) => Stale(oneway', c, session'[c])
      BY Zenon, <1>0, <1>4, <2>3
    <3>3. at'[c] = at[c] /\ (c \in dead => c \in dead') BY Zenon, <1>0
    <3>4. QED BY Zenon, <2>0, <3>1, <3>2, <3>3, ServingSame
  <2>4. QED BY Zenon, <2>2, <2>3
<1>6. QED BY Zenon, <1>1, <1>3, <1>5 DEF ClientInv

(* The service runs a posted operation.                                     *)
LEMMA RunPostedServes == ClientInv /\ RunPosted => ClientInv'
<1> SUFFICES ASSUME ClientInv, RunPosted PROVE ClientInv'
  BY Zenon
<1> DEFINE d == Head(posted)[2]
<1>0. /\ posted # <<>> /\ posted' = Tail(posted)
      /\ bandwidthListeners' = IF Head(posted)[1] = "start" THEN bandwidthListeners \cup {d}
                               ELSE bandwidthListeners \ {d}
      /\ UNCHANGED <<dead, sessions, session, at, calls, oneway, callbacks, closed,
                     overtaken>>
  BY Zenon DEF RunPosted, Start, Stop, clientVars
<1>1. LoopInv' BY Zenon, LoopStep DEF ClientInv, Next, Service
<1>2. Calling' BY Zenon, <1>0 DEF ClientInv, Calling
<1>3. ASSUME ~closed', NEW c \in Client
      PROVE  Orderly(c)' => Serving(c)'
  <2>0. Orderly(c) => Serving(c) BY Zenon, <1>0, <1>3 DEF ClientInv
  <2>1. posted \in Seq(Ops) BY Zenon DEF ClientInv, LoopInv, ClientTyped
  <2>2. c \in bandwidthListeners'
          <=> IF Head(posted)[2] = c THEN Head(posted)[1] = "start"
              ELSE c \in bandwidthListeners
    BY Zenon, <1>0
  <2>3. Will(posted', bandwidthListeners', c) <=> Will(posted, bandwidthListeners, c)
    <3>1. PICK q \in Seq(Ops) : q = posted BY Zenon, <2>1
    <3>2. q # <<>> /\ posted' = Tail(q) BY Zenon, <1>0, <3>1
    <3>3. Will(Tail(q), bandwidthListeners', c) <=> Will(q, bandwidthListeners, c)
      BY Zenon, <2>2, <3>1, <3>2, WillTail
    <3>4. QED BY Zenon, <3>1, <3>2, <3>3
  <2>4. QED BY Zenon, <1>0, <2>0, <2>3, ServingSame
<1>4. QED BY Zenon, <1>1, <1>2, <1>3 DEF ClientInv

(* The notification is none of the clients.                                 *)
LEMMA ScreenServes == ClientInv /\ (ScreenOn \/ ScreenOff) => ClientInv'
<1> SUFFICES ASSUME ClientInv, ScreenOn \/ ScreenOff PROVE ClientInv'
  BY Zenon
<1>0. /\ \A c \in Client : /\ c \in callbacks' <=> c \in callbacks
                           /\ c \in bandwidthListeners' <=> c \in bandwidthListeners
      /\ UNCHANGED <<dead, sessions, session, at, calls, oneway, posted, closed, overtaken>>
  BY Zenon, ClientAssumption DEF ScreenOn, ScreenOff, Start, Stop, clientVars
<1>1. LoopInv' BY Zenon, LoopStep DEF ClientInv, Next
<1>2. Calling' BY Zenon, <1>0 DEF ClientInv, Calling
<1>3. ASSUME ~closed', NEW c \in Client
      PROVE  Orderly(c)' => Serving(c)'
  <2>0. Orderly(c) => Serving(c) BY Zenon, <1>0, <1>3 DEF ClientInv
  <2>1. Will(posted', bandwidthListeners', c) <=> Will(posted, bandwidthListeners, c)
    BY Zenon, <1>0 DEF Will
  <2>2. QED BY Zenon, <1>0, <2>0, <2>1, ServingSame
<1>4. QED BY Zenon, <1>1, <1>2, <1>3 DEF ClientInv

(* The invariant of the clients holds at first.                             *)
LEMMA ClientInit == Init => ClientInv
<1> SUFFICES ASSUME Init PROVE ClientInv
  BY Zenon
<1>1. \A c \in Client : Serving(c)
  BY DEF Init, Serving, Will, Pending, Unregisters
<1>2. QED BY Zenon, <1>1, LoopInit, CallingInit DEF ClientInv

(* Every step keeps the invariant of the clients.                           *)
LEMMA ClientStep == ClientInv /\ [Next]_vars => ClientInv'
<1> SUFFICES ASSUME ClientInv, [Next]_vars PROVE ClientInv'
  BY Zenon
<1>0. LoopInv' BY Zenon, LoopStep DEF ClientInv
<1>1. CASE Close \/ StartThrows
  <2>1. closed' = TRUE /\ UNCHANGED <<sessions, session, at, calls, oneway>>
    BY Zenon, <1>1 DEF Close, StartThrows, Ends, clientVars
  <2>2. closed' BY Zenon, <2>1
  <2>3. QED BY Zenon, <1>0, <2>1, <2>2 DEF ClientInv, Calling
<1>2. CASE UNCHANGED <<dead, sessions, session, at, calls, oneway, posted, callbacks,
                       bandwidthListeners, closed, overtaken>>
  <2>1. Calling' BY Zenon, <1>2 DEF ClientInv, Calling
  <2>2. ASSUME ~closed', NEW c \in Client
        PROVE  Orderly(c)' => Serving(c)'
    <3>1. Orderly(c) => Serving(c) BY Zenon, <1>2, <2>2 DEF ClientInv
    <3>2. QED BY Zenon, <1>2, <3>1, ServingSame
  <2>3. QED BY Zenon, <1>0, <2>1, <2>2 DEF ClientInv
<1>3. ASSUME NEW l \in loops, Round(l)
      PROVE  ClientInv'
  <2>1. UNCHANGED <<dead, sessions, session, at, calls, oneway, posted, callbacks,
                    bandwidthListeners, closed, overtaken>>
    BY Zenon, <1>3 DEF Round, clientVars
  <2>2. QED BY Zenon, <1>2, <2>1
<1>4. CASE UNCHANGED vars
  BY Zenon, <1>2, <1>4 DEF vars, clientVars, mainVars
<1>5. QED
  BY <1>1, <1>3, <1>4, RegisterServes, StartListeningServes, DisconnectServes, DieServes,
     TakeRegisterServes, TakeStartServes, CallbackDiedServes, OnewayServes,
     RunPostedServes, ScreenServes
     DEF Next, Service

(* When every call has been taken, the clients that listen, and those that  *)
(* are registered, are those that asked to and live, except clients whose   *)
(* calls were taken out of order.                                           *)
THEOREM ClientsServed == Spec => []ServedAsAsked
<1>1. ClientInv => ServedAsAsked
  <2>1. SUFFICES ASSUME ClientInv, Quiet, ~closed, NEW c \in Client \ overtaken
                 PROVE  /\ c \in bandwidthListeners <=> c \notin dead /\ at[c] = "listening"
                        /\ c \in callbacks
                             <=> c \notin dead /\ at[c] \in {"registered", "listening"}
    BY Zenon DEF ServedAsAsked
  <2>2. ~Pending(oneway, c) /\ ~Unregisters(oneway, c) /\ ~Stale(oneway, c, session[c])
    BY <2>1 DEF Quiet, Pending, Unregisters, Stale
  <2>3. Will(posted, bandwidthListeners, c) <=> c \in bandwidthListeners
    BY <2>1 DEF Quiet, Will
  <2>4. Serving(c) BY Zenon, <2>1, <2>2 DEF ClientInv, Orderly
  <2>5. c \in dead => c \notin callbacks BY Zenon, <2>1 DEF Quiet
  <2>6. at[c] \notin {"registering", "starting"} BY Zenon, <2>1 DEF Quiet, ClientInv, Calling
  <2>7. at[c] \in Where BY Zenon, <2>1 DEF ClientInv, LoopInv, ClientTyped
  <2>8. QED BY <2>2, <2>3, <2>4, <2>5, <2>6, <2>7 DEF Serving, Where
<1>2. QED BY <1>1, ClientInit, ClientStep, PTL DEF Spec
=============================================================================
