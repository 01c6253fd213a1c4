------------------------------ MODULE Bandwidth ------------------------------
(***************************************************************************)
(* Who is told the traffic: the callbacks, the bandwidth listeners and the *)
(* loop of the Binder in bg/BaseService.kt, called by the connections of   *)
(* other processes (aidl/ShadowsocksConnection.kt) and by the notification *)
(* of the service (bg/ServiceNotification.kt).                             *)
(*                                                                         *)
(* IShadowsocksService.aidl makes register and start calls that wait for a *)
(* thread of the service, and stop and unregister oneway calls, which the  *)
(* service takes one at a time when it comes to them.  So a call of either *)
(* kind may overtake one of the other, and the notice that a process died  *)
(* may overtake its last calls.  Changes of the listeners are posted to    *)
(* the main thread; the notification is on it and changes them at once.    *)
(***************************************************************************)
EXTENDS Naturals, Sequences, FiniteSets

CONSTANTS Client,       \* connections of other processes
          Notification, \* the callback of the notification
          MaxSessions   \* bound: how often connections are made

ASSUME ClientAssumption ==
  IsFiniteSet(Client) /\ Notification \notin Client /\ MaxSessions \in Nat

All == Client \cup {Notification}
Job == 1..Cardinality(All)

VARIABLES
  dead,      \* clients whose process died
  sessions,  \* how often connections were made
  session,   \* of each client: its last one
  at,        \* of each client: where it is
  calls,     \* calls that wait for a thread of the service
  oneway,    \* oneway calls not yet taken
  posted,    \* changes posted to the main thread
  callbacks, \* the RemoteCallbackList
  bandwidthListeners,
  looper,    \* the field: a job, or 0
  loops,     \* the jobs that run
  closed,    \* onDestroy has closed the Binder, or its process has ended
  checks,    \* check(looper == null) and looper!! have held
  overtaken  \* history: clients whose calls were taken out of order

clientVars == <<dead, sessions, session, at>>
mainVars == <<bandwidthListeners, looper, loops, checks>>
vars == <<clientVars, calls, oneway, posted, callbacks, mainVars, closed,
          overtaken>>

Init ==
  /\ dead = {} /\ sessions = 0 /\ session = [c \in Client |-> 0]
  /\ at = [c \in Client |-> "out"]
  /\ calls = {} /\ oneway = <<>> /\ posted = <<>>
  /\ callbacks = {} /\ bandwidthListeners = {}
  /\ looper = 0 /\ loops = {}
  /\ closed = FALSE /\ checks = TRUE /\ overtaken = {}

-----------------------------------------------------------------------------
(* onServiceConnected: register, wait, start, wait.                         *)
Register(c) ==
  /\ at[c] = "out" /\ c \notin dead /\ sessions < MaxSessions
  /\ sessions' = sessions + 1
  /\ session' = [session EXCEPT ![c] = sessions']
  /\ at' = [at EXCEPT ![c] = "registering"]
  /\ calls' = calls \cup {<<"register", c>>}
  /\ UNCHANGED <<dead, oneway, posted, callbacks, mainVars, closed, overtaken>>

StartListening(c) ==
  /\ at[c] = "registered" /\ c \notin dead
  /\ at' = [at EXCEPT ![c] = "starting"]
  /\ calls' = calls \cup {<<"start", c>>}
  /\ UNCHANGED <<dead, sessions, session, oneway, posted, callbacks, mainVars, closed,
                 overtaken>>

(* disconnect: unregisterCallback and, after it, stopListeningForBandwidth. *)
Disconnect(c) ==
  /\ at[c] = "listening" /\ c \notin dead
  /\ at' = [at EXCEPT ![c] = "out"]
  /\ oneway' = oneway \o <<<<"unregister", c, session[c]>>, <<"stop", c, session[c]>>>>
  /\ UNCHANGED <<dead, sessions, session, calls, posted, callbacks, mainVars, closed,
                 overtaken>>

Die(c) ==
  /\ c \notin dead /\ session[c] > 0
  /\ dead' = dead \cup {c}
  /\ UNCHANGED <<sessions, session, at, calls, oneway, posted, callbacks, mainVars, closed,
                 overtaken>>

-----------------------------------------------------------------------------
(* Threads of the service.  After close() the list takes no callback, and   *)
(* what is launched in the cancelled scope does not run.                    *)
Post(op, c) == posted' = IF closed THEN posted ELSE Append(posted, <<op, c>>)

(* RemoteCallbackList links to the death of a callback, which fails for one *)
(* that is dead.                                                            *)
TakeRegister(c) ==
  /\ <<"register", c>> \in calls
  /\ calls' = calls \ {<<"register", c>>}
  /\ callbacks' = IF closed \/ c \in dead THEN callbacks ELSE callbacks \cup {c}
  /\ at' = [at EXCEPT ![c] = "registered"]
  /\ UNCHANGED <<dead, sessions, session, oneway, posted, mainVars, closed, overtaken>>

(* The launch happens on this thread, after anything may have come between. *)
TakeStart(c) ==
  /\ <<"start", c>> \in calls
  /\ calls' = calls \ {<<"start", c>>}
  /\ Post("start", c)
  /\ at' = [at EXCEPT ![c] = "listening"]
  /\ overtaken' = IF c \in callbacks THEN overtaken ELSE overtaken \cup {c}
  /\ UNCHANGED <<dead, sessions, session, oneway, callbacks, mainVars, closed>>

BugKeepsCallback(op, c) == callbacks
CallbacksAfter(op, c) == IF op = "unregister" THEN callbacks \ {c} ELSE callbacks

TakeOneway ==
  /\ oneway # <<>>
  /\ LET op == Head(oneway)[1]
         c  == Head(oneway)[2]
     IN /\ Post("stop", c)
        /\ callbacks' = CallbacksAfter(op, c)
        /\ overtaken' = IF Head(oneway)[3] = session[c] THEN overtaken
                        ELSE overtaken \cup {c}
  /\ oneway' = Tail(oneway)
  /\ UNCHANGED <<clientVars, calls, mainVars, closed>>

(* onCallbackDied: the base class forgets the callback, the override stops. *)
BugOnlyForgets(c) == UNCHANGED posted
DeathStops(c) == Post("stop", c)

CallbackDied(c) ==
  /\ c \in dead /\ c \in callbacks
  /\ callbacks' = callbacks \ {c}
  /\ DeathStops(c)
  /\ UNCHANGED <<clientVars, calls, oneway, mainVars, closed, overtaken>>

-----------------------------------------------------------------------------
(* The main thread.                                                         *)
NewJob == CHOOSE l \in Job : l \notin loops

BugLoopForEach(c) == c \notin bandwidthListeners
StartsLoop(c) == bandwidthListeners = {}

Start(c) ==
  /\ bandwidthListeners' = bandwidthListeners \cup {c}
  /\ IF StartsLoop(c)
     THEN /\ checks' = (checks /\ looper = 0)
          /\ looper' = NewJob
          /\ loops' = loops \cup {NewJob}
     ELSE UNCHANGED <<looper, loops, checks>>

LastOf(c) == bandwidthListeners = {c}

Stop(c) ==
  /\ bandwidthListeners' = bandwidthListeners \ {c}
  /\ IF LastOf(c)
     THEN /\ checks' = (checks /\ looper # 0)
          /\ loops' = loops \ {looper} /\ looper' = 0
     ELSE UNCHANGED <<looper, loops, checks>>

RunPosted ==
  /\ posted # <<>>
  /\ IF Head(posted)[1] = "start" THEN Start(Head(posted)[2]) ELSE Stop(Head(posted)[2])
  /\ posted' = Tail(posted)
  /\ UNCHANGED <<clientVars, calls, oneway, callbacks, closed, overtaken>>

(* updateCallback of the notification, when the screen goes on or off.      *)
ScreenOn ==
  /\ ~closed
  /\ callbacks' = callbacks \cup {Notification}
  /\ Start(Notification)
  /\ UNCHANGED <<clientVars, calls, oneway, posted, closed, overtaken>>

ScreenOff ==
  /\ Notification \in callbacks /\ ~closed
  /\ Stop(Notification)
  /\ callbacks' = callbacks \ {Notification}
  /\ UNCHANGED <<clientVars, calls, oneway, posted, closed, overtaken>>

(* loop: what a round reads and broadcasts changes nothing here; the job    *)
(* ends by itself if nobody listens.                                        *)
Round(l) ==
  /\ loops' = IF bandwidthListeners = {} THEN loops \ {l} ELSE loops
  /\ UNCHANGED <<clientVars, calls, oneway, posted, callbacks, bandwidthListeners,
                 looper, checks, closed, overtaken>>

(* Nothing of the Binder runs any more.                                     *)
Ends ==
  /\ closed' = TRUE
  /\ callbacks' = {} /\ loops' = {} /\ posted' = <<>>
  /\ UNCHANGED <<clientVars, calls, oneway, bandwidthListeners, looper, checks,
                 overtaken>>

(* close, in onDestroy, after the notification was destroyed.               *)
Close == ~closed /\ Notification \notin callbacks /\ Ends

(* In state Connected a start goes on to tell the client its traffic.  For  *)
(* a dead one the call throws, nothing catches it on the main thread, and   *)
(* the process of the service ends.                                         *)
StartThrows ==
  /\ posted # <<>> /\ Head(posted)[1] = "start" /\ Head(posted)[2] \in dead
  /\ Ends

Service == RunPosted \/ TakeOneway
           \/ \E c \in Client : TakeRegister(c) \/ TakeStart(c) \/ CallbackDied(c)

Next ==
  \/ Service \/ ScreenOn \/ ScreenOff \/ Close \/ StartThrows
  \/ \E l \in loops : Round(l)
  \/ \E c \in Client : Register(c) \/ StartListening(c) \/ Disconnect(c) \/ Die(c)

(* The threads of the service, its main thread and the kernel's death       *)
(* notices make progress; clients need not.                                 *)
Fairness ==
  /\ WF_vars(RunPosted) /\ WF_vars(TakeOneway)
  /\ \A c \in Client : WF_vars(TakeRegister(c)) /\ WF_vars(TakeStart(c))
                       /\ WF_vars(CallbackDied(c))

Spec == Init /\ [][Next]_vars
FairSpec == Spec /\ Fairness

-----------------------------------------------------------------------------
(* Every variable keeps its kind, and a closed Binder has no callback, no   *)
(* job and nothing that would still run.                                    *)
TypeOK ==
  /\ dead \subseteq Client /\ overtaken \subseteq Client
  /\ sessions \in 0..MaxSessions /\ session \in [Client -> 0..MaxSessions]
  /\ at \in [Client -> {"out", "registering", "registered", "starting", "listening"}]
  /\ calls \subseteq ({"register", "start"} \X Client)
  /\ \A i \in DOMAIN oneway : oneway[i] \in {"unregister", "stop"} \X Client \X Nat
  /\ \A i \in DOMAIN posted : posted[i] \in {"start", "stop"} \X Client
  /\ callbacks \subseteq All /\ bandwidthListeners \subseteq All
  /\ looper \in Job \cup {0} /\ loops \subseteq Job
  /\ {closed, checks} \subseteq BOOLEAN
  /\ closed => callbacks = {} /\ loops = {} /\ posted = <<>>

(* While the service lives one loop runs if somebody listens and none if    *)
(* nobody does, and the field looper names it.                              *)
OneLoop ==
  ~closed => /\ loops = IF bandwidthListeners = {} THEN {} ELSE {looper}
             /\ looper = 0 <=> bandwidthListeners = {}

(* check(looper == null) and looper!! never fail.                           *)
LooperChecks == checks

Quiet == calls = {} /\ oneway = <<>> /\ posted = <<>> /\ dead \cap callbacks = {}

(* When every call has been taken, the clients that listen, and those that  *)
(* are registered, are those that asked to and live, except clients whose   *)
(* calls were taken out of order.                                           *)
ServedAsAsked ==
  Quiet /\ ~closed =>
    \A c \in Client \ overtaken :
      /\ c \in bandwidthListeners <=> c \notin dead /\ at[c] = "listening"
      /\ c \in callbacks <=> c \notin dead /\ at[c] \in {"registered", "listening"}

(* If every client dies or disconnects for good and the screen goes off,    *)
(* the loop ends, so that the service does not wake up for nobody.          *)
LoopEnds ==
  overtaken = {} /\ Notification \notin callbacks
    /\ (\A c \in Client : c \in dead \/ (at[c] = "out" /\ sessions = MaxSessions))
  ~> loops = {} \/ Notification \in callbacks \/ overtaken # {}
=============================================================================
