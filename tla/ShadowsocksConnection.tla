----------------------- MODULE ShadowsocksConnection ------------------------
(***************************************************************************)
(* The app's connection to the proxy service, which runs in a process of   *)
(* its own: core/.../aidl/ShadowsocksConnection.kt, the callbacks of the   *)
(* service's Binder (bg/BaseService.kt) and the part of the app's          *)
(* ServerManager that listens (mSsState).                                  *)
(*                                                                         *)
(* The service appears by the states it reports.  Its process may die.     *)
(* The app then hears of it twice, in either order: through the system's   *)
(* onServiceDisconnected, on the main thread, and through binderDied, on   *)
(* a binder thread.  State changes, too, arrive on a binder thread and are *)
(* posted to the main thread, which takes what is posted in order.         *)
(***************************************************************************)
EXTENDS Integers, Sequences

CONSTANTS MaxDeaths,  \* bound: how often the service's process dies
          MaxWire     \* bound: calls on the way when the service changes state

ASSUME ConnectionAssumption == MaxDeaths \in Nat /\ MaxWire \in Nat \ {0}

VARIABLES
  svcState,    \* service: data.state
  announced,   \* service: a state it has broadcast and not yet assigned
  queued,      \* service: a state it has assigned and not yet broadcast
  starting,    \* service: a start command has arrived, not connected yet
  alive,       \* the service's process runs
  deaths,      \* how often it died
  callbacks,   \* service: the app's callback is in its RemoteCallbackList
  wire,        \* stateChanged calls on the way to the app
  bind,        \* system: unbound, binding, posted (the call of
               \* onServiceConnected is in main) or bound
  sysDeath,    \* system: a bound service died, the app is to be told
  died,        \* system: binderDied is to be called
  connectionActive, callbackRegistered,
  callback,    \* is not null
  service,     \* is not null
  main,        \* what is posted to the app's main thread
  inConnected, \* the main thread is in onServiceConnected
  mSsState,    \* ServerManager: the last state it was told
  attached,    \* ServerManager: mContext is not null
  told,        \* history: the callback saw onServiceConnected, and no
               \* onServiceDisconnected since
  stale,       \* history: how many calls in wire, the first ones, were sent
               \* under an earlier registration
  inWindow,    \* history: the callback was registered while announced
  missed,      \* history: a change was missed around the registration, or
               \* a stale one was taken last
  crashed      \* the app died of an uncaught exception

svcVars  == <<svcState, announced, queued, starting, alive, deaths>>
sysVars  == <<sysDeath, died>>
connVars == <<connectionActive, callbackRegistered, callback, service>>
uiVars   == <<inConnected, mSsState, attached, told, crashed>>
vars == <<svcVars, callbacks, wire, bind, sysVars, connVars, main, uiVars, stale,
          inWindow, missed>>

None == "None"

(* BaseService.State, sent over the wire by its ordinal.                    *)
values == <<"Idle", "Connecting", "Connected", "Stopping", "Stopped">>
SvcState == {values[i] : i \in 1..5}
ordinal(s) == CHOOSE i \in 0..4 : values[i + 1] = s

decode(i) == values[i + 1]

-----------------------------------------------------------------------------
(* The service.  changeState broadcasts the state in a coroutine and        *)
(* assigns it.  The coroutine runs at once, before the assignment, unless   *)
(* stopRunner's own coroutine runs in the same event loop: then it is       *)
(* queued and runs after it.  Binder threads may come between the two.      *)
Turn == announced = None /\ queued = None /\ Len(wire) + Len(main) < MaxWire

Broadcast(s) ==
  /\ wire' = IF callbacks THEN Append(wire, ordinal(s)) ELSE wire
  /\ missed' = (missed /\ ~callbacks)

Announce(s) ==
  /\ announced' = s
  /\ Broadcast(s)
  /\ UNCHANGED <<svcState, queued, starting, alive, deaths, callbacks, bind, sysVars,
                 connVars, main, uiVars, stale, inWindow>>

SvcConnected == Turn /\ starting /\ svcState # "Connected" /\ Announce("Connected")

(* stopRunner, because of a broadcast, a revocation or an error.            *)
SvcStopping ==
  /\ Turn
  /\ starting \/ svcState = "Connected"
  /\ svcState # "Stopping"
  /\ Announce("Stopping")

SvcStopped == Turn /\ svcState = "Stopping" /\ Announce("Stopped")

(* A connecting job ends or is cancelled; where two overlap, one is left.   *)
SvcAssign ==
  /\ announced # None
  /\ svcState' = announced
  /\ announced' = None
  /\ starting' \in {starting, FALSE}
  /\ inWindow' = FALSE
  /\ UNCHANGED <<queued, alive, deaths, callbacks, wire, bind, sysVars, connVars,
                 main, uiVars, stale, missed>>

SvcStoppedQueued ==
  /\ Turn /\ svcState = "Stopping"
  /\ svcState' = "Stopped"
  /\ queued' = "Stopped"
  /\ UNCHANGED <<announced, starting, alive, deaths, callbacks, wire, bind, sysVars,
                 connVars, main, uiVars, stale, inWindow, missed>>

SvcBroadcast ==
  /\ queued # None
  /\ Broadcast(queued)
  /\ queued' = None
  /\ UNCHANGED <<svcState, announced, starting, alive, deaths, callbacks, bind,
                 sysVars, connVars, main, uiVars, stale, inWindow>>

(* A start command, which creates the process if need be.  It is dropped    *)
(* unless the service is stopped.                                           *)
StartCommand ==
  /\ Turn /\ svcState = "Stopped" /\ ~starting
  /\ starting' = TRUE
  /\ alive' = TRUE
  /\ UNCHANGED <<svcState, announced, queued, deaths, callbacks, wire, bind, sysVars,
                 connVars, main, uiVars, stale, inWindow, missed>>

(* onDestroy, once the service is neither started nor bound: Binder.close   *)
(* kills the list of callbacks.                                             *)
SvcDestroyed ==
  /\ Turn /\ svcState = "Stopped" /\ ~starting
  /\ bind = "unbound" /\ callbacks
  /\ callbacks' = FALSE
  /\ stale' = Len(wire)
  /\ UNCHANGED <<svcVars, wire, bind, sysVars, connVars, main, uiVars, inWindow,
                 missed>>

(* The queue q without the call m of the system, of which it holds at most  *)
(* one.                                                                     *)
Without(m, q) ==
  IF \E i \in DOMAIN q : q[i] = m
  THEN LET i == CHOOSE i \in DOMAIN q : q[i] = m
       IN SubSeq(q, 1, i - 1) \o SubSeq(q, i + 1, Len(q))
  ELSE q

(* The process dies.  A bound service is created again by the system.  A    *)
(* call of onServiceConnected still posted for the dead one is dropped.     *)
SvcDies ==
  /\ alive
  /\ deaths < MaxDeaths
  /\ deaths' = deaths + 1
  /\ alive' = FALSE
  /\ svcState' = "Stopped"
  /\ announced' = None
  /\ queued' = None
  /\ starting' = FALSE
  /\ callbacks' = FALSE
  /\ inWindow' = FALSE
  /\ stale' = Len(wire)
  /\ sysDeath' = (sysDeath \/ bind = "bound")
  /\ died' = (died \/ bind = "bound")
  /\ bind' = IF bind = "unbound" THEN bind ELSE "binding"
  /\ main' = Without("onServiceConnected", main)
  /\ UNCHANGED <<wire, connVars, uiVars, missed>>

-----------------------------------------------------------------------------
(* The app's binder threads.                                                *)
Receive ==
  /\ ~crashed
  /\ wire # <<>>
  /\ main' = IF callback THEN Append(main, decode(Head(wire))) ELSE main
  /\ wire' = Tail(wire)
  /\ stale' = IF stale > 0 THEN stale - 1 ELSE 0
  /\ missed' = (missed \/ (stale = 1 /\ Len(wire) = 1))
  /\ UNCHANGED <<svcVars, callbacks, bind, sysVars, connVars, uiVars, inWindow>>

binderDied ==
  /\ ~crashed
  /\ died
  /\ died' = FALSE
  /\ service' = FALSE
  /\ callbackRegistered' = FALSE
  /\ main' = IF callback THEN Append(main, "onBinderDied") ELSE main
  /\ UNCHANGED <<svcVars, callbacks, wire, bind, sysDeath, connectionActive, callback,
                 uiVars, stale, inWindow, missed>>

(* The system's part in the app: it posts onServiceConnected for a service  *)
(* it has created if need be, after onServiceDisconnected for a dead one.   *)
PostConnected ==
  /\ ~crashed
  /\ bind = "binding" /\ ~sysDeath
  /\ bind' = "posted"
  /\ alive' = TRUE
  /\ main' = Append(main, "onServiceConnected")
  /\ UNCHANGED <<svcState, announced, queued, starting, deaths, callbacks, wire,
                 sysVars, connVars, uiVars, stale, inWindow, missed>>

PostDisconnected ==
  /\ ~crashed
  /\ sysDeath
  /\ sysDeath' = FALSE
  /\ main' = Append(main, "onServiceDisconnected")
  /\ UNCHANGED <<svcVars, callbacks, wire, bind, died, connVars, uiVars, stale,
                 inWindow, missed>>

-----------------------------------------------------------------------------
(* The app's main thread.                                                   *)
MainThread == ~inConnected /\ ~crashed

Take(S) == MainThread /\ main # <<>> /\ Head(main) \in S

(* onServiceConnected up to and with the registration.                      *)
BugNoRegistration == callbackRegistered' = TRUE /\ UNCHANGED callbacks
registerCallback == callbackRegistered' = TRUE /\ callbacks' = TRUE

onServiceConnected ==
  /\ Take({"onServiceConnected"})
  /\ main' = Tail(main)
  /\ bind' = "bound"
  /\ service' = TRUE
  /\ registerCallback
  /\ inConnected' = TRUE
  /\ inWindow' = (announced # None)
  /\ missed' = (missed /\ \E i \in 2..Len(main) : main[i] \in SvcState)
  /\ UNCHANGED <<svcVars, wire, sysVars, connectionActive, callback, mSsState,
                 attached, told, crashed, stale>>

(* The rest: ServerManager.onServiceConnected asks for the state.  If the   *)
(* process is gone by then, nobody catches the exception.                   *)
ReadState ==
  /\ inConnected /\ ~crashed
  /\ inConnected' = FALSE
  /\ \/ /\ bind = "bound"
        /\ mSsState' = svcState
        /\ told' = TRUE
        /\ missed' = (missed \/ inWindow)
        /\ UNCHANGED crashed
     \/ /\ bind # "bound"
        /\ crashed' = TRUE
        /\ UNCHANGED <<mSsState, told, missed>>
  /\ UNCHANGED <<svcVars, callbacks, wire, bind, sysVars, connVars, main, attached,
                 stale, inWindow>>

stateChanged ==
  /\ Take(SvcState)
  /\ mSsState' = Head(main)
  /\ main' = Tail(main)
  /\ UNCHANGED <<svcVars, callbacks, wire, bind, sysVars, connVars, inConnected,
                 attached, told, crashed, stale, inWindow, missed>>

(* unregisterCallback is a call to the service, if there is one.  It        *)
(* reaches a new process as little as a dead one.                           *)
unregisterCallback ==
  /\ callbacks' = (callbacks /\ ~(service /\ callbackRegistered /\ bind = "bound"))
  /\ stale' = Len(wire)
  /\ callbackRegistered' = FALSE

BugStillRegistered == UNCHANGED <<callbacks, stale, callbackRegistered>>
ServiceGone == unregisterCallback

onServiceDisconnected ==
  /\ Take({"onServiceDisconnected"})
  /\ main' = Tail(main)
  /\ ServiceGone
  /\ told' = FALSE
  /\ service' = FALSE
  /\ UNCHANGED <<svcVars, wire, bind, sysVars, connectionActive, callback, inConnected,
                 mSsState, attached, crashed, inWindow, missed>>

(* disconnect.  The system drops what it has posted for the connection; a   *)
(* binderDied on its way still arrives.                                     *)
disconnect(rest) ==
  /\ unregisterCallback
  /\ bind' = "unbound"
  /\ sysDeath' = FALSE
  /\ main' = Without("onServiceDisconnected", Without("onServiceConnected", rest))
  /\ connectionActive' = FALSE
  /\ service' = FALSE
  /\ callback' = FALSE

onBinderDied ==
  /\ Take({"onBinderDied"})
  /\ IF attached
     THEN disconnect(Tail(main))
     ELSE /\ main' = Tail(main)
          /\ UNCHANGED <<callbacks, stale, bind, sysDeath, connVars>>
  /\ UNCHANGED <<svcVars, wire, died, uiVars, inWindow, missed>>

(* ServerManager.attach and detach, with the activity.                      *)
attach ==
  /\ MainThread
  /\ ~attached
  /\ attached' = TRUE
  /\ IF connectionActive
     THEN UNCHANGED <<connectionActive, callback, bind>>
     ELSE connectionActive' = TRUE /\ callback' = TRUE /\ bind' = "binding"
  /\ UNCHANGED <<svcVars, callbacks, wire, sysVars, callbackRegistered, service,
                 main, inConnected, mSsState, told, crashed, stale, inWindow, missed>>

detach ==
  /\ MainThread
  /\ attached
  /\ attached' = FALSE
  /\ disconnect(main)
  /\ UNCHANGED <<svcVars, wire, died, inConnected, mSsState, told, crashed, inWindow,
                 missed>>

-----------------------------------------------------------------------------
Init ==
  /\ svcState = "Stopped" /\ announced = None /\ queued = None
  /\ starting = FALSE /\ alive = FALSE /\ deaths = 0
  /\ callbacks = FALSE /\ wire = <<>>
  /\ bind = "unbound" /\ sysDeath = FALSE /\ died = FALSE
  /\ connectionActive = FALSE /\ callbackRegistered = FALSE
  /\ callback = FALSE /\ service = FALSE
  /\ main = <<>> /\ inConnected = FALSE
  /\ mSsState = "Idle"
  /\ attached = FALSE /\ told = FALSE /\ crashed = FALSE
  /\ stale = 0 /\ inWindow = FALSE /\ missed = FALSE

Service == \/ StartCommand \/ SvcConnected \/ SvcStopping \/ SvcStopped
           \/ SvcAssign \/ SvcStoppedQueued \/ SvcBroadcast
           \/ SvcDestroyed \/ SvcDies
App == \/ Receive \/ binderDied \/ PostConnected \/ PostDisconnected
       \/ onServiceConnected \/ ReadState \/ stateChanged
       \/ onServiceDisconnected \/ onBinderDied \/ attach \/ detach

Next == Service \/ App

Spec == Init /\ [][Next]_vars

-----------------------------------------------------------------------------
TypeOK ==
  /\ svcState \in SvcState /\ mSsState \in SvcState
  /\ {announced, queued} \subseteq SvcState \cup {None}
  /\ wire \in Seq(0..4) /\ stale \in 0..Len(wire)
  /\ main \in Seq(SvcState \cup {"onServiceConnected", "onServiceDisconnected",
                                 "onBinderDied"})
  /\ bind \in {"unbound", "binding", "posted", "bound"}
  /\ deaths \in 0..MaxDeaths
  /\ {starting, alive, callbacks, sysDeath, died, connectionActive, callbackRegistered,
      callback, service, inConnected, attached, told, inWindow, missed, crashed}
       \subseteq BOOLEAN

(* As long as the app is registered with the service it is bound to, it has *)
(* the service's state as soon as nothing is on the way: it registers       *)
(* first and asks then, so that no change is lost in between.  There are    *)
(* two exceptions: both fall between a broadcast and the assignment after   *)
(* it, or a call sent under an earlier registration arrives last.           *)
SyncedUnlessMissed ==
  /\ bind = "bound" /\ callbackRegistered /\ ~inConnected /\ ~crashed
  /\ wire = <<>> /\ main = <<>> /\ announced = None /\ queued = None
  /\ ~missed
  => mSsState = svcState

(* Every variable keeps its kind, and the assertions of the code hold       *)
(* whenever they are reached: check(!callbackRegistered) and callback!! in  *)
(* onServiceConnected, and check(this.callback == null) in connect,         *)
(* whatever the order in which the news of a death arrive.                  *)
ChecksHold ==
  /\ TypeOK
  /\ Take({"onServiceConnected"}) => ~callbackRegistered /\ callback
  /\ ~connectionActive => ~callback

(* "this method will be called even when you call `detachService`": a       *)
(* callback that was told of a connection is told of its end.               *)
EndIsTold == ~connectionActive => ~told
=============================================================================
