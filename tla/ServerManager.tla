--------------------------- MODULE ServerManager ----------------------------
(***************************************************************************)
(* The connect button: ServerManager.kt with its clock, MainViewModel.kt   *)
(* with its flow toggle, permission, connect or disconnect, waitResult, ad,*)
(* result, and MainActivity.kt, whose life cycle attaches and detaches the *)
(* manager.                                                                *)
(*                                                                         *)
(* A model (the MainViewModel of one activity) is not kept in a store: no  *)
(* one clears it, and a flow it has begun outlives its activity.  Models   *)
(* are the view models of the successive activities.                       *)
(*                                                                         *)
(* The connection to the service is abstracted to a queue of state changes *)
(* (news) and the news of its death; ShadowsocksConnection.tla has the     *)
(* details.  The service is the one of BaseService.tla, by its states.     *)
(***************************************************************************)
EXTENDS Naturals, Sequences

CONSTANTS Models,    \* view models, one for each activity
          NoModel,   \* no activity is there
          MaxFlows,  \* bound: taps on the button
          MaxFaults  \* bound: deaths of the service and stops of its own

VARIABLES
  svc, starting,        \* service: its state; a connecting job runs
  starts, closes,       \* start requests and CLOSE broadcasts on their way
  ioStarts,             \* doConnect coroutines on the IO dispatcher
  bound, linked,        \* the app is bound; and registered with a service
  gone, dead,           \* onServiceDisconnected, onBinderDied are to come
  news,                 \* state changes on their way to the app
  mSsState, mState,
  clock,                \* ServerTimeManager.mHandler is not null
  activity,             \* the model of the activity there is
  phase,                \* where a model's flow is
  wasConnected,         \* the isConnected that toggle's callback captured
  forConnect,           \* the flow connects (or disconnects)
  mConnectAdResult, asked,  \* the ad's result; its request is registered
  flows, faults,
  late,                 \* history: the service took a start request that
                        \* no flow was waiting for any more
  orphaned,             \* history: an activity was destroyed in a flow
  upset                 \* history: the service failed, it was stopped
                        \* while the clock ran, the app was connected to it
                        \* in the middle of a flow or with earlier news still
                        \* to come, or a flow ended out of touch

svcVars  == <<svc, starting, starts, closes>>
linkVars == <<bound, linked, gone, dead, news, mSsState>>
flowVars == <<activity, phase, wasConnected, forConnect, flows>>
adVars   == <<mConnectAdResult, asked>>
vars == <<svcVars, ioStarts, linkVars, mState, clock, flowVars, adVars, faults, late,
          orphaned, upset>>

(* A failed request leaves a result that is as good as none.                *)
AdResults == {"success", "limited", "none"}
Waiting   == {"connecting", "disconnecting"}

isConnected  == mSsState = "Connected"
isDisconnect == mSsState = "Stopped"

(* The app knows the service's state. *)
InTouch == linked /\ news = <<>>

-----------------------------------------------------------------------------
(* The service, and what it tells.                                          *)
Tell(s) == svc' = s /\ news' = IF linked THEN Append(news, s) ELSE news

SvcOnly == UNCHANGED <<ioStarts, bound, linked, gone, dead, mSsState, mState, clock,
                       flowVars, adVars>>

(* onStartCommand drops a request unless the service is stopped.            *)
StartArrives ==
  /\ starts > 0
  /\ starts' = starts - 1
  /\ starting' = (starting \/ svc = "Stopped")
  /\ late' = (late \/ (svc = "Stopped" /\ \A m \in Models : phase[m] # "connecting"))
  /\ SvcOnly /\ UNCHANGED <<svc, closes, news, faults, orphaned, upset>>

SvcConnected ==
  /\ starting /\ svc = "Stopped"
  /\ Tell("Connected")
  /\ starting' = FALSE
  /\ SvcOnly /\ UNCHANGED <<starts, closes, faults, late, orphaned, upset>>

(* CLOSE is received while a start has been taken, and ignored in Stopping. *)
CloseArrives ==
  /\ closes > 0
  /\ closes' = closes - 1
  /\ IF starting \/ svc = "Connected"
     THEN Tell("Stopping") /\ starting' = FALSE
     ELSE UNCHANGED <<svc, starting, news>>
  /\ upset' = (upset \/ (svc' = "Stopping" /\ clock))
  /\ SvcOnly /\ UNCHANGED <<starts, faults, late, orphaned>>

(* stopRunner without being asked: an error, a revocation.                  *)
SvcFails ==
  /\ faults < MaxFaults
  /\ starting \/ svc = "Connected"
  /\ Tell("Stopping")
  /\ starting' = FALSE
  /\ faults' = faults + 1
  /\ upset' = TRUE
  /\ SvcOnly /\ UNCHANGED <<starts, closes, late, orphaned>>

SvcStopped ==
  /\ svc = "Stopping"
  /\ Tell("Stopped")
  /\ SvcOnly /\ UNCHANGED <<starting, starts, closes, faults, late, orphaned, upset>>

SvcDies ==
  /\ faults < MaxFaults
  /\ linked \/ starting \/ svc # "Stopped"
  /\ faults' = faults + 1
  /\ svc' = "Stopped"
  /\ starting' = FALSE
  /\ upset' = TRUE
  /\ linked' = FALSE
  /\ gone' = (gone \/ linked)
  /\ dead' = (dead \/ linked)
  /\ UNCHANGED <<starts, closes, ioStarts, bound, news, mSsState, mState, clock,
                 flowVars, adVars, late, orphaned>>

-----------------------------------------------------------------------------
(* ServerManager.                                                           *)
BugClockRunsOn(s) ==
  /\ mState' = s
  /\ clock' = (clock \/ s = "CONNECTED")
changeState(s) ==
  /\ mState' = s
  /\ clock' = CASE s = "CONNECTED" -> TRUE
                [] s = "STOPPING"  -> FALSE
                [] OTHER           -> clock

stateChanged ==
  /\ news # <<>>
  /\ mSsState' = Head(news)
  /\ news' = Tail(news)
  /\ UNCHANGED <<svcVars, ioStarts, bound, linked, gone, dead, mState, clock, flowVars,
                 adVars, faults, late, orphaned, upset>>

ShowStopped == mState' = "STOPPED" /\ clock' = FALSE

onServiceConnected ==
  /\ bound /\ ~linked /\ ~gone
  /\ linked' = TRUE
  /\ mSsState' = svc
  /\ upset' = (upset \/ news # <<>> \/ \E m \in Models : phase[m] \in Waiting \cup {"ad"})
  /\ CASE svc = "Connected" -> changeState("CONNECTED")
       [] svc = "Stopped"   -> ShowStopped
       [] OTHER             -> UNCHANGED <<mState, clock>>
  /\ UNCHANGED <<svcVars, ioStarts, bound, gone, dead, news, flowVars, adVars, faults, late,
                 orphaned>>

onServiceDisconnected ==
  /\ gone
  /\ gone' = FALSE
  /\ changeState("STOPPED")
  /\ UNCHANGED <<svcVars, ioStarts, bound, linked, dead, news, mSsState, flowVars,
                 adVars, faults, late, orphaned, upset>>

(* ShadowsocksConnection.disconnect: what is not posted yet is dropped.     *)
Unbind ==
  /\ bound' = FALSE
  /\ linked' = FALSE
  /\ gone' = FALSE
  /\ news' \in {news, <<>>}

onBinderDied ==
  /\ dead
  /\ dead' = FALSE
  /\ IF activity # NoModel THEN Unbind ELSE UNCHANGED <<bound, linked, gone, news>>
  /\ UNCHANGED <<svcVars, ioStarts, mSsState, mState, clock, flowVars, adVars, faults,
                 late, orphaned, upset>>

(* doConnect's coroutine: onConnect starts the service.                     *)
onConnect ==
  /\ ioStarts > 0
  /\ ioStarts' = ioStarts - 1
  /\ starts' = starts + 1
  /\ UNCHANGED <<svc, starting, closes, linkVars, mState, clock, flowVars, adVars,
                 faults, late, orphaned, upset>>

-----------------------------------------------------------------------------
(* MainActivity.                                                            *)
onCreate(m) ==
  /\ activity = NoModel
  /\ phase[m] = "new"
  /\ activity' = m
  /\ phase' = [phase EXCEPT ![m] = "idle"]
  /\ bound' = TRUE
  /\ UNCHANGED <<svcVars, ioStarts, linked, gone, dead, news, mSsState, mState, clock,
                 wasConnected, forConnect, flows, adVars, faults, late, orphaned, upset>>

onDestroy ==
  /\ activity # NoModel
  /\ activity' = NoModel
  /\ orphaned' = (orphaned \/ phase[activity] \in Waiting \cup {"ad"})
  /\ Unbind
  /\ UNCHANGED <<svcVars, ioStarts, dead, mSsState, mState, clock, phase, wasConnected,
                 forConnect, flows, adVars, faults, late, upset>>

-----------------------------------------------------------------------------
(* MainViewModel.                                                           *)
Goto(m, p) == phase' = [phase EXCEPT ![m] = p]

(* toggle, by the button or on return from the list of nodes; disabled      *)
(* during a flow.  It captures isConnected, the permission comes later.     *)
toggle(m) ==
  /\ flows < MaxFlows
  /\ activity = m /\ phase[m] = "idle"
  /\ Goto(m, "permission")
  /\ wasConnected' = [wasConnected EXCEPT ![m] = isConnected]
  /\ flows' = flows + 1
  /\ UNCHANGED <<svcVars, ioStarts, linkVars, mState, clock, activity, forConnect,
                 adVars, faults, late, orphaned, upset>>

permissionDenied(m) ==
  /\ activity = m /\ phase[m] = "permission"
  /\ Goto(m, "idle")
  /\ UNCHANGED <<svcVars, ioStarts, linkVars, mState, clock, activity, wasConnected,
                 forConnect, flows, adVars, faults, late, orphaned, upset>>

(* waitResult requests an ad and begins to wait; toggle's callback is done. *)
waitResult(m, connecting) ==
  /\ Goto(m, IF connecting THEN "connecting" ELSE "disconnecting")
  /\ forConnect' = [forConnect EXCEPT ![m] = connecting]
  /\ wasConnected' = [wasConnected EXCEPT ![m] = FALSE]
  /\ asked' = [asked EXCEPT ![m] = TRUE]

connect(m) ==
  /\ activity = m /\ phase[m] = "permission" /\ ~wasConnected[m]
  /\ changeState("CONNECTING")
  /\ ioStarts' = ioStarts + 1
  /\ waitResult(m, TRUE)
  /\ UNCHANGED <<svcVars, linkVars, activity, flows, mConnectAdResult, faults, late,
                 orphaned, upset>>

disconnect(m) ==
  /\ activity = m /\ phase[m] = "permission" /\ wasConnected[m]
  /\ changeState("STOPPING")
  /\ closes' = closes + 1
  /\ waitResult(m, FALSE)
  /\ UNCHANGED <<svc, starting, starts, ioStarts, linkVars, activity, flows,
                 mConnectAdResult, faults, late, orphaned, upset>>

(* The callback of the ad's request.                                        *)
adResult(m, r) ==
  /\ asked[m]
  /\ asked' = [asked EXCEPT ![m] = FALSE]
  /\ mConnectAdResult' = [mConnectAdResult EXCEPT ![m] = r]
  /\ UNCHANGED <<svcVars, ioStarts, linkVars, mState, clock, flowVars, faults, late,
                 orphaned, upset>>

(* The end of a flow: the receiver of waitResult.                           *)
BugNoForcedStop(m) ==
  /\ mState' = "STOPPED"
  /\ UNCHANGED <<clock, closes>>
  /\ Goto(m, "idle")
forceDisconnect(m) ==
  /\ changeState("STOPPED")
  /\ closes' = closes + 1
  /\ Goto(m, "idle")

receiver(m) ==
  /\ upset' = (upset \/ ~InTouch)
  /\ IF forConnect[m] /\ ~isConnected
     THEN forceDisconnect(m)
     ELSE /\ changeState(IF forConnect[m] THEN "CONNECTED" ELSE "STOPPED")
          /\ UNCHANGED closes
          /\ Goto(m, "result")

Reached(m) == IF forConnect[m] THEN isConnected ELSE isDisconnect

(* A round of the loop that ends it, from 1.5 s on.                         *)
poll(m) ==
  /\ phase[m] \in Waiting
  /\ Reached(m)
  /\ \/ /\ mConnectAdResult[m] = "success"
        /\ Goto(m, "ad")
        /\ UNCHANGED <<mState, clock, closes, upset>>
     \/ mConnectAdResult[m] = "limited" /\ receiver(m)
  /\ UNCHANGED <<svc, starting, starts, ioStarts, linkVars, activity, wasConnected,
                 forConnect, flows, adVars, faults, late, orphaned>>

(* The loop has run for 10 s.                                               *)
BugWaitsForState(m) == Reached(m)
MayGiveUp(m) == TRUE

timeOut(m) ==
  /\ phase[m] \in Waiting
  /\ MayGiveUp(m)
  /\ IF mConnectAdResult[m] = "success"
     THEN Goto(m, "ad") /\ UNCHANGED <<mState, clock, closes, upset>>
     ELSE receiver(m)
  /\ UNCHANGED <<svc, starting, starts, ioStarts, linkVars, activity, wasConnected,
                 forConnect, flows, adVars, faults, late, orphaned>>

(* The ad is closed, or could not be shown.  Only an activity can show it.  *)
continueResult(m) ==
  /\ activity = m /\ phase[m] = "ad"
  /\ mConnectAdResult' = [mConnectAdResult EXCEPT ![m] = "none"]
  /\ asked' = [asked EXCEPT ![m] = FALSE]
  /\ receiver(m)
  /\ UNCHANGED <<svc, starting, starts, ioStarts, linkVars, activity, wasConnected,
                 forConnect, flows, faults, late, orphaned>>

(* 300 ms later the result is shown, or not; the button is enabled again.   *)
startResult(m) ==
  /\ activity = m /\ phase[m] = "result"
  /\ Goto(m, "idle")
  /\ UNCHANGED <<svcVars, ioStarts, linkVars, mState, clock, activity, wasConnected,
                 forConnect, flows, adVars, faults, late, orphaned, upset>>

-----------------------------------------------------------------------------
Init ==
  /\ svc = "Stopped" /\ starting = FALSE /\ starts = 0 /\ closes = 0 /\ ioStarts = 0
  /\ bound = FALSE /\ linked = FALSE /\ gone = FALSE /\ dead = FALSE
  /\ news = <<>> /\ mSsState = "Idle" /\ mState = "STOPPED" /\ clock = FALSE
  /\ activity = NoModel
  /\ phase = [m \in Models |-> "new"]
  /\ wasConnected = [m \in Models |-> FALSE]
  /\ forConnect = [m \in Models |-> FALSE]
  /\ mConnectAdResult = [m \in Models |-> "none"]
  /\ asked = [m \in Models |-> FALSE]
  /\ flows = 0 /\ faults = 0 /\ late = FALSE /\ orphaned = FALSE /\ upset = FALSE

Service == StartArrives \/ SvcConnected \/ CloseArrives \/ SvcFails \/ SvcStopped \/ SvcDies
Manager == stateChanged \/ onServiceConnected \/ onServiceDisconnected \/ onBinderDied \/ onConnect
Flow(m) == \/ toggle(m) \/ permissionDenied(m) \/ connect(m) \/ disconnect(m)
           \/ \E r \in AdResults : adResult(m, r)
           \/ poll(m) \/ timeOut(m) \/ continueResult(m) \/ startResult(m)

Next == \/ Service \/ Manager
        \/ onDestroy
        \/ \E m \in Models : onCreate(m) \/ Flow(m)

Spec == Init /\ [][Next]_vars

(* The timers fire: the end of the loop, the 300 ms before the result.      *)
FairSpec ==
  /\ Spec
  /\ \A m \in Models : WF_vars(timeOut(m)) /\ WF_vars(startResult(m))

-----------------------------------------------------------------------------
TypeOK ==
  /\ svc \in {"Stopped", "Connected", "Stopping"}
  /\ mSsState \in {"Idle", "Stopped", "Connected", "Stopping"}
  /\ mState \in {"STOPPED", "CONNECTING", "CONNECTED", "STOPPING"}
  /\ {starting, bound, linked, gone, dead, clock, late, orphaned, upset} \subseteq BOOLEAN
  /\ {starts, closes, ioStarts} \subseteq 0..MaxFlows
  /\ news \in Seq({"Stopped", "Connected", "Stopping"})
  /\ activity \in Models \cup {NoModel}
  /\ phase \in [Models -> {"new", "idle", "permission", "connecting", "disconnecting",
                           "ad", "result"}]
  /\ {wasConnected, forConnect, asked} \subseteq [Models -> BOOLEAN]
  /\ mConnectAdResult \in [Models -> AdResults]
  /\ flows \in 0..MaxFlows /\ faults \in 0..MaxFaults

Settled == \A m \in Models : phase[m] \notin Waiting \cup {"ad"}

(* Between flows the button never shows a transition: it is CONNECTED or    *)
(* STOPPED, so that it does not seem to hang.  This and the next two hold   *)
(* as long as no activity was destroyed in the middle of a flow, which then *)
(* goes on without it.                                                      *)
NoTransitionLeft == Settled /\ ~orphaned => mState \in {"STOPPED", "CONNECTED"}

(* Between flows, when nothing is on its way any more, no connection is     *)
(* hidden from the user: a service that runs is shown as CONNECTED.  The    *)
(* exceptions: it took a start request after the flow that sent it had      *)
(* given up, or the flows were upset before.                                *)
NoHiddenConnection ==
  /\ Settled /\ ~orphaned /\ ~late /\ ~upset
  /\ InTouch /\ starts = 0 /\ closes = 0 /\ ioStarts = 0
  /\ svc = "Connected"
  => mState = "CONNECTED"

(* Between flows the clock runs just when the button shows CONNECTED, as    *)
(* long as nothing has upset the flows.                                     *)
ClockAsShown ==
  Settled /\ ~orphaned /\ ~upset => (clock <=> mState = "CONNECTED")

(* The button comes back: a wait ends in an enabled button or in an ad,     *)
(* whether or not the service and the ad ever answer.                       *)
ButtonReturns ==
  \A m \in Models :
    phase[m] \in Waiting \cup {"result"}
      ~> phase[m] \in {"idle", "ad"} \/ activity # m
=============================================================================
