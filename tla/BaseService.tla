---------------------------- MODULE BaseService ----------------------------
(***************************************************************************)
(* The life cycle of the proxy service: core/.../bg/BaseService.kt with    *)
(* the overrides of VpnService.kt, ProxyService.kt and                     *)
(* TransproxyService.kt.                                                   *)
(*                                                                         *)
(* Nearly all of this code runs on the main thread of the :bg process, so  *)
(* a piece of code between two suspension points is one step here.  What   *)
(* interleaves is: start commands, broadcasts, the connecting coroutines   *)
(* (connectingJob), the coroutines launched by stopRunner, and the         *)
(* threads and child processes that a stop waits for.  The exception is    *)
(* VpnService.onRevoke, which Android calls on a Binder thread: there      *)
(* stopRunner tests the state, sets it and launches its coroutine without  *)
(* a lock, so the test, the assignment and the start of the coroutine on   *)
(* the main thread are three steps, and the main thread comes in between.  *)
(* A step of the main thread tests the state once and then may set it, so  *)
(* an assignment of the Binder thread during it counts as one before or    *)
(* after it (StartWithoutProfile, which tests twice, has the case in       *)
(* between).                                                               *)
(*                                                                         *)
(* A member of Start names one accepted start command, its connecting      *)
(* coroutine and whatever that coroutine creates.  A member of Stop names  *)
(* one coroutine launched by stopRunner.  Both are reused when free, so    *)
(* their sizes bound how many are in flight at a time, not how many occur. *)
(***************************************************************************)
EXTENDS Naturals, Sequences

CONSTANTS Start,                \* start commands in flight
          Stop,                 \* stopRunner coroutines in flight
          None,                 \* a null reference
          PersistAcrossReboot,  \* DataStore.persistAcrossReboot
          MaxPending            \* bound on undelivered start requests

ASSUME BaseServiceAssumption ==
         /\ None \notin Start
         /\ PersistAcrossReboot \in BOOLEAN
         /\ MaxPending \in Nat

VARIABLES
  isVpn,          \* it is a VpnService, and not one of the two others
  state,          \* data.state
  connectingJob,  \* data.connectingJob
  job,            \* where each connecting coroutine is suspended
  cancelled,      \* the connecting coroutines that were cancelled
  slot,           \* the fields of data and of the service, per resource
  live,           \* the resources each start created and nobody released
  proxy,          \* data.proxy # null
  closeReceiverRegistered,
  netKey,         \* the service is a key of DefaultNetworkListener.listeners
  bootEnabled,    \* BootReceiver.enabled
  stopper,        \* where each stopRunner coroutine is suspended
  target,         \* the job it joins
  restart,        \* its restart argument
  closing,        \* the <<start, resource>> pairs it waits for
  pendingStarts,  \* start requests the system has not delivered yet
  startRequested, \* the system holds the service as started
  revoking,       \* a call of onRevoke has tested the state
  \* history, since the service was last at rest
  overlapped,     \* a start was handled while another was connecting
  lateStart,      \* a start was accepted after stopSelf
  crossed,        \* a stop was launched while another was in flight
  outrun          \* Connected was set over a revoke whose stop had not begun

jobVars     == <<connectingJob, job>>
stopVars    == <<stopper, target, restart, closing>>
systemVars  == <<pendingStarts, startRequested>>
startHist   == <<overlapped, lateStart>>
raceHist    == <<crossed, outrun>>
resVars     == <<slot, live, proxy, closeReceiverRegistered, netKey>>
vars == <<isVpn, state, jobVars, cancelled, resVars, bootEnabled, stopVars,
          systemVars, revoking, startHist, raceHist>>

State    == {"Idle", "Connecting", "Connected", "Stopping", "Stopped"}
JobPhase == {"idle", "launched", "preInit", "flatten", "sendFd"}
Resource == {"processes", "localDns", "worker", "conn", "trafficMonitor",
             "notification"}

(* Released before the call that releases them returns, and released by a  *)
(* thread or a process that has to end first.                              *)
Sync  == {"conn", "notification"}
Async == Resource \ Sync

canStop(s) == s \in {"Connecting", "Connected"}

Alive == {i \in Start : job[i] # "idle"}

Closing == UNION {closing[s] : s \in Stop}

StopInFlight == \E s \in Stop : stopper[s] # "idle"

FreeStart(i) == /\ job[i] = "idle"
                /\ live[i] = {}
                /\ \A s \in Stop : target[s] # i

-----------------------------------------------------------------------------
(* data.connectingJob?.cancelAndJoin(): the job to wait for, and the job to *)
(* cancel.                                                                  *)
BugNoJoin == None
JobToJoin == connectingJob

BugJoinWithoutCancel == {}
JobToCancel == Alive \cap {connectingJob}

(* stopRunner up to its first suspension point.  It returns at once while   *)
(* a stop is in progress; otherwise the new coroutine cancels the job that  *)
(* data.connectingJob refers to and waits for it.  `ended' is the job whose *)
(* own step this is, if that job ends with the step.                        *)
StopRunner(again, ended) ==
  \/ /\ state = "Stopping"
     /\ cancelled' = cancelled \ ended
     /\ UNCHANGED <<state, stopVars, raceHist>>
  \/ /\ state # "Stopping"
     /\ state' = "Stopping"
     /\ \E s \in Stop :
          /\ stopper[s] = "idle"
          /\ stopper' = [stopper EXCEPT ![s] = "join"]
          /\ target' = [target EXCEPT ![s] = JobToJoin]
          /\ restart' = [restart EXCEPT ![s] = again]
     /\ cancelled' = (cancelled \cup JobToCancel) \ ended
     /\ crossed' = (crossed \/ StopInFlight)
     /\ UNCHANGED <<closing, outrun>>

(* The same on the Binder thread, once its test is passed: the state is     *)
(* set, whatever it is by now, and the coroutine is only posted.            *)
RevokeStops ==
  /\ revoking /\ revoking' = FALSE
  /\ state' = "Stopping"
  /\ \E s \in Stop :
       /\ stopper[s] = "idle"
       /\ stopper' = [stopper EXCEPT ![s] = "posted"]
  /\ crossed' = (crossed \/ StopInFlight)
  /\ UNCHANGED <<target, restart, closing, cancelled, outrun>>

-----------------------------------------------------------------------------
(* Start requests: Core.startService from the app, BootReceiver, always-on. *)
RequestStart ==
  /\ pendingStarts < MaxPending
  /\ pendingStarts' = pendingStarts + 1
  /\ startRequested' = TRUE
  /\ UNCHANGED <<state, jobVars, cancelled, resVars, bootEnabled, stopVars,
                 revoking, startHist, raceHist>>

Delivered == /\ pendingStarts > 0
             /\ pendingStarts' = pendingStarts - 1
             /\ UNCHANGED startRequested

(* The guard of onStartCommand.                                             *)
BugMayStartUnlessStopping == state # "Stopping"
BugMayStartUnlessConnected == state # "Connected"
MayStart == state = "Stopped"

(* VpnService.onStartCommand: no VPN permission, or another service mode.   *)
StartUnprepared ==
  /\ isVpn
  /\ Delivered
  /\ StopRunner(FALSE, {})
  /\ UNCHANGED <<jobVars, resVars, bootEnabled, revoking, startHist>>

StartIgnored ==
  /\ Delivered
  /\ ~MayStart
  /\ UNCHANGED <<state, jobVars, cancelled, resVars, bootEnabled, stopVars,
                 revoking, startHist, raceHist>>

(* Core.currentProfile is null: a notification, then stopRunner, which does *)
(* nothing if a revoke comes in between.                                    *)
StartWithoutProfile(i) ==
  /\ Delivered
  /\ MayStart
  /\ FreeStart(i)
  /\ slot' = [slot EXCEPT !["notification"] = i]
  /\ live' = [live EXCEPT ![i] = {"notification"}]
  /\ (StopRunner(FALSE, {}) /\ UNCHANGED revoking) \/ RevokeStops
  /\ overlapped' = (overlapped \/ Alive # {})
  /\ UNCHANGED <<jobVars, proxy, closeReceiverRegistered, netKey, bootEnabled,
                 lateStart>>

(* The new ProxyInstance has no traffic monitor yet.  The state is left at  *)
(* Stopped: it is only changed when the job succeeds.                       *)
StartAccepted(i) ==
  /\ Delivered
  /\ MayStart
  /\ FreeStart(i)
  /\ proxy' = TRUE
  /\ bootEnabled' = PersistAcrossReboot
  /\ closeReceiverRegistered' = TRUE
  /\ slot' = [slot EXCEPT !["trafficMonitor"] = None, !["notification"] = i]
  /\ live' = [live EXCEPT ![i] = {"notification"}]
  /\ connectingJob' = i
  /\ job' = [job EXCEPT ![i] = "launched"]
  /\ overlapped' = (overlapped \/ Alive # {})
  /\ lateStart' = (lateStart \/ ~startRequested)
  /\ UNCHANGED <<state, cancelled, netKey, stopVars, revoking, raceHist>>

-----------------------------------------------------------------------------
(* The connecting coroutine of start i.                                     *)

Suspend(i, phase) ==
  /\ job' = [job EXCEPT ![i] = phase]
  /\ UNCHANGED <<state, connectingJob, cancelled, stopVars, raceHist>>

(* The end of the body: changeState(Connected), whatever the state is, then *)
(* the finally block.                                                       *)
Connect(i) ==
  /\ state' = "Connected"
  /\ job' = [job EXCEPT ![i] = "idle"]
  /\ connectingJob' = None
  /\ cancelled' = cancelled \ {i}
  /\ outrun' = \E s \in Stop : stopper[s] = "posted"
  /\ UNCHANGED <<stopVars, crossed>>

(* catch Throwable: stopRunner, then the finally block.                     *)
Fail(i) ==
  /\ StopRunner(FALSE, {i})
  /\ job' = [job EXCEPT ![i] = "idle"]
  /\ connectingJob' = None

(* What data.processes = ... and startProcesses create, in this order.      *)
Chain ==
  IF isVpn THEN <<"processes", "worker", "trafficMonitor", "localDns", "conn">>
           ELSE <<"processes", "trafficMonitor", "localDns">>

Built(k) == {Chain[n] : n \in 1..k}

(* Nothing suspends between the creation of the pool and sendFd.  Any step  *)
(* may throw, and data.proxy!! does when the proxy is gone.                 *)
StartProcesses(i) ==
  \E k \in 1..Len(Chain) :
    /\ proxy \/ "trafficMonitor" \notin Built(k)
    /\ slot' = [r \in Resource |-> IF r \in Built(k) THEN i ELSE slot[r]]
    /\ live' = [live EXCEPT ![i] = @ \cup Built(k)]
    /\ \/ Fail(i)
       \/ /\ k = Len(Chain)
          /\ IF isVpn THEN Suspend(i, "sendFd") ELSE Connect(i)

(* After preInit: the custom rules are flattened on an IO thread if the     *)
(* profile routes by them.                                                  *)
Proceed(i) ==
  \/ Suspend(i, "flatten") /\ UNCHANGED <<slot, live>>
  \/ StartProcesses(i)

(* Jobs are dispatched in the order they were launched in: the latest one   *)
(* comes last.                                                              *)
DispatchedInOrder(i) ==
  connectingJob = i => \A k \in Start \ {i} : job[k] # "launched"

JobUnchanged ==
  UNCHANGED <<proxy, closeReceiverRegistered, bootEnabled, systemVars, revoking,
              startHist>>

(* preInit of VpnService sends to an actor and may suspend; the others'     *)
(* does nothing.                                                            *)
JobBegin(i) ==
  /\ job[i] = "launched"
  /\ i \notin cancelled
  /\ DispatchedInOrder(i)
  /\ \/ isVpn /\ Suspend(i, "preInit") /\ UNCHANGED <<slot, live, netKey>>
     \/ netKey' = isVpn /\ Proceed(i)
  /\ JobUnchanged

JobPreInit(i) ==
  /\ job[i] = "preInit"
  /\ i \notin cancelled
  /\ netKey' = TRUE
  /\ Proceed(i)
  /\ JobUnchanged

JobFlattened(i) ==
  /\ job[i] = "flatten"
  /\ i \notin cancelled
  /\ StartProcesses(i) \/ (Fail(i) /\ UNCHANGED <<slot, live>>)
  /\ UNCHANGED netKey
  /\ JobUnchanged

(* sendFd succeeds, or has thrown after its last retry.                     *)
JobSendFd(i) ==
  /\ job[i] = "sendFd"
  /\ i \notin cancelled
  /\ (proxy /\ Connect(i)) \/ Fail(i)
  /\ UNCHANGED <<slot, live, netKey>>
  /\ JobUnchanged

(* A cancelled job ends when it is next dispatched.  One that had not begun *)
(* never enters its try block, so its finally block does not run; one that  *)
(* was sending to the network actor may have been heard.                    *)
JobCancelled(i) ==
  /\ i \in cancelled
  /\ job[i] = "launched" => DispatchedInOrder(i)
  /\ job' = [job EXCEPT ![i] = "idle"]
  /\ cancelled' = cancelled \ {i}
  /\ connectingJob' = IF job[i] = "launched" THEN connectingJob ELSE None
  /\ netKey' \in IF job[i] = "preInit" THEN {netKey, TRUE} ELSE {netKey}
  /\ UNCHANGED <<state, slot, live, stopVars, raceHist>>
  /\ JobUnchanged

-----------------------------------------------------------------------------
(* Requests to stop.  Broadcasts reach the service only while its receiver  *)
(* is registered.                                                           *)
CloseReceived ==
  /\ closeReceiverRegistered
  /\ StopRunner(FALSE, {})
  /\ UNCHANGED <<jobVars, resVars, bootEnabled, systemVars, revoking, startHist>>

(* Action.RELOAD: forceLoad.                                                *)
ReloadReceived ==
  /\ closeReceiverRegistered
  /\ \/ /\ state = "Stopped"
        /\ pendingStarts < MaxPending
        /\ pendingStarts' = pendingStarts + 1
        /\ startRequested' = TRUE
        /\ UNCHANGED <<state, cancelled, stopVars, raceHist>>
     \/ /\ canStop(state)
        /\ StopRunner(TRUE, {})
        /\ UNCHANGED systemVars
  /\ UNCHANGED <<jobVars, resVars, bootEnabled, revoking, startHist>>

(* A guard of an open pool gives up: onFatal, or the ErrnoException of      *)
(* tun2socks' onRestartCallback.                                            *)
PoolFatal(i) ==
  /\ "processes" \in live[i]
  /\ <<i, "processes">> \notin Closing
  /\ StopRunner(FALSE, {})
  /\ UNCHANGED <<jobVars, resVars, bootEnabled, systemVars, revoking, startHist>>

(* VpnService.onRevoke, on a Binder thread, when the system has taken the   *)
(* interface away: stopRunner finds a state other than Stopping, and will   *)
(* go on, however late.  (In Stopping it returns.  The call is one-way: one *)
(* that comes late, to a later state, does what one does here that was      *)
(* tested early.)  At most one such call is under way.                      *)
RevokeTest ==
  /\ ~revoking /\ revoking' = TRUE
  /\ \E i \in Start : "conn" \in live[i]
  /\ state # "Stopping"
  /\ UNCHANGED <<state, jobVars, cancelled, resVars, bootEnabled, stopVars,
                 systemVars, startHist, raceHist>>

RevokeStop ==
  /\ RevokeStops
  /\ UNCHANGED <<jobVars, resVars, bootEnabled, systemVars, startHist>>

(* The main thread begins the coroutine that the revoke posted: it cancels  *)
(* the connecting job there is now, and waits for it.                       *)
StopBegin(s) ==
  /\ stopper[s] = "posted"
  /\ stopper' = [stopper EXCEPT ![s] = "join"]
  /\ target' = [target EXCEPT ![s] = JobToJoin]
  /\ cancelled' = cancelled \cup JobToCancel
  /\ UNCHANGED <<state, jobVars, resVars, bootEnabled, restart, closing,
                 systemVars, revoking, startHist, raceHist>>

-----------------------------------------------------------------------------
(* What the clean-up hands to a child coroutine, and the fields it leaves.  *)
BugMonitorForgotten == {r \in Async \ {"trafficMonitor"} : slot[r] # None}
ShutDown == {r \in Async : slot[r] # None}

ClearedFields == [r \in Resource |-> None]

(* The coroutine of stopRunner, after the join: killProcesses and the rest  *)
(* of the coroutineScope block, up to the wait for its children.  The key   *)
(* VpnService.killProcesses hands to DefaultNetworkListener.stop is `this'  *)
(* of a launch block, the coroutine; the service remains a listener.        *)
StopCleanup(s) ==
  /\ stopper[s] = "join"
  /\ target[s] \notin Alive
  /\ stopper' = [stopper EXCEPT ![s] = "closing"]
  /\ closing' = [closing EXCEPT ![s] = {<<slot[r], r>> : r \in ShutDown}]
  /\ live' = [i \in Start |-> live[i] \ {r \in Sync : slot[r] = i}]
  /\ slot' = ClearedFields
  /\ target' = [target EXCEPT ![s] = None]
  /\ proxy' = FALSE
  /\ closeReceiverRegistered' = FALSE
  /\ UNCHANGED <<state, jobVars, cancelled, netKey, bootEnabled, restart,
                 systemVars, revoking, startHist, raceHist>>

(* A pool has joined its guards, or a socket thread has left its loop.      *)
Closed(s, i, r) ==
  /\ <<i, r>> \in closing[s]
  /\ closing' = [closing EXCEPT ![s] = @ \ {<<i, r>>}]
  /\ live' = [live EXCEPT ![i] = @ \ {r}]
  /\ UNCHANGED <<state, jobVars, cancelled, slot, proxy,
                 closeReceiverRegistered, netKey, bootEnabled, stopper, target,
                 restart, systemVars, revoking, startHist, raceHist>>

(* coroutineScope returns when all of its children have.                    *)
BugChildrenLaunched(s) == stopper[s] = "closing"
ChildrenDone(s) == stopper[s] = "closing" /\ closing[s] = {}

(* Nothing is running, held or being released any more once s has ended;    *)
(* the history starts again.                                                *)
AtRestAfter(s) ==
  /\ Alive = {}
  /\ \A i \in Start : live[i] = {}
  /\ \A t \in Stop \ {s} : stopper[t] = "idle"
  /\ ~proxy /\ ~closeReceiverRegistered

(* After the coroutineScope: changeState(Stopped), whatever the state is,   *)
(* then startRunner or stopSelf.                                            *)
StopFinish(s) ==
  /\ ChildrenDone(s)
  /\ state' = "Stopped"
  /\ stopper' = [stopper EXCEPT ![s] = "idle"]
  /\ restart' = [restart EXCEPT ![s] = FALSE]
  /\ startRequested' = restart[s]
  /\ pendingStarts' = IF restart[s] THEN pendingStarts + 1 ELSE pendingStarts
  /\ bootEnabled' = (bootEnabled /\ restart[s])
  /\ overlapped' = (overlapped /\ ~AtRestAfter(s))
  /\ lateStart' = (lateStart /\ ~AtRestAfter(s))
  /\ crossed' = (crossed /\ ~AtRestAfter(s))
  /\ outrun' = FALSE
  /\ UNCHANGED <<jobVars, cancelled, resVars, target, closing, revoking>>

-----------------------------------------------------------------------------
Init ==
  /\ isVpn \in BOOLEAN
  /\ state = "Stopped"
  /\ connectingJob = None
  /\ job = [i \in Start |-> "idle"]
  /\ cancelled = {}
  /\ slot = [r \in Resource |-> None]
  /\ live = [i \in Start |-> {}]
  /\ proxy = FALSE
  /\ closeReceiverRegistered = FALSE
  /\ netKey = FALSE
  /\ bootEnabled = FALSE
  /\ stopper = [s \in Stop |-> "idle"]
  /\ target = [s \in Stop |-> None]
  /\ restart = [s \in Stop |-> FALSE]
  /\ closing = [s \in Stop |-> {}]
  /\ pendingStarts = 0
  /\ startRequested = FALSE
  /\ revoking = FALSE
  /\ overlapped = FALSE
  /\ lateStart = FALSE
  /\ crossed = FALSE
  /\ outrun = FALSE

Command == \/ StartUnprepared
           \/ StartIgnored
           \/ \E i \in Start : StartWithoutProfile(i) \/ StartAccepted(i)

JobStep(i) == \/ JobBegin(i)
              \/ JobPreInit(i)
              \/ JobFlattened(i)
              \/ JobSendFd(i)
              \/ JobCancelled(i)

StopRequest == \/ CloseReceived
               \/ ReloadReceived
               \/ \E i \in Start : PoolFatal(i)

(* stopRunner runs on Dispatchers.Main.immediate: with no job to wait for,  *)
(* and as soon as that job has ended, the clean-up follows at once, before  *)
(* the main thread does anything else.                                      *)
CleanupIsNext == \E s \in Stop : stopper[s] = "join" /\ target[s] \notin Alive

MainThread == \/ Command
              \/ StopRequest
              \/ \E i \in Start : JobStep(i)
              \/ \E s \in Stop : StopBegin(s) \/ StopFinish(s)

BinderThread == RevokeTest \/ RevokeStop

Next ==
  /\ \/ RequestStart
     \/ BinderThread
     \/ ~CleanupIsNext /\ MainThread
     \/ \E s \in Stop : StopCleanup(s)
     \/ \E s \in Stop, i \in Start, r \in Async : Closed(s, i, r)
  /\ UNCHANGED isVpn

Spec == Init /\ [][Next]_vars

(* The main looper runs what is posted to it, sendFd gives up after its     *)
(* retries, and a socket thread leaves its loop once its socket is shut     *)
(* down.  Nothing is assumed of a pool being joined, nor of an IO thread    *)
(* blocked in flatten.                                                      *)
Progress ==
  \/ /\ ~CleanupIsNext
     /\ \/ \E i \in Start : \/ JobBegin(i)
                            \/ JobPreInit(i)
                            \/ JobSendFd(i)
                            \/ job[i] # "flatten" /\ JobCancelled(i)
        \/ \E s \in Stop : StopBegin(s) \/ StopFinish(s)
  \/ \E s \in Stop : StopCleanup(s)
  \/ \E s \in Stop, i \in Start, r \in Async \ {"processes"} : Closed(s, i, r)

FairSpec == Spec /\ WF_vars(Progress /\ UNCHANGED isVpn)

-----------------------------------------------------------------------------
TypeOK ==
  /\ isVpn \in BOOLEAN
  /\ state \in State
  /\ connectingJob \in Start \cup {None}
  /\ job \in [Start -> JobPhase]
  /\ cancelled \in SUBSET Start
  /\ slot \in [Resource -> Start \cup {None}]
  /\ live \in [Start -> SUBSET Resource]
  /\ proxy \in BOOLEAN
  /\ closeReceiverRegistered \in BOOLEAN
  /\ netKey \in BOOLEAN
  /\ bootEnabled \in BOOLEAN
  /\ stopper \in [Stop -> {"idle", "posted", "join", "closing"}]
  /\ target \in [Stop -> Start \cup {None}]
  /\ restart \in [Stop -> BOOLEAN]
  /\ closing \in [Stop -> SUBSET (Start \X Async)]
  /\ pendingStarts \in Nat
  /\ startRequested \in BOOLEAN
  /\ revoking \in BOOLEAN
  /\ overlapped \in BOOLEAN
  /\ lateStart \in BOOLEAN
  /\ crossed \in BOOLEAN
  /\ outrun \in BOOLEAN

(* No field of the service ever refers to a resource that has been          *)
(* released or whose release has begun (killProcesses and the block around  *)
(* it clear every field they shut down).                                    *)
FieldsRefToOpen ==
  \A r \in Resource :
    slot[r] # None => /\ r \in live[slot[r]]
                      /\ <<slot[r], r>> \notin Closing

(* "ensure stop connecting first": once a stop has begun to release things, *)
(* no connecting coroutine is running that could create new ones.           *)
StopJoinsConnecting ==
  \A s \in Stop : stopper[s] = "closing" => Alive = {}

(* As long as no start command was handled while another was connecting,    *)
(* the join in stopRunner works, even where a revoke launches a second stop *)
(* next to the first: a stop that goes on to release things finds no        *)
(* connecting coroutine running.                                            *)
StopJoinsConnectingUnlessOverlapped == ~overlapped /\ CleanupIsNext => Alive = {}

(* Since the service was last at rest, its starts and its stops have come   *)
(* one at a time.                                                           *)
Serial == ~overlapped /\ ~crossed

(* Unless starts overlapped or stops crossed, everything a start created is *)
(* reachable from a field, so that the next stop finds it, or is being      *)
(* released.                                                                *)
NothingLeaked ==
  Serial =>
    \A i \in Start : \A r \in live[i] : slot[r] = i \/ <<i, r>> \in Closing

(* Unless starts overlapped or stops crossed, a service in Stopped that is  *)
(* not connecting holds nothing but its network listener: no process,       *)
(* thread, socket, interface, notification or receiver, and no stop; and it *)
(* comes back after a reboot only if a restart is due.                      *)
StoppedIsClean ==
  Serial /\ state = "Stopped" /\ Alive = {} =>
    /\ \A i \in Start : live[i] = {}
    /\ \A r \in Resource : slot[r] = None
    /\ ~proxy /\ ~closeReceiverRegistered
    /\ bootEnabled => pendingStarts > 0
    /\ ~StopInFlight

(* "clean-up": a service at rest in Stopped does not listen to the network. *)
ListenerReleased == state = "Stopped" /\ Alive = {} => ~netKey

(* Unless starts overlapped or stops crossed, a connected service has all   *)
(* of its parts and the user can still stop it (the receiver of             *)
(* Action.CLOSE is registered) until a stop begins; and a stop is under way *)
(* behind its back only if the connecting coroutine went on to Connected    *)
(* before the stop that a revoke had posted could begin.                    *)
ConnectedIsComplete ==
  Serial /\ state = "Connected" =>
    /\ Alive = {}
    /\ StopInFlight => outrun
    /\ (\A s \in Stop : stopper[s] # "closing") =>
         /\ \A n \in 1..Len(Chain) : slot[Chain[n]] # None
         /\ slot["notification"] # None
         /\ proxy /\ closeReceiverRegistered /\ netKey = isVpn
         /\ bootEnabled = PersistAcrossReboot

(* While it connects or is connected the system holds the service as        *)
(* started, so losing its last client does not destroy it; except after a   *)
(* start that was delivered when stopSelf had already been called, and      *)
(* after stops that crossed: the last to end calls stopSelf on whatever     *)
(* runs by then.                                                            *)
RunningIsStarted ==
  Serial /\ ~lateStart /\ (state = "Connected" \/ Alive # {}) => startRequested

(* Unless starts overlapped or stops crossed, the state moves only as its   *)
(* readers expect: a stop ends in Stopped before anything can be Connected  *)
(* again, and Connected is left through Stopping only, except that a        *)
(* revoke's Stopping is overwritten by a coroutine that goes on to          *)
(* Connected, and the stop then ends from there.                            *)
LegalTransition ==
  \/ <<state, state'>> \in {<<"Stopped", "Connected">>, <<"Stopped", "Stopping">>,
                            <<"Connected", "Stopping">>, <<"Stopping", "Stopped">>}
  \/ <<state, state'>> = <<"Stopping", "Connected">> /\ outrun'
  \/ <<state, state'>> = <<"Connected", "Stopped">> /\ outrun

LegalTransitions == [][Serial => LegalTransition]_state

(* A stop waits for a process pool to be joined, or for the IO thread of a  *)
(* cancelled flatten.                                                       *)
Blocked ==
  \E i \in Start :
    <<i, "processes">> \in Closing \/ (job[i] = "flatten" /\ i \in cancelled)

(* A stop always ends, unless it is stuck for good behind a pool that is    *)
(* not joined or a flatten that does not return: nothing else can keep the  *)
(* service in Stopping, the state in which it ignores every command.        *)
StopCompletes == []<>(state # "Stopping") \/ <>[]Blocked

-----------------------------------------------------------------------------
(* The inductive invariant behind the safety properties.  The first part    *)
(* holds always, the second as long as starts have not overlapped, the      *)
(* third as long as stops have not crossed either.                          *)

Early == {"launched", "preInit", "flatten"}

(* Only a coroutine that has not ended is cancelled.                        *)
CancelledAlive == cancelled \subseteq Alive

(* A coroutine that has not reached startProcesses has made nothing but the *)
(* notification of its start command.                                       *)
EarlyHoldsLittle ==
  \A i \in Start : job[i] \in Early => live[i] \subseteq {"notification"}

VpnPhases == \A i \in Start : job[i] \in {"preInit", "sendFd"} => isVpn

(* Only a stop past its clean-up waits for resources, each of them not yet  *)
(* released and waited for by no other stop.                                *)
ClosingByStop == \A s \in Stop : closing[s] # {} => stopper[s] = "closing"

ClosingIsLive ==
  \A s \in Stop, i \in Start, r \in Async :
    <<i, r>> \in closing[s] =>
      /\ r \in live[i]
      /\ \A t \in Stop : <<i, r>> \in closing[t] => t = s

ResourceInv ==
  /\ FieldsRefToOpen
  /\ CancelledAlive
  /\ EarlyHoldsLittle
  /\ VpnPhases
  /\ ClosingByStop
  /\ ClosingIsLive

(* At most one connecting coroutine is running; data.connectingJob refers   *)
(* to it, and so does every stop that is waiting for a job.                 *)
OneJob ==
  \A i \in Alive :
    /\ connectingJob = i
    /\ \A s \in Stop : stopper[s] = "join" => target[s] = i

(* At most one stop is in flight: in the state Stopping, or behind a        *)
(* Connected that outran it.                                                *)
OneStop ==
  /\ \A s, t \in Stop : stopper[s] # "idle" /\ stopper[t] # "idle" => s = t
  /\ state = "Stopping" => StopInFlight
  /\ StopInFlight => state = "Stopping" \/ (state = "Connected" /\ outrun)

(* The stop releases nothing while the job runs, and has cancelled it once  *)
(* it waits for it.                                                         *)
StopWaits ==
  \A i \in Alive :
    /\ state # "Connected"
    /\ i \in cancelled <=> \E s \in Stop : stopper[s] = "join"
    /\ \A s \in Stop : stopper[s] # "closing"

(* What the connecting job finds in place at each of its phases; no other   *)
(* start holds anything.                                                    *)
JobHolds ==
  \A i \in Alive :
    /\ \A j \in Start \ {i} : live[j] = {}
    /\ slot["notification"] = i
    /\ proxy /\ closeReceiverRegistered
    /\ bootEnabled = PersistAcrossReboot
    /\ job[i] \in {"flatten", "sendFd"} => netKey = isVpn
    /\ job[i] = "sendFd" => \A n \in 1..Len(Chain) : slot[Chain[n]] = i

(* Nothing is left in the fields once the clean-up has run.                 *)
CleanedUp ==
  \A s \in Stop :
    stopper[s] = "closing" =>
      /\ \A r \in Resource : slot[r] = None
      /\ ~proxy /\ ~closeReceiverRegistered

SerialInv == OneStop /\ StopWaits /\ JobHolds /\ CleanedUp

SafetyInv ==
  /\ ~overlapped => OneJob
  /\ Serial => SerialInv
  /\ NothingLeaked
  /\ StoppedIsClean
  /\ ConnectedIsComplete
  /\ RunningIsStarted

IInv == TypeOK /\ ResourceInv /\ SafetyInv
=============================================================================
