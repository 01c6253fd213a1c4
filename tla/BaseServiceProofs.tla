------------------------- MODULE BaseServiceProofs -------------------------
(***************************************************************************)
(* Proofs about the service life cycle of BaseService, for any number of   *)
(* starts and stops in flight and for every kind of service.               *)
(***************************************************************************)
EXTENDS BaseService, TLAPS

(* What startProcesses builds is a set of resources.                        *)
LEMMA BuiltResources == \A k \in 1..Len(Chain) : Built(k) \subseteq Resource
<1>1. CASE isVpn
  BY <1>1 DEF Built, Chain, Resource
<1>2. CASE ~isVpn
  BY <1>2 DEF Built, Chain, Resource
<1>3. QED BY Zenon, <1>1, <1>2

(* The kind of the service says what startProcesses builds.                *)
LEMMA SameChain == UNCHANGED isVpn => UNCHANGED Chain
BY DEF Chain

(* stopRunner keeps the types of everything it changes.                     *)
LEMMA StopRunnerType ==
  ASSUME TypeOK, NEW again \in BOOLEAN, NEW ended \in SUBSET Start,
         StopRunner(again, ended)
  PROVE  /\ state' \in State
         /\ cancelled' \in SUBSET Start
         /\ stopper' \in [Stop -> {"idle", "posted", "join", "closing"}]
         /\ target' \in [Stop -> Start \cup {None}]
         /\ restart' \in [Stop -> BOOLEAN]
         /\ closing' \in [Stop -> SUBSET (Start \X Async)]
         /\ crossed' \in BOOLEAN /\ outrun' \in BOOLEAN
<1>1. CASE state = "Stopping"
  BY Zenon, <1>1 DEF TypeOK, StopRunner, State, stopVars, raceHist
<1>2. CASE state # "Stopping"
  <2>1. crossed' \in BOOLEAN /\ outrun' \in BOOLEAN
    BY Zenon, <1>2 DEF TypeOK, StopRunner
  <2>2. QED BY <1>2, <2>1 DEF TypeOK, StopRunner, State, Alive, JobToJoin, JobToCancel
<1>3. QED BY Zenon, <1>1, <1>2

(* So does a revoke.                                                        *)
LEMMA RevokeStopsType ==
  ASSUME TypeOK, RevokeStops
  PROVE  /\ state' \in State
         /\ cancelled' \in SUBSET Start
         /\ stopper' \in [Stop -> {"idle", "posted", "join", "closing"}]
         /\ target' \in [Stop -> Start \cup {None}]
         /\ restart' \in [Stop -> BOOLEAN]
         /\ closing' \in [Stop -> SUBSET (Start \X Async)]
         /\ crossed' \in BOOLEAN /\ outrun' \in BOOLEAN
         /\ revoking' \in BOOLEAN
BY Zenon DEF TypeOK, RevokeStops, State

(* So do the suspension and the two ends of a connecting coroutine.         *)
LEMMA JobEndType ==
  ASSUME TypeOK, NEW i \in Start,
         \/ \E phase \in JobPhase : Suspend(i, phase)
         \/ Connect(i)
         \/ Fail(i)
  PROVE  /\ state' \in State
         /\ connectingJob' \in Start \cup {None}
         /\ job' \in [Start -> JobPhase]
         /\ cancelled' \in SUBSET Start
         /\ stopper' \in [Stop -> {"idle", "posted", "join", "closing"}]
         /\ target' \in [Stop -> Start \cup {None}]
         /\ restart' \in [Stop -> BOOLEAN]
         /\ closing' \in [Stop -> SUBSET (Start \X Async)]
         /\ crossed' \in BOOLEAN /\ outrun' \in BOOLEAN
<1>1. CASE \E phase \in JobPhase : Suspend(i, phase)
  BY Zenon, <1>1 DEF TypeOK, Suspend, stopVars, raceHist
<1>2. CASE Connect(i)
  BY Zenon, <1>2 DEF TypeOK, Connect, stopVars, State, JobPhase
<1>3. CASE Fail(i)
  <2>1. StopRunner(FALSE, {i}) BY <1>3, Zenon DEF Fail
  <2>2. connectingJob' \in Start \cup {None} /\ job' \in [Start -> JobPhase]
    BY Zenon, <1>3 DEF Fail, TypeOK, JobPhase
  <2>3. QED BY <2>1, <2>2, StopRunnerType, Zenon
<1>4. QED BY Zenon, <1>1, <1>2, <1>3

(* startProcesses keeps the types, whether it completes or fails.           *)
LEMMA StartProcessesType ==
  ASSUME TypeOK, NEW i \in Start, StartProcesses(i)
  PROVE  /\ slot' \in [Resource -> Start \cup {None}]
         /\ live' \in [Start -> SUBSET Resource]
         /\ \/ \E phase \in JobPhase : Suspend(i, phase)
            \/ Connect(i)
            \/ Fail(i)
<1>1. PICK k \in 1..Len(Chain) :
        /\ slot' = [r \in Resource |-> IF r \in Built(k) THEN i ELSE slot[r]]
        /\ live' = [live EXCEPT ![i] = @ \cup Built(k)]
        /\ \/ Fail(i)
           \/ IF isVpn THEN Suspend(i, "sendFd") ELSE Connect(i)
  BY Zenon DEF StartProcesses
<1>2. slot' \in [Resource -> Start \cup {None}]
  BY Zenon, <1>1 DEF TypeOK
<1>3. live' \in [Start -> SUBSET Resource]
  BY Zenon, <1>1, BuiltResources DEF TypeOK
<1>4. "sendFd" \in JobPhase BY Zenon DEF JobPhase
<1>5. QED BY Zenon, <1>1, <1>2, <1>3, <1>4

(* So does the rest of the connecting job after init.                       *)
LEMMA ProceedType ==
  ASSUME TypeOK, NEW i \in Start, Proceed(i)
  PROVE  /\ slot' \in [Resource -> Start \cup {None}]
         /\ live' \in [Start -> SUBSET Resource]
         /\ \/ \E phase \in JobPhase : Suspend(i, phase)
            \/ Connect(i)
            \/ Fail(i)
<1>1. CASE Suspend(i, "flatten") /\ UNCHANGED <<slot, live>>
  <2>1. "flatten" \in JobPhase BY Zenon DEF JobPhase
  <2>2. QED BY Zenon, <1>1, <2>1 DEF TypeOK
<1>2. CASE StartProcesses(i)
  BY Zenon, <1>2, StartProcessesType
<1>3. QED BY Zenon, <1>1, <1>2 DEF Proceed

(* Every variable keeps its type in every step.                             *)
LEMMA TypeStep == TypeOK /\ [Next]_vars => TypeOK'
<1> SUFFICES ASSUME TypeOK, [Next]_vars PROVE TypeOK'
  BY Zenon
<1> UNCHANGED isVpn BY Zenon DEF Next, vars
<1> USE BaseServiceAssumption
<1>stop. ASSUME NEW again \in BOOLEAN, StopRunner(again, {}),
                pendingStarts' \in Nat, startRequested' \in BOOLEAN,
                UNCHANGED <<connectingJob, job>>,
                UNCHANGED <<slot, live, proxy, closeReceiverRegistered, netKey>>,
                UNCHANGED <<bootEnabled, revoking, overlapped, lateStart>>
         PROVE  TypeOK'
  <2>1. {} \in SUBSET Start BY Zenon
  <2>2. QED BY <1>stop, <2>1, StopRunnerType, ZenonT(30) DEF TypeOK
<1>1. CASE RequestStart
  BY <1>1 DEF TypeOK, RequestStart, jobVars, resVars, stopVars, startHist, raceHist
<1>2. CASE StartUnprepared
  <2>1. StopRunner(FALSE, {}) BY <1>2, Zenon DEF StartUnprepared
  <2>2. pendingStarts' \in Nat /\ startRequested' \in BOOLEAN
    BY <1>2 DEF StartUnprepared, Delivered, TypeOK
  <2>3. QED BY <1>2, <1>stop, <2>1, <2>2, Zenon
            DEF StartUnprepared, jobVars, resVars, startHist
<1>3. CASE StartIgnored
  BY <1>3 DEF TypeOK, StartIgnored, Delivered, jobVars, resVars, stopVars,
              startHist, raceHist
<1>4. ASSUME NEW i \in Start, StartWithoutProfile(i) PROVE TypeOK'
  <2>1. (StopRunner(FALSE, {}) /\ UNCHANGED revoking) \/ RevokeStops
    BY <1>4, Zenon DEF StartWithoutProfile
  <2>2. slot' \in [Resource -> Start \cup {None}]
        /\ live' \in [Start -> SUBSET Resource]
    BY Zenon, <1>4 DEF StartWithoutProfile, TypeOK, Resource
  <2>3. pendingStarts' \in Nat /\ startRequested' \in BOOLEAN
    BY <1>4 DEF StartWithoutProfile, Delivered, TypeOK
  <2>4. overlapped' \in BOOLEAN /\ lateStart' \in BOOLEAN
    BY <1>4, Zenon DEF StartWithoutProfile, TypeOK
  <2>5. CASE StopRunner(FALSE, {}) /\ UNCHANGED revoking
    BY <1>4, <2>2, <2>3, <2>4, <2>5, StopRunnerType, Zenon
       DEF StartWithoutProfile, TypeOK, jobVars
  <2>6. CASE RevokeStops
    BY <1>4, <2>2, <2>3, <2>4, <2>6, RevokeStopsType, Zenon
       DEF StartWithoutProfile, TypeOK, jobVars
  <2>7. QED BY <2>1, <2>5, <2>6, Zenon
<1>5. ASSUME NEW i \in Start, StartAccepted(i) PROVE TypeOK'
  <2>1. slot' \in [Resource -> Start \cup {None}]
        /\ live' \in [Start -> SUBSET Resource]
    BY Zenon, <1>5 DEF StartAccepted, TypeOK, Resource
  <2>2. pendingStarts' \in Nat /\ startRequested' \in BOOLEAN
    BY <1>5 DEF StartAccepted, Delivered, TypeOK
  <2>3. overlapped' \in BOOLEAN /\ lateStart' \in BOOLEAN
    BY <1>5, Zenon DEF StartAccepted, TypeOK
  <2>4. job' \in [Start -> JobPhase]
    BY Zenon, <1>5 DEF StartAccepted, TypeOK, JobPhase
  <2>5. QED
    BY Zenon, <1>5, <2>1, <2>2, <2>3, <2>4 DEF StartAccepted, TypeOK, stopVars, raceHist
<1>6. ASSUME NEW i \in Start, JobBegin(i) PROVE TypeOK'
  <2>1. CASE isVpn /\ Suspend(i, "preInit") /\ UNCHANGED <<slot, live, netKey>>
    <3>1. "preInit" \in JobPhase BY Zenon DEF JobPhase
    <3>2. QED BY <1>6, <2>1, <3>1, JobEndType
              DEF JobBegin, JobUnchanged, TypeOK, systemVars, startHist
  <2>2. CASE netKey' = isVpn /\ Proceed(i)
    BY <1>6, <2>2, ProceedType, JobEndType
       DEF JobBegin, JobUnchanged, TypeOK, systemVars, startHist
  <2>3. QED BY Zenon, <1>6, <2>1, <2>2 DEF JobBegin
<1>7. ASSUME NEW i \in Start, JobPreInit(i) PROVE TypeOK'
  BY <1>7, ProceedType, JobEndType
     DEF JobPreInit, JobUnchanged, TypeOK, systemVars, startHist
<1>8. ASSUME NEW i \in Start, JobFlattened(i) PROVE TypeOK'
  BY <1>8, StartProcessesType, JobEndType
     DEF JobFlattened, JobUnchanged, TypeOK, systemVars, startHist
<1>9. ASSUME NEW i \in Start, JobSendFd(i) PROVE TypeOK'
  BY <1>9, JobEndType
     DEF JobSendFd, JobUnchanged, TypeOK, systemVars, startHist
<1>10. ASSUME NEW i \in Start, JobCancelled(i) PROVE TypeOK'
  <2>1. netKey' \in BOOLEAN BY <1>10, Zenon DEF JobCancelled, TypeOK
  <2>2. job' \in [Start -> JobPhase] BY Zenon, <1>10 DEF JobCancelled, TypeOK, JobPhase
  <2>3. QED BY ZenonT(30), <1>10, <2>1, <2>2
            DEF JobCancelled, JobUnchanged, TypeOK, stopVars, systemVars,
                startHist, raceHist
<1>11. CASE CloseReceived
  <2>1. pendingStarts' \in Nat /\ startRequested' \in BOOLEAN
    BY <1>11, Zenon DEF CloseReceived, systemVars, TypeOK
  <2>2. QED BY <1>11, <1>stop, <2>1, Zenon DEF CloseReceived, jobVars, resVars, startHist
<1>12. CASE ReloadReceived
  <2>1. CASE state = "Stopped"
    BY <1>12, <2>1 DEF ReloadReceived, canStop, TypeOK, jobVars, resVars,
                       stopVars, startHist, raceHist
  <2>2. CASE canStop(state)
    <3>1. StopRunner(TRUE, {}) /\ UNCHANGED systemVars
      BY <1>12, <2>2, Zenon DEF ReloadReceived, canStop
    <3>2. pendingStarts' \in Nat /\ startRequested' \in BOOLEAN
      BY <3>1, Zenon DEF systemVars, TypeOK
    <3>3. QED BY <1>12, <1>stop, <3>1, <3>2, Zenon
              DEF ReloadReceived, jobVars, resVars, startHist
  <2>3. QED BY <1>12, <2>1, <2>2, Zenon DEF ReloadReceived
<1>13. CASE RevokeTest \/ RevokeStop
  <2>1. CASE RevokeTest
    <3>1. revoking' \in BOOLEAN BY <2>1, Zenon DEF RevokeTest
    <3>2. UNCHANGED <<state, connectingJob, job, cancelled, slot, live, proxy,
                      closeReceiverRegistered, netKey, bootEnabled, stopper, target,
                      restart, closing, pendingStarts, startRequested, overlapped,
                      lateStart, crossed, outrun>>
      BY <2>1, Zenon DEF RevokeTest, jobVars, resVars, stopVars, systemVars,
                         startHist, raceHist
    <3>3. QED BY <3>1, <3>2 DEF TypeOK
  <2>2. CASE RevokeStop
    <3>1. RevokeStops BY <2>2, Zenon DEF RevokeStop
    <3>2. UNCHANGED <<connectingJob, job, slot, live, proxy, closeReceiverRegistered,
                      netKey, bootEnabled, pendingStarts, startRequested, overlapped,
                      lateStart>>
      BY <2>2, Zenon DEF RevokeStop, jobVars, resVars, systemVars, startHist
    <3>3. QED BY <3>1, <3>2, RevokeStopsType, ZenonT(30) DEF TypeOK
  <2>3. QED BY <1>13, <2>1, <2>2, Zenon
<1>14. ASSUME NEW i \in Start, PoolFatal(i) PROVE TypeOK'
  <2>1. pendingStarts' \in Nat /\ startRequested' \in BOOLEAN
    BY <1>14, Zenon DEF PoolFatal, systemVars, TypeOK
  <2>2. QED BY <1>14, <1>stop, <2>1, Zenon DEF PoolFatal, jobVars, resVars, startHist
<1>15. ASSUME NEW s \in Stop, StopCleanup(s) PROVE TypeOK'
  <2>1. {<<slot[r], r>> : r \in ShutDown} \in SUBSET (Start \X Async)
    BY DEF ShutDown, TypeOK, Async
  <2>2. closing' \in [Stop -> SUBSET (Start \X Async)]
    BY Zenon, <1>15, <2>1 DEF StopCleanup, TypeOK
  <2>3. live' \in [Start -> SUBSET Resource]
    BY Zenon, <1>15 DEF StopCleanup, TypeOK
  <2>4. QED BY <1>15, <2>2, <2>3, ZenonT(30)
            DEF StopCleanup, ClearedFields, TypeOK, jobVars, systemVars,
                startHist, raceHist
<1>begin. ASSUME NEW s \in Stop, StopBegin(s) PROVE TypeOK'
  <2>1. cancelled' \in SUBSET Start /\ target' \in [Stop -> Start \cup {None}]
    BY <1>begin, Zenon DEF StopBegin, TypeOK, JobToCancel, JobToJoin, Alive
  <2>2. stopper' \in [Stop -> {"idle", "posted", "join", "closing"}]
    BY <1>begin, Zenon DEF StopBegin, TypeOK
  <2>3. UNCHANGED <<state, connectingJob, job, slot, live, proxy,
                    closeReceiverRegistered, netKey, bootEnabled, restart, closing,
                    pendingStarts, startRequested, revoking, overlapped, lateStart,
                    crossed, outrun>>
    BY <1>begin, Zenon DEF StopBegin, jobVars, resVars, systemVars, startHist, raceHist
  <2>4. QED BY <2>1, <2>2, <2>3 DEF TypeOK
<1>16. ASSUME NEW s \in Stop, StopFinish(s) PROVE TypeOK'
  <2>1. /\ bootEnabled' \in BOOLEAN /\ overlapped' \in BOOLEAN
        /\ lateStart' \in BOOLEAN /\ crossed' \in BOOLEAN /\ outrun' \in BOOLEAN
    BY <1>16, Zenon DEF StopFinish, TypeOK
  <2>2. /\ state' \in State /\ stopper' \in [Stop -> {"idle", "posted", "join", "closing"}]
        /\ restart' \in [Stop -> BOOLEAN] /\ startRequested' \in BOOLEAN
    BY <1>16, Zenon DEF StopFinish, TypeOK, State
  <2>3. pendingStarts' \in Nat BY <1>16 DEF StopFinish, TypeOK
  <2>4. QED BY <1>16, <2>1, <2>2, <2>3, Zenon
            DEF StopFinish, TypeOK, jobVars, resVars
<1>17. ASSUME NEW s \in Stop, NEW i \in Start, NEW r \in Async, Closed(s, i, r)
       PROVE TypeOK'
  BY <1>17 DEF Closed, TypeOK, jobVars, systemVars, startHist, raceHist
<1>18. CASE UNCHANGED vars
  BY <1>18 DEF TypeOK, vars, jobVars, resVars, stopVars, systemVars, startHist, raceHist
<1>19. QED
  BY Zenon, <1>1, <1>2, <1>3, <1>4, <1>5, <1>6, <1>7, <1>8, <1>9, <1>10, <1>11, <1>12,
     <1>13, <1>14, <1>15, <1>begin, <1>16, <1>17, <1>18
     DEF Next, MainThread, BinderThread, Command, JobStep, StopRequest

(* The types hold in a new service.                                         *)
LEMMA TypeInit == Init => TypeOK
<1> SUFFICES ASSUME Init PROVE TypeOK
  BY Zenon
<1>1. /\ proxy \in BOOLEAN /\ closeReceiverRegistered \in BOOLEAN
      /\ netKey \in BOOLEAN /\ bootEnabled \in BOOLEAN
      /\ startRequested \in BOOLEAN /\ overlapped \in BOOLEAN
      /\ lateStart \in BOOLEAN /\ revoking \in BOOLEAN
      /\ crossed \in BOOLEAN /\ outrun \in BOOLEAN
  BY Zenon DEF Init
<1>2. /\ slot \in [Resource -> Start \cup {None}]
      /\ live \in [Start -> SUBSET Resource]
      /\ closing \in [Stop -> SUBSET (Start \X Async)]
  BY Zenon DEF Init
<1>3. QED BY Zenon, <1>1, <1>2 DEF Init, TypeOK, State, JobPhase

(* Type correctness: the state, the fields, the coroutines and what they    *)
(* hold stay within what BaseService.kt declares, for any number of         *)
(* starts and stops.                                                        *)
THEOREM TypeCorrect == Spec => []TypeOK
  BY TypeInit, TypeStep, PTL DEF Spec

-----------------------------------------------------------------------------
(* stopRunner cancels only a job that is running, and leaves the resources  *)
(* other stops wait for alone.                                              *)
LEMMA StopRunnerResources ==
  ASSUME TypeOK, CancelledAlive, ClosingByStop,
         NEW again \in BOOLEAN, NEW ended \in SUBSET Start,
         StopRunner(again, ended), Alive' = Alive \ ended
  PROVE  CancelledAlive' /\ ClosingByStop' /\ closing' = closing
<1>1. CASE state = "Stopping"
  BY Zenon, <1>1 DEF StopRunner, stopVars, CancelledAlive, ClosingByStop
<1>2. CASE state # "Stopping"
  BY Zenon, <1>2 DEF StopRunner, JobToCancel, CancelledAlive, ClosingByStop, TypeOK
<1>3. QED BY Zenon, <1>1, <1>2

(* So do a revoke and the beginning of the stop that it posted.             *)
LEMMA RevokeResources ==
  ASSUME TypeOK, CancelledAlive, ClosingByStop, RevokeStops, job' = job
  PROVE  CancelledAlive' /\ ClosingByStop' /\ closing' = closing
BY Zenon DEF TypeOK, RevokeStops, CancelledAlive, ClosingByStop, Alive

LEMMA StopBeginResources ==
  ASSUME TypeOK, CancelledAlive, ClosingByStop, NEW s \in Stop, StopBegin(s)
  PROVE  CancelledAlive' /\ ClosingByStop' /\ closing' = closing
BY Zenon DEF TypeOK, StopBegin, JobToCancel, CancelledAlive, ClosingByStop, Alive, jobVars

(* So do the steps of a connecting coroutine.                               *)
LEMMA JobEndResources ==
  ASSUME TypeOK, CancelledAlive, ClosingByStop, NEW i \in Start, i \in Alive,
         \/ \E phase \in JobPhase \ {"idle"} : Suspend(i, phase)
         \/ Connect(i)
         \/ Fail(i)
  PROVE  /\ CancelledAlive' /\ ClosingByStop' /\ closing' = closing
         /\ \A j \in Start \ {i} : job'[j] = job[j]
<1>1. CASE \E phase \in JobPhase \ {"idle"} : Suspend(i, phase)
  BY Zenon, <1>1 DEF Suspend, stopVars, CancelledAlive, ClosingByStop, Alive, TypeOK
<1>2. CASE Connect(i)
  BY Zenon, <1>2 DEF Connect, stopVars, CancelledAlive, ClosingByStop, Alive, TypeOK
<1>3. CASE Fail(i)
  <2>1. StopRunner(FALSE, {i}) BY <1>3, Zenon DEF Fail
  <2>2. Alive' = Alive \ {i} /\ \A j \in Start \ {i} : job'[j] = job[j]
    BY Zenon, <1>3 DEF Fail, Alive, TypeOK
  <2>3. QED BY <2>1, <2>2, StopRunnerResources, Zenon
<1>4. QED BY Zenon, <1>1, <1>2, <1>3

(* startProcesses stores each resource it creates in its field.             *)
LEMMA StartProcessesResources ==
  ASSUME TypeOK, ResourceInv, NEW i \in Start, job[i] \in Early,
         StartProcesses(i), UNCHANGED isVpn
  PROVE  ResourceInv'
<1>1. PICK k \in 1..Len(Chain) :
        /\ slot' = [r \in Resource |-> IF r \in Built(k) THEN i ELSE slot[r]]
        /\ live' = [live EXCEPT ![i] = @ \cup Built(k)]
        /\ \/ Fail(i)
           \/ IF isVpn THEN Suspend(i, "sendFd") ELSE Connect(i)
  BY Zenon DEF StartProcesses
<1>2. i \in Alive BY Zenon DEF Early, Alive
<1>3. "sendFd" \in JobPhase \ {"idle"} BY Zenon DEF JobPhase
<1>4. /\ CancelledAlive' /\ ClosingByStop' /\ closing' = closing
      /\ \A j \in Start \ {i} : job'[j] = job[j]
  BY Zenon, <1>1, <1>2, <1>3, JobEndResources DEF ResourceInv
<1>5. job'[i] = "idle" \/ (isVpn /\ job'[i] = "sendFd")
  BY <1>1, Zenon DEF Fail, Suspend, Connect, TypeOK
<1>6. \A j \in Start : live[j] \subseteq live'[j]
  BY Zenon, <1>1 DEF TypeOK
<1>7. \A r \in Resource : <<i, r>> \notin Closing
  BY DEF ResourceInv, EarlyHoldsLittle, ClosingIsLive, Closing, TypeOK, Async,
         Sync
<1>8. FieldsRefToOpen'
  <2> SUFFICES ASSUME NEW r \in Resource, slot'[r] # None
               PROVE  r \in live'[slot'[r]] /\ <<slot'[r], r>> \notin Closing'
    BY Zenon DEF FieldsRefToOpen
  <2>1. Closing' = Closing BY Zenon, <1>4 DEF Closing
  <2>2. CASE r \in Built(k)
    BY Zenon, <1>1, <1>7, <2>1, <2>2 DEF TypeOK
  <2>3. CASE r \notin Built(k)
    BY <1>1, <1>6, <2>1, <2>3 DEF ResourceInv, FieldsRefToOpen, TypeOK
  <2>4. QED BY Zenon, <2>2, <2>3
<1>9. EarlyHoldsLittle'
  BY Zenon, <1>1, <1>4, <1>5 DEF EarlyHoldsLittle, ResourceInv, Early, TypeOK
<1>10. VpnPhases'
  BY Zenon, <1>4, <1>5 DEF VpnPhases, ResourceInv
<1>11. ClosingIsLive'
  BY <1>4, <1>6, Zenon DEF ClosingIsLive, ResourceInv, TypeOK
<1>12. QED BY Zenon, <1>4, <1>8, <1>9, <1>10, <1>11 DEF ResourceInv

(* A step that creates and releases nothing keeps the invariant if the      *)
(* coroutines it moves go on, or end, as they do in JobBegin ... JobSendFd. *)
LEMMA JobOnlyResources ==
  ASSUME TypeOK, ResourceInv, NEW i \in Start, job[i] \in Early \cup {"sendFd"},
         \/ Suspend(i, "preInit") /\ isVpn /\ job[i] \in Early
         \/ Suspend(i, "flatten") /\ job[i] \in Early
         \/ Connect(i)
         \/ Fail(i),
         UNCHANGED <<slot, live, isVpn>>
  PROVE  ResourceInv'
<1>1. i \in Alive BY Zenon DEF Early, Alive
<1>2. {"preInit", "flatten"} \subseteq JobPhase \ {"idle"} BY Zenon DEF JobPhase
<1>3. /\ CancelledAlive' /\ ClosingByStop' /\ closing' = closing
      /\ \A j \in Start \ {i} : job'[j] = job[j]
  BY Zenon, <1>1, <1>2, JobEndResources DEF ResourceInv
<1>4. \/ job'[i] = "idle"
      \/ job'[i] = "preInit" /\ isVpn /\ job[i] \in Early
      \/ job'[i] = "flatten" /\ job[i] \in Early
  BY Zenon DEF Suspend, Connect, Fail, TypeOK
<1>5. FieldsRefToOpen' BY <1>3 DEF ResourceInv, FieldsRefToOpen, Closing
<1>6. EarlyHoldsLittle' BY Zenon, <1>3, <1>4 DEF ResourceInv, EarlyHoldsLittle, Early
<1>7. VpnPhases' BY Zenon, <1>3, <1>4 DEF ResourceInv, VpnPhases
<1>8. ClosingIsLive' BY <1>3, Zenon DEF ResourceInv, ClosingIsLive
<1>9. QED BY Zenon, <1>3, <1>5, <1>6, <1>7, <1>8 DEF ResourceInv

(* The rest of the connecting job after init keeps the resources' part.     *)
LEMMA ProceedResources ==
  ASSUME TypeOK, ResourceInv, NEW i \in Start, job[i] \in Early, Proceed(i),
         UNCHANGED isVpn
  PROVE  ResourceInv'
BY Zenon, StartProcessesResources, JobOnlyResources DEF Proceed

(* A step of a stop that moves no resource.                                 *)
LEMMA StopOnlyResources ==
  ASSUME ResourceInv, CancelledAlive', ClosingByStop', closing' = closing,
         UNCHANGED <<job, slot, live, isVpn>>
  PROVE  ResourceInv'
BY DEF ResourceInv, FieldsRefToOpen, Closing, EarlyHoldsLittle, VpnPhases, ClosingIsLive

(* A request to stop moves no resource.                                     *)
LEMMA StopRequestResources ==
  ASSUME TypeOK, ResourceInv, NEW again \in BOOLEAN, StopRunner(again, {}),
         UNCHANGED <<job, slot, live, isVpn>>
  PROVE  ResourceInv'
<1>1. Alive' = Alive \ {} BY Zenon DEF Alive
<1>2. CancelledAlive' /\ ClosingByStop' /\ closing' = closing
  BY Zenon, <1>1, StopRunnerResources DEF ResourceInv
<1>3. QED BY <1>2, StopOnlyResources, Zenon

(* A start id that is free is in no field and in no closing set, so giving  *)
(* it a notification disturbs nothing.                                      *)
LEMMA NotificationResources ==
  ASSUME TypeOK, ResourceInv, NEW i \in Start, live[i] = {},
         \/ slot' = [slot EXCEPT !["notification"] = i]
         \/ slot' = [slot EXCEPT !["trafficMonitor"] = None,
                                 !["notification"] = i],
         live' = [live EXCEPT ![i] = {"notification"}],
         closing' = closing
  PROVE  FieldsRefToOpen' /\ ClosingIsLive'
<1>1. \A r \in Resource : <<i, r>> \notin Closing
  BY DEF ResourceInv, ClosingIsLive, Closing, TypeOK, Async, Sync
<1>2. \A r \in Resource : slot[r] # i
  BY BaseServiceAssumption, Zenon DEF ResourceInv, FieldsRefToOpen
<1>3. "notification" \in Resource /\ "trafficMonitor" \in Resource
  BY Zenon DEF Resource
<1>4. FieldsRefToOpen'
  <2> SUFFICES ASSUME NEW r \in Resource, slot'[r] # None
               PROVE  r \in live'[slot'[r]] /\ <<slot'[r], r>> \notin Closing'
    BY Zenon DEF FieldsRefToOpen
  <2>1. Closing' = Closing BY Zenon DEF Closing
  <2>2. CASE r = "notification"
    BY <1>1, <1>3, <2>1, <2>2 DEF TypeOK
  <2>3. CASE r # "notification"
    <3>1. slot'[r] = slot[r] BY Zenon, <2>3, <1>3 DEF TypeOK
    <3>2. QED BY Zenon, <1>2, <2>1, <3>1 DEF ResourceInv, FieldsRefToOpen, TypeOK
  <2>4. QED BY Zenon, <2>2, <2>3
<1>5. ClosingIsLive'
  <2>1. \A j \in Start, r \in Resource : r \in live[j] => r \in live'[j]
    BY Zenon DEF TypeOK
  <2>2. QED BY <2>1, Zenon DEF ResourceInv, ClosingIsLive, Async
<1>6. QED BY Zenon, <1>4, <1>5

(* The clean-up hands every asynchronous resource of a field to its stop    *)
(* and clears all fields.                                                   *)
LEMMA CleanupResources ==
  ASSUME TypeOK, ResourceInv, NEW s \in Stop, StopCleanup(s), UNCHANGED isVpn
  PROVE  ResourceInv'
<1>1. FieldsRefToOpen' BY Zenon DEF StopCleanup, ClearedFields, FieldsRefToOpen
<1>2. Alive' = Alive BY Zenon DEF StopCleanup, jobVars, Alive
<1>3. CancelledAlive' BY Zenon, <1>2 DEF StopCleanup, CancelledAlive, ResourceInv
<1>4. EarlyHoldsLittle'
  BY Zenon DEF StopCleanup, jobVars, EarlyHoldsLittle, ResourceInv
<1>5. VpnPhases' BY Zenon DEF StopCleanup, jobVars, VpnPhases, ResourceInv
<1>6. ClosingByStop' BY Zenon DEF StopCleanup, ClosingByStop, ResourceInv, TypeOK
<1>7. ClosingIsLive'
  <2> SUFFICES ASSUME NEW t \in Stop, NEW i \in Start, NEW r \in Async,
                      <<i, r>> \in closing'[t]
               PROVE  /\ r \in live'[i]
                      /\ \A u \in Stop : <<i, r>> \in closing'[u] => u = t
    BY Zenon DEF ClosingIsLive
  <2>1. closing[s] = {}
    BY Zenon DEF ResourceInv, ClosingByStop, StopCleanup
  <2>2. closing'[s] = {<<slot[q], q>> : q \in ShutDown}
        /\ \A u \in Stop \ {s} : closing'[u] = closing[u]
    BY Zenon DEF StopCleanup, TypeOK
  <2>3. r \in live[i] => r \in live'[i]
    BY Zenon DEF StopCleanup, Async
  <2>4. <<i, r>> \in closing'[s] => slot[r] = i /\ i # None
    BY Zenon, <2>2, BaseServiceAssumption DEF ShutDown
  <2>5. slot[r] = i => r \in live[i] /\ \A u \in Stop : <<i, r>> \notin closing[u]
    BY BaseServiceAssumption DEF ResourceInv, FieldsRefToOpen, Closing, Async
  <2>6. QED BY <2>2, <2>3, <2>4, <2>5, SMTT(40) DEF ResourceInv, ClosingIsLive
<1>8. QED BY Zenon, <1>1, <1>3, <1>4, <1>5, <1>6, <1>7 DEF ResourceInv

(* A child of the clean-up that ends keeps the resources' part.             *)
LEMMA ClosedResources ==
  ASSUME TypeOK, ResourceInv, NEW s \in Stop, NEW i \in Start, NEW r \in Async,
         Closed(s, i, r), UNCHANGED isVpn
  PROVE  ResourceInv'
<1>1. \A t \in Stop : closing'[t] \subseteq closing[t]
  BY Zenon DEF Closed, TypeOK
<1>2. \A j \in Start, q \in Resource :
        q \in live[j] => q \in live'[j] \/ (j = i /\ q = r)
  BY SMTT(40) DEF Closed, TypeOK
<1>3. <<i, r>> \in Closing BY Zenon DEF Closed, Closing
<1>4. Closing' \subseteq Closing BY Zenon, <1>1 DEF Closing
<1>5. FieldsRefToOpen'
  BY <1>2, <1>3, <1>4, SMTT(40) DEF Closed, ResourceInv, FieldsRefToOpen, TypeOK
<1>6. Alive' = Alive BY Zenon DEF Closed, jobVars, Alive
<1>7. CancelledAlive' BY Zenon, <1>6 DEF Closed, CancelledAlive, ResourceInv
<1>8. EarlyHoldsLittle'
  BY Zenon DEF Closed, jobVars, EarlyHoldsLittle, ResourceInv, TypeOK
<1>9. VpnPhases' BY Zenon DEF Closed, jobVars, VpnPhases, ResourceInv
<1>10. ClosingByStop' BY Zenon, <1>1 DEF Closed, ClosingByStop, ResourceInv
<1>11. ClosingIsLive'
  <2> SUFFICES ASSUME NEW t \in Stop, NEW j \in Start, NEW q \in Async,
                      <<j, q>> \in closing'[t]
               PROVE  /\ q \in live'[j]
                      /\ \A u \in Stop : <<j, q>> \in closing'[u] => u = t
    BY Zenon DEF ClosingIsLive
  <2>1. ~(j = i /\ q = r)
    BY Zenon DEF Closed, ResourceInv, ClosingIsLive, TypeOK
  <2>2. QED BY <1>1, <1>2, <2>1 DEF ResourceInv, ClosingIsLive, Async
<1>12. QED BY Zenon, <1>5, <1>7, <1>8, <1>9, <1>10, <1>11 DEF ResourceInv

(* Every step keeps the resource invariant.                                 *)
LEMMA ResourceStep == TypeOK /\ ResourceInv /\ [Next]_vars => ResourceInv'
<1> SUFFICES ASSUME TypeOK, ResourceInv, [Next]_vars PROVE ResourceInv'
  BY SMTT(40)
<1> UNCHANGED isVpn BY Zenon DEF Next, vars
<1> DEFINE Same == UNCHANGED <<isVpn, job, cancelled, slot, live, stopper, closing>>
<1>same. Same => ResourceInv'
  <2> SUFFICES ASSUME Same PROVE ResourceInv'
    BY Zenon
  <2>1. FieldsRefToOpen' BY Zenon DEF ResourceInv, FieldsRefToOpen, Closing
  <2>2. CancelledAlive' BY Zenon DEF ResourceInv, CancelledAlive, Alive
  <2>3. EarlyHoldsLittle' BY Zenon DEF ResourceInv, EarlyHoldsLittle
  <2>4. VpnPhases' BY DEF ResourceInv, VpnPhases, TypeOK
  <2>5. ClosingByStop' BY Zenon DEF ResourceInv, ClosingByStop
  <2>6. ClosingIsLive' BY Zenon DEF ResourceInv, ClosingIsLive
  <2>7. QED BY <2>1, <2>2, <2>3, <2>4, <2>5, <2>6, Zenon DEF ResourceInv
<1>1. CASE RequestStart
  BY Zenon, <1>1, <1>same DEF RequestStart, jobVars, resVars, stopVars
<1>2. CASE StartUnprepared
  BY <1>2, StopRequestResources, Zenon DEF StartUnprepared, jobVars, resVars
<1>3. CASE StartIgnored
  BY Zenon, <1>3, <1>same DEF StartIgnored, jobVars, resVars, stopVars
<1>4. ASSUME NEW i \in Start, StartWithoutProfile(i) PROVE ResourceInv'
  <2>1. /\ StopRunner(FALSE, {}) \/ RevokeStops
        /\ live[i] = {} /\ job[i] = "idle" /\ job' = job
    BY <1>4, Zenon DEF StartWithoutProfile, FreeStart, jobVars
  <2>2. Alive' = Alive \ {} BY Zenon, <2>1 DEF Alive
  <2>3. CancelledAlive' /\ ClosingByStop' /\ closing' = closing
    BY <2>1, <2>2, StopRunnerResources, RevokeResources, Zenon DEF ResourceInv
  <2>4. FieldsRefToOpen' /\ ClosingIsLive'
    BY <1>4, <2>1, <2>3, NotificationResources, Zenon DEF StartWithoutProfile
  <2>5. EarlyHoldsLittle'
    BY Zenon, <1>4, <2>1 DEF StartWithoutProfile, EarlyHoldsLittle, ResourceInv, TypeOK
  <2>6. VpnPhases' BY Zenon, <2>1 DEF VpnPhases, ResourceInv
  <2>7. QED BY Zenon, <2>3, <2>4, <2>5, <2>6 DEF ResourceInv
<1>5. ASSUME NEW i \in Start, StartAccepted(i) PROVE ResourceInv'
  <2>1. live[i] = {} /\ closing' = closing /\ stopper' = stopper
    BY Zenon, <1>5 DEF StartAccepted, FreeStart, stopVars
  <2>2. FieldsRefToOpen' /\ ClosingIsLive'
    BY <1>5, <2>1, NotificationResources, Zenon DEF StartAccepted
  <2>3. \A j \in Start : job'[j] = IF j = i THEN "launched" ELSE job[j]
    BY Zenon, <1>5 DEF StartAccepted, TypeOK
  <2>4. CancelledAlive'
    BY <1>5, <2>3 DEF StartAccepted, CancelledAlive, ResourceInv, Alive
  <2>5. EarlyHoldsLittle'
    BY Zenon, <1>5, <2>3 DEF StartAccepted, EarlyHoldsLittle, ResourceInv, TypeOK
  <2>6. VpnPhases' BY Zenon, <2>3 DEF VpnPhases, ResourceInv
  <2>7. ClosingByStop' BY Zenon, <2>1 DEF ClosingByStop, ResourceInv
  <2>8. QED BY Zenon, <2>2, <2>4, <2>5, <2>6, <2>7 DEF ResourceInv
<1>6. ASSUME NEW i \in Start, JobBegin(i) PROVE ResourceInv'
  BY Zenon, <1>6, ProceedResources, JobOnlyResources DEF JobBegin, Early
<1>7. ASSUME NEW i \in Start, JobPreInit(i) PROVE ResourceInv'
  BY Zenon, <1>7, ProceedResources DEF JobPreInit, Early
<1>8. ASSUME NEW i \in Start, JobFlattened(i) PROVE ResourceInv'
  BY Zenon, <1>8, StartProcessesResources, JobOnlyResources DEF JobFlattened, Early
<1>9. ASSUME NEW i \in Start, JobSendFd(i) PROVE ResourceInv'
  BY Zenon, <1>9, JobOnlyResources DEF JobSendFd
<1>10. ASSUME NEW i \in Start, JobCancelled(i) PROVE ResourceInv'
  <2>1. \A j \in Start : job'[j] = IF j = i THEN "idle" ELSE job[j]
    BY Zenon, <1>10 DEF JobCancelled, TypeOK
  <2>2. CancelledAlive'
    BY Zenon, <1>10, <2>1 DEF JobCancelled, CancelledAlive, ResourceInv, Alive
  <2>3. EarlyHoldsLittle' /\ VpnPhases'
    BY <1>10, <2>1, SMTT(40)
       DEF JobCancelled, EarlyHoldsLittle, VpnPhases, ResourceInv, Early
  <2>4. FieldsRefToOpen' /\ ClosingIsLive' /\ ClosingByStop'
    <3>1. UNCHANGED <<slot, live, stopper, closing>>
      BY <1>10, Zenon DEF JobCancelled, stopVars
    <3>2. FieldsRefToOpen' BY <3>1, Zenon DEF ResourceInv, FieldsRefToOpen, Closing
    <3>3. ClosingIsLive' BY <3>1, Zenon DEF ResourceInv, ClosingIsLive
    <3>4. ClosingByStop' BY <3>1, Zenon DEF ResourceInv, ClosingByStop
    <3>5. QED BY <3>2, <3>3, <3>4, Zenon
  <2>5. QED BY Zenon, <2>2, <2>3, <2>4 DEF ResourceInv
<1>11. CASE CloseReceived
  BY <1>11, StopRequestResources, Zenon DEF CloseReceived, jobVars, resVars
<1>12. CASE ReloadReceived
  BY <1>12, <1>same, StopRequestResources, Zenon
     DEF ReloadReceived, jobVars, resVars, stopVars
<1>13. CASE RevokeTest \/ RevokeStop
  <2>1. CASE RevokeTest
    BY Zenon, <2>1, <1>same DEF RevokeTest, jobVars, resVars, stopVars
  <2>2. CASE RevokeStop
    BY Zenon, <2>2, RevokeResources, StopOnlyResources
       DEF RevokeStop, jobVars, resVars, ResourceInv
  <2>3. QED BY <1>13, <2>1, <2>2, Zenon
<1>begin. ASSUME NEW s \in Stop, StopBegin(s) PROVE ResourceInv'
  BY Zenon, <1>begin, StopBeginResources, StopOnlyResources
     DEF StopBegin, jobVars, resVars, ResourceInv
<1>14. ASSUME NEW i \in Start, PoolFatal(i) PROVE ResourceInv'
  BY <1>14, StopRequestResources, Zenon DEF PoolFatal, jobVars, resVars
<1>15. ASSUME NEW s \in Stop, StopCleanup(s) PROVE ResourceInv'
  BY <1>15, CleanupResources, SMTT(40)
<1>16. ASSUME NEW s \in Stop, StopFinish(s) PROVE ResourceInv'
  <2>1. ClosingByStop'
    BY Zenon, <1>16 DEF StopFinish, ChildrenDone, ClosingByStop, ResourceInv, TypeOK
  <2>2. UNCHANGED <<job, cancelled, slot, live, closing>>
    BY Zenon, <1>16 DEF StopFinish, jobVars, resVars
  <2>3. FieldsRefToOpen'
    BY <2>2 DEF ResourceInv, FieldsRefToOpen, Closing
  <2>4. ClosingIsLive'
    BY Zenon, <2>2 DEF ResourceInv, ClosingIsLive
  <2>5. CancelledAlive' /\ EarlyHoldsLittle' /\ VpnPhases'
    BY <2>2, Zenon
       DEF ResourceInv, CancelledAlive, Alive, EarlyHoldsLittle, VpnPhases
  <2>6. QED BY Zenon, <2>1, <2>3, <2>4, <2>5 DEF ResourceInv
<1>17. ASSUME NEW s \in Stop, NEW i \in Start, NEW r \in Async, Closed(s, i, r)
       PROVE  ResourceInv'
  BY Zenon, <1>17, ClosedResources
<1>18. CASE UNCHANGED vars
  BY Zenon, <1>18, <1>same DEF vars, jobVars, resVars, stopVars
<1>19. QED
  BY Zenon, <1>1, <1>2, <1>3, <1>4, <1>5, <1>6, <1>7, <1>8, <1>9, <1>10, <1>11, <1>12,
     <1>13, <1>14, <1>15, <1>begin, <1>16, <1>17, <1>18
     DEF Next, MainThread, BinderThread, Command, JobStep, StopRequest

(* No field of the service refers to something released or being released,  *)
(* whatever starts and stops overlap: the clean-up of stopRunner clears     *)
(* every field it shuts down, and only startProcesses and onStartCommand    *)
(* fill one, with what they have just created.                              *)
THEOREM FieldsAlwaysRefToOpen == Spec => []FieldsRefToOpen
<1>1. Init => ResourceInv
  BY Zenon DEF Init, ResourceInv, FieldsRefToOpen, CancelledAlive, EarlyHoldsLittle,
         VpnPhases, ClosingByStop, ClosingIsLive, Early, Resource, Async
<1>2. ResourceInv => FieldsRefToOpen BY Zenon DEF ResourceInv
<1>3. QED BY <1>1, <1>2, TypeInit, TypeStep, ResourceStep, PTL DEF Spec

-----------------------------------------------------------------------------

-----------------------------------------------------------------------------
(* The part of the invariant that holds as long as starts do not overlap.   *)

(* No new job and no new target of a waiting stop, but the latest job.      *)
LEMMA OneJobKept ==
  ASSUME OneJob, Alive' \subseteq Alive, connectingJob' = connectingJob,
         \A s \in Stop : stopper'[s] = "join" =>
           \/ stopper[s] = "join" /\ target'[s] = target[s]
           \/ target'[s] = connectingJob
  PROVE  OneJob'
BY Zenon DEF OneJob

(* stopRunner, on either thread, waits for the latest job or for none yet.  *)
LEMMA StopRunnerOneJob ==
  ASSUME TypeOK, OneJob, NEW again \in BOOLEAN, NEW ended \in SUBSET Start,
         StopRunner(again, ended) \/ RevokeStops,
         Alive' \subseteq Alive, connectingJob' = connectingJob
  PROVE  OneJob'
<1>1. CASE UNCHANGED <<stopper, target>>
  BY <1>1, OneJobKept, Zenon
<1>2. ASSUME NEW s \in Stop, stopper' = [stopper EXCEPT ![s] = "join"],
             target' = [target EXCEPT ![s] = connectingJob]
      PROVE  OneJob'
  BY <1>2, OneJobKept, Zenon DEF TypeOK
<1>3. ASSUME NEW s \in Stop, stopper' = [stopper EXCEPT ![s] = "posted"],
             target' = target
      PROVE  OneJob'
  <2>1. \A t \in Stop : stopper'[t] = "join" => stopper[t] = "join"
    BY <1>3, Zenon DEF TypeOK
  <2>2. QED BY <1>3, <2>1, OneJobKept, Zenon
<1>4. QED BY <1>1, <1>2, <1>3, Zenon DEF StopRunner, RevokeStops, JobToJoin, stopVars

(* A step of the only job, or its end.                                      *)
LEMMA JobStepOneJob ==
  ASSUME TypeOK, OneJob, NEW i \in Start, job[i] # "idle",
         \/ \E phase : Suspend(i, phase)
         \/ Connect(i)
         \/ Fail(i)
  PROVE  OneJob'
<1>1. Alive = {i} BY Zenon DEF OneJob, Alive
<1>2. CASE \E phase : Suspend(i, phase)
  <2>1. Alive' \subseteq Alive BY <1>1, <1>2, Zenon DEF Suspend, Alive, TypeOK
  <2>2. QED BY <1>2, <2>1, OneJobKept, Zenon DEF Suspend, stopVars
<1>3. CASE Connect(i) \/ Fail(i)
  <2>1. Alive' = {} BY <1>1, <1>3, Zenon DEF Connect, Fail, Alive, TypeOK
  <2>2. QED BY <2>1, Zenon DEF OneJob
<1>4. QED BY <1>2, <1>3, Zenon

(* Every step keeps it; an overlap is forgotten only when no job is left.   *)
LEMMA OneJobStep ==
  ASSUME IInv, [Next]_vars, ~overlapped'
  PROVE  OneJob'
<1> TypeOK /\ ResourceInv /\ (~overlapped => OneJob) BY Zenon DEF IInv, SafetyInv
<1> USE BaseServiceAssumption
<1>empty. ASSUME Alive' = {} PROVE OneJob' BY <1>empty, Zenon DEF OneJob
<1>same. ASSUME UNCHANGED <<jobVars, stopVars, overlapped>> PROVE OneJob'
  <2>1. Alive' = Alive BY <1>same, Zenon DEF Alive, jobVars
  <2>2. QED BY <1>same, <2>1, OneJobKept, Zenon DEF jobVars, stopVars
<1>stop. ASSUME StopRunner(FALSE, {}) \/ StopRunner(TRUE, {}) \/ RevokeStops,
                UNCHANGED <<jobVars, overlapped>>
         PROVE  OneJob'
  <2>1. Alive' \subseteq Alive /\ connectingJob' = connectingJob
    BY <1>stop, Zenon DEF Alive, jobVars
  <2>2. OneJob BY <1>stop, Zenon
  <2>3. {} \in SUBSET Start BY Zenon
  <2>4. QED BY <1>stop, <2>1, <2>2, <2>3, StopRunnerOneJob, Zenon
<1>1. CASE RequestStart BY <1>1, <1>same, Zenon DEF RequestStart, startHist
<1>2. CASE StartUnprepared BY <1>2, <1>stop, Zenon DEF StartUnprepared, startHist
<1>3. CASE StartIgnored BY <1>3, <1>same, Zenon DEF StartIgnored, startHist
<1>4. ASSUME NEW i \in Start, StartWithoutProfile(i) PROVE OneJob'
  BY <1>4, <1>empty, Zenon DEF StartWithoutProfile, Alive, jobVars
<1>5. ASSUME NEW i \in Start, StartAccepted(i), ~CleanupIsNext PROVE OneJob'
  <2>1. Alive = {} BY <1>5, Zenon DEF StartAccepted
  <2>2. \A s \in Stop : stopper'[s] # "join"
    BY <1>5, <2>1, Zenon DEF StartAccepted, stopVars, CleanupIsNext
  <2>3. \A j \in Alive' : j = i
    BY <1>5, <2>1, Zenon DEF StartAccepted, Alive, TypeOK
  <2>4. QED BY <1>5, <2>2, <2>3, Zenon DEF StartAccepted, OneJob
<1>6. ASSUME NEW i \in Start, job[i] # "idle", JobUnchanged,
             \/ \E phase : Suspend(i, phase)
             \/ Connect(i)
             \/ Fail(i)
      PROVE  OneJob'
  <2>1. OneJob BY <1>6, Zenon DEF JobUnchanged, startHist
  <2>2. QED BY <1>6, <2>1, JobStepOneJob, Zenon
<1>7. ASSUME NEW i \in Start, \/ JobBegin(i) \/ JobPreInit(i)
                              \/ JobFlattened(i) \/ JobSendFd(i)
      PROVE  OneJob'
  <2>1. job[i] # "idle" /\ JobUnchanged
    BY <1>7, Zenon DEF JobBegin, JobPreInit, JobFlattened, JobSendFd
  <2>2. (\E phase : Suspend(i, phase)) \/ Connect(i) \/ Fail(i)
    BY <1>7, Zenon DEF JobBegin, JobPreInit, JobFlattened, JobSendFd, Proceed,
                       StartProcesses
  <2>3. QED BY <1>6, <2>1, <2>2, Zenon
<1>10. ASSUME NEW i \in Start, JobCancelled(i) PROVE OneJob'
  <2>1. i \in Alive /\ OneJob
    BY <1>10, Zenon DEF JobCancelled, JobUnchanged, startHist, ResourceInv, CancelledAlive
  <2>2. Alive = {i} BY <2>1, Zenon DEF OneJob
  <2>3. Alive' = {} BY <1>10, <2>2, Zenon DEF JobCancelled, Alive, TypeOK
  <2>4. QED BY <2>3, <1>empty, Zenon
<1>11. CASE StopRequest
  <2>1. CASE CloseReceived BY <2>1, <1>stop, Zenon DEF CloseReceived, startHist
  <2>2. CASE ReloadReceived BY <2>2, <1>stop, <1>same, Zenon DEF ReloadReceived, startHist
  <2>3. CASE \E i \in Start : PoolFatal(i) BY <2>3, <1>stop, Zenon DEF PoolFatal, startHist
  <2>4. QED BY <1>11, <2>1, <2>2, <2>3, Zenon DEF StopRequest
<1>12. CASE RevokeTest BY <1>12, <1>same, Zenon DEF RevokeTest, startHist
<1>13. CASE RevokeStop BY <1>13, <1>stop, Zenon DEF RevokeStop, startHist
<1>14. ASSUME NEW s \in Stop, StopBegin(s) \/ StopCleanup(s) PROVE OneJob'
  <2>1. Alive' = Alive /\ connectingJob' = connectingJob /\ OneJob
    BY <1>14, Zenon DEF StopBegin, StopCleanup, Alive, jobVars, startHist
  <2>2. \A t \in Stop : stopper'[t] = "join" =>
          \/ stopper[t] = "join" /\ target'[t] = target[t]
          \/ target'[t] = connectingJob
    BY <1>14, Zenon DEF StopBegin, StopCleanup, JobToJoin, TypeOK
  <2>3. QED BY <2>1, <2>2, OneJobKept, Zenon
<1>16. ASSUME NEW s \in Stop, StopFinish(s) PROVE OneJob'
  <2>1. Alive' = Alive /\ connectingJob' = connectingJob
    BY <1>16, Zenon DEF StopFinish, Alive, jobVars
  <2>2. CASE AtRestAfter(s) BY <2>1, <2>2, <1>empty, Zenon DEF AtRestAfter
  <2>3. CASE OneJob
    <3>1. \A t \in Stop : stopper'[t] = "join" =>
            stopper[t] = "join" /\ target'[t] = target[t]
      BY <1>16, Zenon DEF StopFinish, TypeOK
    <3>2. QED BY <2>1, <2>3, <3>1, OneJobKept, Zenon
  <2>4. QED BY <1>16, <2>2, <2>3, Zenon DEF StopFinish
<1>17. ASSUME NEW s \in Stop, NEW i \in Start, NEW r \in Async, Closed(s, i, r)
       PROVE  OneJob'
  <2>1. Alive' = Alive BY <1>17, Zenon DEF Closed, Alive, jobVars
  <2>2. QED BY <1>17, <2>1, OneJobKept, Zenon DEF Closed, jobVars, startHist
<1>18. CASE UNCHANGED vars BY <1>18, <1>same, Zenon DEF vars, startHist
<1>19. QED
  BY Zenon, <1>1, <1>2, <1>3, <1>4, <1>5, <1>7, <1>10, <1>11, <1>12, <1>13, <1>14,
     <1>16, <1>17, <1>18
     DEF Next, MainThread, BinderThread, Command, JobStep

-----------------------------------------------------------------------------
(* The part that holds as long as stops have not crossed either.            *)

Safe == SerialInv /\ NothingLeaked /\ StoppedIsClean /\ ConnectedIsComplete /\ RunningIsStarted

(* What holds of one start and one stop at a time.                          *)
LEMMA SerialFacts ==
  ASSUME IInv, Serial
  PROVE  TypeOK /\ ResourceInv /\ OneJob /\ OneStop /\ StopWaits /\ JobHolds /\ CleanedUp
         /\ Safe
BY Zenon DEF IInv, SafetyInv, Serial, SerialInv, Safe

(* A request to stop, from either thread, that launches the only stop: its  *)
(* coroutine waits for the connecting job if there is one, or will.         *)
LEMMA StopLaunchedSafe ==
  ASSUME IInv, Serial, ~StopInFlight, state' = "Stopping",
         NEW s \in Stop,
         \/ /\ stopper' = [stopper EXCEPT ![s] = "join"]
            /\ cancelled' = cancelled \cup (Alive \cap {connectingJob})
         \/ /\ stopper' = [stopper EXCEPT ![s] = "posted"]
            /\ cancelled' = cancelled,
         UNCHANGED <<isVpn, jobVars, resVars, bootEnabled, closing, startHist,
                     startRequested>>,
         Serial'
  PROVE  Safe'
<1>1. Alive' = Alive BY Zenon DEF Alive, jobVars
<1>2. TypeOK /\ OneJob /\ OneStop /\ StopWaits /\ JobHolds /\ NothingLeaked /\ RunningIsStarted
  BY Zenon, SerialFacts DEF Safe
<1>3. NothingLeaked' BY Zenon, <1>2 DEF NothingLeaked, Closing, resVars
<1>4. RunningIsStarted'
  <2>1. (lateStart => lateStart') /\ (startRequested => startRequested')
    BY Zenon DEF startHist
  <2>2. ~lateStart /\ Alive # {} => startRequested BY Zenon, <1>2 DEF RunningIsStarted
  <2>3. state' # "Connected" BY Zenon
  <2>4. QED BY Zenon, <1>1, <2>1, <2>2, <2>3 DEF RunningIsStarted
<1>5. StoppedIsClean' /\ ConnectedIsComplete'
  BY Zenon DEF StoppedIsClean, ConnectedIsComplete
<1>6. JobHolds'
  BY Zenon, <1>1, <1>2, SameChain DEF JobHolds, resVars, jobVars
<1>7. \A t \in Stop : stopper[t] = "idle" BY Zenon DEF StopInFlight
<1>8. /\ stopper'[s] \in {"join", "posted"}
      /\ \A t \in Stop \ {s} : stopper'[t] = "idle"
  BY Zenon, <1>2, <1>7 DEF TypeOK
<1>9. OneStop' /\ CleanedUp'
  <2>1. stopper'[s] # "idle" /\ \A t \in Stop : stopper'[t] # "closing"
    BY Zenon, <1>8
  <2>2. StopInFlight' BY Zenon, <2>1 DEF StopInFlight
  <2>3. OneStop' BY Zenon, <1>8, <2>2 DEF OneStop
  <2>4. CleanedUp' BY Zenon, <2>1 DEF CleanedUp
  <2>5. QED BY Zenon, <2>3, <2>4
<1>10. StopWaits'
  <2> SUFFICES ASSUME NEW i \in Alive
               PROVE  /\ i \in cancelled' <=> \E t \in Stop : stopper'[t] = "join"
                      /\ \A t \in Stop : stopper'[t] # "closing"
    BY Zenon, <1>1 DEF StopWaits
  <2>1. \A t \in Stop : stopper'[t] # "closing" BY Zenon, <1>8
  <2>2. i \notin cancelled /\ connectingJob = i
    BY Zenon, <1>2, <1>7 DEF StopWaits, OneJob
  <2>3. CASE stopper' = [stopper EXCEPT ![s] = "join"]
    <3>1. stopper'[s] = "join" BY Zenon, <1>2, <2>3 DEF TypeOK
    <3>2. stopper' # [stopper EXCEPT ![s] = "posted"]
      BY Zenon, <1>2, <3>1 DEF TypeOK
    <3>3. QED BY Zenon, <2>1, <2>2, <3>1, <3>2
  <2>4. CASE stopper' = [stopper EXCEPT ![s] = "posted"] /\ cancelled' = cancelled
    <3>1. \A t \in Stop : stopper'[t] # "join" BY Zenon, <1>2, <1>7, <2>4 DEF TypeOK
    <3>2. QED BY Zenon, <2>1, <2>2, <2>4, <3>1
  <2>5. QED BY Zenon, <2>3, <2>4
<1>11. QED BY Zenon, <1>3, <1>4, <1>5, <1>6, <1>9, <1>10 DEF Safe, SerialInv

(* stopRunner on the main thread: it returns at once if a stop is under     *)
(* way; if it launches one next to another, the stops have crossed.         *)
LEMMA StopRequestSafe ==
  ASSUME IInv, NEW again \in BOOLEAN, StopRunner(again, {}),
         UNCHANGED <<isVpn, jobVars, resVars, bootEnabled, startHist, startRequested>>,
         Serial'
  PROVE  Safe'
<1>1. CASE state = "Stopping"
  <2>1. UNCHANGED <<state, stopper, closing, cancelled, overlapped, crossed, outrun, lateStart>>
    BY Zenon, <1>1 DEF StopRunner, stopVars, raceHist, startHist
  <2>2. Serial BY Zenon, <2>1 DEF Serial
  <2>3. Alive' = Alive /\ Closing' = Closing /\ (StopInFlight' <=> StopInFlight)
    BY Zenon, <2>1 DEF Alive, Closing, StopInFlight, jobVars
  <2>4. OneStop /\ StopWaits /\ JobHolds /\ CleanedUp /\ NothingLeaked /\ RunningIsStarted
    BY Zenon, <2>2, SerialFacts DEF Safe
  <2>5. OneStop' /\ StopWaits' BY Zenon, <2>1, <2>3, <2>4 DEF OneStop, StopWaits
  <2>6. JobHolds' BY Zenon, <2>3, <2>4, SameChain DEF JobHolds, resVars, jobVars
  <2>7. CleanedUp' /\ NothingLeaked'
    BY Zenon, <2>1, <2>2, <2>3, <2>4 DEF CleanedUp, NothingLeaked, resVars
  <2>8. StoppedIsClean' /\ ConnectedIsComplete'
    BY Zenon, <1>1, <2>1 DEF StoppedIsClean, ConnectedIsComplete
  <2>9. RunningIsStarted' BY Zenon, <2>1, <2>2, <2>3, <2>4 DEF RunningIsStarted
  <2>10. QED BY Zenon, <2>5, <2>6, <2>7, <2>8, <2>9 DEF Safe, SerialInv
<1>2. CASE state # "Stopping"
  <2>1. Serial /\ ~StopInFlight BY Zenon, <1>2 DEF StopRunner, Serial, startHist
  <2>2. /\ state' = "Stopping" /\ closing' = closing
        /\ \E s \in Stop : stopper' = [stopper EXCEPT ![s] = "join"]
        /\ cancelled' = cancelled \cup (Alive \cap {connectingJob})
    BY Zenon, <1>2 DEF StopRunner, JobToCancel
  <2>3. QED BY Zenon, <2>1, <2>2, StopLaunchedSafe
<1>3. QED BY Zenon, <1>1, <1>2

(* stopRunner on the Binder thread.                                         *)
LEMMA RevokeSafe ==
  ASSUME IInv, RevokeStops,
         UNCHANGED <<isVpn, jobVars, resVars, bootEnabled, startHist, startRequested>>,
         Serial'
  PROVE  Safe'
<1>1. Serial /\ ~StopInFlight BY Zenon DEF RevokeStops, Serial, startHist
<1>2. /\ state' = "Stopping" /\ closing' = closing /\ cancelled' = cancelled
      /\ \E s \in Stop : stopper' = [stopper EXCEPT ![s] = "posted"]
  BY Zenon DEF RevokeStops
<1>3. QED BY Zenon, <1>1, <1>2, StopLaunchedSafe

(* What a job that is not cancelled may rely on: a stop, if there is one,   *)
(* is a revoke's that has not begun.                                        *)
LEMMA JobAlone ==
  ASSUME IInv, Serial, NEW i \in Start, job[i] # "idle", i \notin cancelled
  PROVE  /\ Alive = {i} /\ connectingJob = i
         /\ state # "Connected"
         /\ \A s \in Stop : stopper[s] \in {"idle", "posted"} /\ closing[s] = {}
         /\ \A j \in Start \ {i} : live[j] = {}
         /\ \A r \in live[i] : slot[r] = i
         /\ slot["notification"] = i
         /\ cancelled = {}
<1>1. TypeOK /\ ResourceInv /\ OneJob /\ StopWaits /\ JobHolds /\ NothingLeaked
  BY Zenon, SerialFacts DEF Safe
<1>2. i \in Alive BY Zenon DEF Alive
<1>3. Alive = {i} /\ connectingJob = i BY Zenon, <1>1, <1>2 DEF OneJob
<1>4. state # "Connected" BY Zenon, <1>1, <1>2 DEF StopWaits
<1>5. \A s \in Stop : stopper[s] \in {"idle", "posted"} /\ closing[s] = {}
  <2> TAKE s \in Stop
  <2>1. stopper[s] # "join" /\ stopper[s] # "closing" BY Zenon, <1>1, <1>2 DEF StopWaits
  <2>2. stopper[s] \in {"idle", "posted", "join", "closing"} BY Zenon, <1>1 DEF TypeOK
  <2>3. closing[s] = {} BY Zenon, <1>1, <2>1 DEF ResourceInv, ClosingByStop
  <2>4. QED BY Zenon, <2>1, <2>2, <2>3
<1>6. \A j \in Start \ {i} : live[j] = {} BY Zenon, <1>1, <1>2 DEF JobHolds
<1>7. \A r \in live[i] : slot[r] = i
  <2>1. Closing = {} BY Zenon, <1>5 DEF Closing
  <2>2. QED BY Zenon, <1>1, <2>1 DEF NothingLeaked
<1>8. slot["notification"] = i BY Zenon, <1>1, <1>2 DEF JobHolds
<1>9. cancelled = {} BY Zenon, <1>1, <1>3 DEF ResourceInv, CancelledAlive
<1>10. QED BY Zenon, <1>3, <1>4, <1>5, <1>6, <1>7, <1>8, <1>9

(* A step of the connecting job keeps the invariant when everything it      *)
(* holds is in the fields, and the fields are filled when it gets to the    *)
(* end.                                                                     *)
LEMMA JobStepSafe ==
  ASSUME IInv, Serial, Serial',
         NEW i \in Start, job[i] # "idle", i \notin cancelled, JobUnchanged,
         TypeOK', UNCHANGED isVpn,
         \A j \in Start \ {i} : live'[j] = {},
         \A r \in live'[i] : slot'[r] = i,
         slot'["notification"] = i,
         \/ Suspend(i, "preInit")
         \/ Suspend(i, "flatten") /\ netKey' = isVpn
         \/ /\ Suspend(i, "sendFd") \/ Connect(i)
            /\ netKey' = isVpn
            /\ \A n \in 1..Len(Chain) : slot'[Chain[n]] = i
         \/ Fail(i)
  PROVE  Safe'
<1>1. /\ Alive = {i} /\ connectingJob = i
      /\ state # "Connected"
      /\ \A s \in Stop : stopper[s] \in {"idle", "posted"} /\ closing[s] = {}
      /\ cancelled = {}
  BY JobAlone, Zenon
<1>2. TypeOK /\ OneStop /\ JobHolds /\ RunningIsStarted BY Zenon, SerialFacts DEF Safe
<1>3. /\ UNCHANGED <<proxy, closeReceiverRegistered, bootEnabled, startRequested,
                     overlapped, lateStart>>
      /\ proxy /\ closeReceiverRegistered /\ bootEnabled = PersistAcrossReboot
      /\ ~lateStart => startRequested
  BY <1>1, <1>2, Zenon
     DEF JobUnchanged, systemVars, startHist, JobHolds, RunningIsStarted
<1>held. /\ proxy' /\ closeReceiverRegistered'
         /\ bootEnabled' = PersistAcrossReboot
  BY <1>3, Zenon
<1>4. NothingLeaked' BY Zenon DEF NothingLeaked
<1>run. RunningIsStarted' BY <1>3, Zenon DEF RunningIsStarted
<1>5. CASE \/ Suspend(i, "preInit")
           \/ Suspend(i, "flatten") /\ netKey' = isVpn
           \/ /\ Suspend(i, "sendFd") /\ netKey' = isVpn
              /\ \A n \in 1..Len(Chain) : slot'[Chain[n]] = i
  <2>1. /\ UNCHANGED <<state, connectingJob, cancelled, stopper, closing, outrun>>
        /\ job'[i] # "idle" /\ \A j \in Start \ {i} : job'[j] = job[j]
    BY <1>2, <1>5, Zenon DEF Suspend, stopVars, raceHist, TypeOK
  <2>2. Alive' = {i} BY <1>1, <2>1, Zenon DEF Alive
  <2>3. OneStop' BY <1>2, <2>1, Zenon DEF OneStop, StopInFlight
  <2>4. StopWaits' BY <1>1, <2>1, <2>2, Zenon DEF StopWaits
  <2>5. JobHolds'
    <3>1. \/ job'[i] = "preInit"
          \/ job'[i] = "flatten" /\ netKey' = isVpn
          \/ netKey' = isVpn /\ \A n \in 1..Len(Chain) : slot'[Chain[n]] = i
      BY Zenon, <1>2, <1>5 DEF Suspend, TypeOK
    <3>2. /\ job'[i] \in {"flatten", "sendFd"} => netKey' = isVpn
          /\ job'[i] = "sendFd" => \A n \in 1..Len(Chain) : slot'[Chain[n]] = i
      BY <3>1, Zenon
    <3>3. QED BY <1>held, <2>2, <3>2, SameChain, Zenon DEF JobHolds
  <2>6. CleanedUp' BY <1>1, <2>1, Zenon DEF CleanedUp
  <2>7. StoppedIsClean' /\ ConnectedIsComplete'
    BY <1>1, <2>1, <2>2, Zenon DEF StoppedIsClean, ConnectedIsComplete
  <2>8. QED
    BY <1>4, <1>run, <2>3, <2>4, <2>5, <2>6, <2>7, Zenon DEF Safe, SerialInv
<1>6. CASE /\ Connect(i) /\ netKey' = isVpn
           /\ \A n \in 1..Len(Chain) : slot'[Chain[n]] = i
  <2>1. /\ state' = "Connected" /\ stopper' = stopper
        /\ outrun' <=> \E s \in Stop : stopper[s] = "posted"
    BY <1>6, Zenon DEF Connect, stopVars
  <2>2. Alive' = {} BY Zenon, <1>1, <1>2, <1>6 DEF Connect, Alive, TypeOK
  <2>3. StopInFlight' => outrun' BY Zenon, <1>1, <2>1 DEF StopInFlight
  <2>4. OneStop'
    <3>1. \A s, t \in Stop : stopper[s] # "idle" /\ stopper[t] # "idle" => s = t
      BY Zenon, <1>2 DEF OneStop
    <3>2. QED BY Zenon, <2>1, <2>3, <3>1 DEF OneStop
  <2>5. StopWaits' /\ JobHolds' BY <2>2, Zenon DEF StopWaits, JobHolds
  <2>6. CleanedUp' BY Zenon, <1>1, <2>1 DEF CleanedUp
  <2>7. StoppedIsClean' BY <2>1, Zenon DEF StoppedIsClean
  <2>8. ConnectedIsComplete'
    <3>2. \A n \in 1..Len(Chain') : slot'[Chain'[n]] # None
      <4>1. UNCHANGED Chain BY SameChain, Zenon
      <4>2. \A n \in 1..Len(Chain) : slot'[Chain[n]] # None
        BY <1>6, BaseServiceAssumption, Zenon
      <4>3. QED BY <4>1, <4>2, Zenon
    <3>3. netKey' = isVpn' BY <1>6, Zenon
    <3>4. slot'["notification"] # None BY BaseServiceAssumption, Zenon
    <3>5. QED BY <1>held, <2>2, <2>3, <3>2, <3>3, <3>4, Zenon DEF ConnectedIsComplete
  <2>9. QED
    BY <1>4, <1>run, <2>4, <2>5, <2>6, <2>7, <2>8, Zenon DEF Safe, SerialInv
<1>7. CASE Fail(i)
  <2>1. state' = "Stopping" BY <1>7, Zenon DEF Fail, StopRunner
  <2>2. Alive' = {} BY <1>1, <1>2, <1>7, Zenon DEF Fail, Alive, TypeOK
  <2>3. OneStop' /\ CleanedUp'
    <3>1. CASE state = "Stopping"
      <4>1. UNCHANGED <<state, stopper, outrun>>
        BY <1>7, <3>1, Zenon DEF Fail, StopRunner, stopVars, raceHist
      <4>2. QED BY <1>1, <1>2, <4>1, Zenon DEF OneStop, StopInFlight, CleanedUp
    <3>2. CASE state # "Stopping"
      <4>1. \A t \in Stop : stopper[t] = "idle"
        BY <1>1, <1>2, <3>2, Zenon DEF OneStop, StopInFlight
      <4>2. PICK s \in Stop : stopper' = [stopper EXCEPT ![s] = "join"]
        BY <1>7, <3>2, Zenon DEF Fail, StopRunner
      <4>3. /\ stopper'[s] = "join"
            /\ \A t \in Stop \ {s} : stopper'[t] = "idle"
        BY <1>2, <4>1, <4>2, Zenon DEF TypeOK
      <4>4. StopInFlight' BY <4>3, Zenon DEF StopInFlight
      <4>5. OneStop' BY <2>1, <4>3, <4>4, Zenon DEF OneStop
      <4>6. CleanedUp' BY <4>3, Zenon DEF CleanedUp
      <4>7. QED BY <4>5, <4>6, Zenon
    <3>3. QED BY <3>1, <3>2, Zenon
  <2>4. StopWaits' /\ JobHolds' BY <2>2, Zenon DEF StopWaits, JobHolds
  <2>5. StoppedIsClean' /\ ConnectedIsComplete'
    BY <2>1, Zenon DEF StoppedIsClean, ConnectedIsComplete
  <2>6. QED
    BY <1>4, <1>run, <2>3, <2>4, <2>5, Zenon DEF Safe, SerialInv
<1>8. QED BY <1>5, <1>6, <1>7, Zenon

(* startProcesses keeps the invariant.                                      *)
LEMMA StartProcessesSafe ==
  ASSUME IInv, Serial, Serial',
         NEW i \in Start, job[i] # "idle", i \notin cancelled, JobUnchanged,
         TypeOK', UNCHANGED isVpn, netKey' = isVpn, StartProcesses(i)
  PROVE  Safe'
<1>1. PICK k \in 1..Len(Chain) :
        /\ slot' = [r \in Resource |-> IF r \in Built(k) THEN i ELSE slot[r]]
        /\ live' = [live EXCEPT ![i] = @ \cup Built(k)]
        /\ \/ Fail(i)
           \/ /\ k = Len(Chain)
              /\ IF isVpn THEN Suspend(i, "sendFd") ELSE Connect(i)
  BY Zenon DEF StartProcesses
<1>2. /\ \A j \in Start \ {i} : live[j] = {}
      /\ \A r \in live[i] : slot[r] = i
      /\ slot["notification"] = i
  BY Zenon, JobAlone
<1>3. TypeOK BY Zenon DEF IInv
<1>4. \A j \in Start \ {i} : live'[j] = {} BY Zenon, <1>1, <1>2, <1>3 DEF TypeOK
<1>5. \A r \in live'[i] : slot'[r] = i
  BY <1>1, <1>2, <1>3, BuiltResources, Zenon DEF TypeOK
<1>6. slot'["notification"] = i BY <1>1, <1>2, SMTT(40) DEF Resource
<1>7. k = Len(Chain) => \A n \in 1..Len(Chain) : slot'[Chain[n]] = i
  BY <1>1, BuiltResources, SMTT(40) DEF Built
<1>8. QED BY <1>1, <1>4, <1>5, <1>6, <1>7, JobStepSafe, Zenon

(* A step that moves no resource.                                           *)
LEMMA JobOnlySafe ==
  ASSUME IInv, Serial, Serial',
         NEW i \in Start, job[i] # "idle", i \notin cancelled, JobUnchanged,
         TypeOK', UNCHANGED <<slot, live, isVpn>>,
         \/ Suspend(i, "preInit")
         \/ Suspend(i, "flatten") /\ netKey' = isVpn
         \/ Connect(i) /\ job[i] = "sendFd" /\ netKey' = netKey
         \/ Fail(i)
  PROVE  Safe'
<1>1. /\ \A j \in Start \ {i} : live[j] = {}
      /\ \A r \in live[i] : slot[r] = i
      /\ slot["notification"] = i
      /\ Alive = {i}
  BY Zenon, JobAlone
<1>2. job[i] = "sendFd" =>
        netKey = isVpn /\ \A n \in 1..Len(Chain) : slot[Chain[n]] = i
  BY Zenon, <1>1, SerialFacts DEF JobHolds
<1>3. QED BY <1>1, <1>2, JobStepSafe, Zenon

(* A start command that is handled in Stopped while nothing connects finds  *)
(* a clean service.                                                         *)
LEMMA CleanStart ==
  ASSUME IInv, Serial, state = "Stopped", Alive = {}
  PROVE  /\ \A j \in Start : live[j] = {}
         /\ \A r \in Resource : slot[r] = None
         /\ \A s \in Stop : stopper[s] = "idle" /\ closing[s] = {}
         /\ cancelled = {}
BY Zenon, SerialFacts DEF Safe, StoppedIsClean, StopInFlight, ResourceInv,
       ClosingByStop, CancelledAlive

(* Every step keeps the part of the invariant about one start and one stop  *)
(* at a time; the history is forgotten only by a stop that leaves nothing.  *)
LEMMA SafeStep ==
  ASSUME IInv, TypeOK', [Next]_vars, Serial'
  PROVE  Safe'
<1> UNCHANGED isVpn BY Zenon DEF Next, vars
<1> TypeOK /\ ResourceInv BY Zenon DEF IInv
<1> DEFINE Facts == /\ OneJob /\ OneStop /\ StopWaits /\ JobHolds /\ CleanedUp
                    /\ NothingLeaked /\ StoppedIsClean /\ ConnectedIsComplete
                    /\ RunningIsStarted
<1>facts. Serial => Facts BY Zenon, SerialFacts DEF Safe
<1> HIDE DEF Facts
<1>same. ASSUME UNCHANGED <<state, jobVars, cancelled, resVars, bootEnabled,
                            stopVars, startHist, raceHist>>,
                startRequested => startRequested',
                state = "Stopped" => pendingStarts' >= pendingStarts
         PROVE  Safe'
  <2>1. Serial BY <1>same, Zenon DEF Serial, startHist, raceHist
  <2>2. Facts BY <2>1, <1>facts, Zenon
  <2>3. Alive' = Alive /\ Closing' = Closing /\ (StopInFlight' <=> StopInFlight)
    BY <1>same, Zenon DEF Alive, Closing, StopInFlight, jobVars, stopVars
  <2>4. OneStop' /\ StopWaits' /\ CleanedUp' /\ NothingLeaked'
    BY <1>same, <2>1, <2>2, <2>3, Zenon
       DEF Facts, OneStop, StopWaits, CleanedUp, NothingLeaked, resVars, stopVars, raceHist
  <2>5. JobHolds' BY <1>same, <2>2, <2>3, SameChain, Zenon DEF Facts, JobHolds, resVars, jobVars
  <2>6. ConnectedIsComplete'
    BY <1>same, <2>1, <2>2, <2>3, SameChain, Zenon
       DEF Facts, ConnectedIsComplete, resVars, stopVars, raceHist
  <2>7. StoppedIsClean'
    <3>1. state = "Stopped" /\ pendingStarts > 0 => pendingStarts' > 0
      <4>1. pendingStarts \in Nat /\ pendingStarts' \in Nat BY Zenon DEF TypeOK
      <4>2. QED BY <1>same, <4>1
    <3>2. QED BY <1>same, <2>1, <2>2, <2>3, <3>1, Zenon DEF Facts, StoppedIsClean, resVars
  <2>8. RunningIsStarted'
    BY <1>same, <2>1, <2>2, <2>3, Zenon DEF Facts, RunningIsStarted, startHist
  <2>9. QED BY <2>4, <2>5, <2>6, <2>7, <2>8, Zenon DEF Safe, SerialInv
<1>1. CASE RequestStart
  <2>1. pendingStarts' >= pendingStarts BY <1>1 DEF RequestStart, TypeOK
  <2>2. QED BY <1>1, <2>1, <1>same, Zenon DEF RequestStart
<1>2. CASE StartUnprepared
  BY <1>2, StopRequestSafe, Zenon DEF StartUnprepared, Delivered
<1>3. CASE StartIgnored
  BY Zenon, <1>3, <1>same DEF StartIgnored, Delivered, MayStart
<1>4. ASSUME NEW i \in Start, StartWithoutProfile(i) PROVE Safe'
  <2>1. Serial /\ Alive = {} /\ state = "Stopped"
    BY <1>4, Zenon DEF StartWithoutProfile, MayStart, Serial, StopRunner, RevokeStops, raceHist
  <2>2. /\ \A j \in Start : live[j] = {}
        /\ \A s \in Stop : stopper[s] = "idle" /\ closing[s] = {}
    BY Zenon, <2>1, CleanStart
  <2>3. PICK s \in Stop : \/ stopper' = [stopper EXCEPT ![s] = "join"]
                          \/ stopper' = [stopper EXCEPT ![s] = "posted"]
    BY Zenon, <1>4, <2>1 DEF StartWithoutProfile, StopRunner, RevokeStops
  <2>4. state' = "Stopping"
    BY Zenon, <1>4, <2>1 DEF StartWithoutProfile, StopRunner, RevokeStops
  <2>5. Alive' = {} BY <1>4, <2>1, Zenon DEF StartWithoutProfile, Alive, jobVars
  <2>6. /\ stopper'[s] # "idle" /\ stopper'[s] # "closing"
        /\ \A t \in Stop \ {s} : stopper'[t] = "idle"
    BY <2>2, <2>3, Zenon DEF TypeOK
  <2>7. OneStop'
    <3>1. StopInFlight' BY <2>6, Zenon DEF StopInFlight
    <3>2. QED BY <2>4, <2>6, <3>1, Zenon DEF OneStop
  <2>8. StopWaits' /\ JobHolds' BY <2>5, Zenon DEF StopWaits, JobHolds
  <2>9. CleanedUp' BY <2>6, Zenon DEF CleanedUp
  <2>10. NothingLeaked'
    BY <1>4, <2>2, Zenon DEF StartWithoutProfile, NothingLeaked, TypeOK, Resource
  <2>11. StoppedIsClean' /\ ConnectedIsComplete' /\ RunningIsStarted'
    BY <2>4, <2>5, Zenon DEF StoppedIsClean, ConnectedIsComplete, RunningIsStarted
  <2>12. QED BY Zenon, <2>7, <2>8, <2>9, <2>10, <2>11 DEF Safe, SerialInv
<1>5. ASSUME NEW i \in Start, StartAccepted(i) PROVE Safe'
  <2>1. Serial /\ Alive = {} /\ state = "Stopped"
    BY <1>5, Zenon DEF StartAccepted, MayStart, Serial, raceHist
  <2>2. /\ \A j \in Start : live[j] = {}
        /\ \A s \in Stop : stopper[s] = "idle" /\ closing[s] = {}
        /\ cancelled = {}
    BY Zenon, <2>1, CleanStart
  <2>3. UNCHANGED <<state, cancelled, stopper, closing>>
    BY <1>5, Zenon DEF StartAccepted, stopVars
  <2>4. Alive' = {i} /\ job'[i] = "launched"
    <3>1. job' = [job EXCEPT ![i] = "launched"] /\ job \in [Start -> JobPhase]
      BY <1>5, Zenon DEF StartAccepted, TypeOK
    <3>2. \A j \in Start : job'[j] = IF j = i THEN "launched" ELSE job[j]
      BY <3>1, Zenon
    <3>3. \A j \in Start : job[j] = "idle" BY <2>1, Zenon DEF Alive
    <3>4. "launched" # "idle" BY Zenon
    <3>5. QED BY <3>2, <3>3, <3>4, Zenon DEF Alive
  <2>5. OneStop' BY <2>1, <2>2, <2>3, Zenon DEF OneStop, StopInFlight
  <2>6. StopWaits' BY <2>1, <2>2, <2>3, <2>4, Zenon DEF StopWaits
  <2>7. /\ \A j \in Start : live'[j] = IF j = i THEN {"notification"} ELSE {}
        /\ slot'["notification"] = i
    BY <1>5, <2>2, ZenonT(40) DEF StartAccepted, TypeOK, Resource
  <2>8. JobHolds'
    <3>1. proxy' /\ closeReceiverRegistered' /\ bootEnabled' = PersistAcrossReboot
      BY Zenon, <1>5 DEF StartAccepted
    <3>2. QED BY <2>4, <2>7, <3>1, Zenon DEF JobHolds
  <2>9. CleanedUp' BY <2>2, <2>3, Zenon DEF CleanedUp
  <2>10. NothingLeaked' BY <2>7, SMTT(40) DEF NothingLeaked
  <2>11. StoppedIsClean' /\ ConnectedIsComplete'
    BY Zenon, <2>1, <2>3, <2>4 DEF StoppedIsClean, ConnectedIsComplete
  <2>12. RunningIsStarted'
    BY <1>5, Zenon DEF StartAccepted, Delivered, RunningIsStarted
  <2>13. QED
    BY Zenon, <2>5, <2>6, <2>8, <2>9, <2>10, <2>11, <2>12 DEF Safe, SerialInv
<1>jobs. ASSUME NEW i \in Start, job[i] # "idle", JobUnchanged,
                \/ \E phase : Suspend(i, phase)
                \/ Connect(i)
                \/ Fail(i)
         PROVE  Serial
  <2>1. ~overlapped BY <1>jobs, Zenon DEF JobUnchanged, startHist, Serial
  <2>2. ~crossed
    BY <1>jobs, Zenon DEF Suspend, Connect, Fail, StopRunner, Serial, raceHist
  <2>3. QED BY <2>1, <2>2, Zenon DEF Serial
<1>6. ASSUME NEW i \in Start, JobBegin(i) PROVE Safe'
  <2>1. Serial
    BY <1>6, <1>jobs, Zenon DEF JobBegin, Proceed, StartProcesses
  <2>2. QED BY Zenon, <1>6, <2>1, StartProcessesSafe, JobOnlySafe DEF JobBegin, Proceed
<1>7. ASSUME NEW i \in Start, JobPreInit(i) PROVE Safe'
  <2>1. Serial
    BY <1>7, <1>jobs, Zenon DEF JobPreInit, Proceed, StartProcesses
  <2>2. isVpn BY Zenon, <1>7 DEF JobPreInit, ResourceInv, VpnPhases
  <2>3. netKey' = isVpn BY Zenon, <1>7, <2>2 DEF JobPreInit, TypeOK
  <2>4. QED BY <1>7, <2>1, <2>3, StartProcessesSafe, JobOnlySafe, Zenon
            DEF JobPreInit, Proceed
<1>8. ASSUME NEW i \in Start, JobFlattened(i) PROVE Safe'
  <2>1. Serial BY <1>8, <1>jobs, Zenon DEF JobFlattened, StartProcesses
  <2>2. i \in Alive BY <1>8, Zenon DEF JobFlattened, Alive
  <2>3. netKey' = isVpn
    BY <1>8, <2>1, <2>2, <1>facts, Zenon DEF JobFlattened, Facts, JobHolds
  <2>4. QED BY Zenon, <1>8, <2>1, <2>3, StartProcessesSafe, JobOnlySafe DEF JobFlattened
<1>9. ASSUME NEW i \in Start, JobSendFd(i) PROVE Safe'
  <2>1. Serial BY <1>9, <1>jobs, Zenon DEF JobSendFd
  <2>2. QED BY Zenon, <1>9, <2>1, JobOnlySafe DEF JobSendFd
<1>10. ASSUME NEW i \in Start, JobCancelled(i) PROVE Safe'
  <2>1. Serial
    BY <1>10, Zenon DEF JobCancelled, JobUnchanged, startHist, raceHist, Serial
  <2>2. i \in Alive /\ i \in cancelled /\ Facts
    BY <1>10, <2>1, <1>facts, Zenon DEF JobCancelled, ResourceInv, CancelledAlive
  <2>3. StopInFlight BY <2>2, Zenon DEF Facts, StopWaits, StopInFlight
  <2>4. Alive = {i} /\ state = "Stopping"
    BY <2>2, <2>3, Zenon DEF Facts, OneJob, StopWaits, OneStop
  <2>5. Alive' = {} BY <1>10, <2>4, Zenon DEF JobCancelled, Alive, TypeOK
  <2>6. UNCHANGED <<state, slot, live, stopper, closing, outrun, proxy, closeReceiverRegistered>>
    BY Zenon, <1>10 DEF JobCancelled, JobUnchanged, stopVars, raceHist
  <2>7. OneStop' BY Zenon, <2>2, <2>6 DEF Facts, OneStop, StopInFlight
  <2>8. StopWaits' /\ JobHolds' BY <2>5, Zenon DEF StopWaits, JobHolds
  <2>9. CleanedUp' BY Zenon, <2>2, <2>6 DEF Facts, CleanedUp
  <2>10. NothingLeaked' BY <2>1, <2>2, <2>6, Zenon DEF Facts, NothingLeaked, Closing
  <2>11. StoppedIsClean' /\ ConnectedIsComplete' /\ RunningIsStarted'
    BY Zenon, <2>4, <2>5, <2>6 DEF StoppedIsClean, ConnectedIsComplete, RunningIsStarted
  <2>12. QED BY Zenon, <2>7, <2>8, <2>9, <2>10, <2>11 DEF Safe, SerialInv
<1>11. CASE CloseReceived
  BY <1>11, StopRequestSafe, Zenon DEF CloseReceived, systemVars
<1>12. CASE ReloadReceived
  <2>1. CASE state = "Stopped"
    <3>1. /\ pendingStarts' = pendingStarts + 1 /\ startRequested' = TRUE
          /\ UNCHANGED <<state, cancelled, stopVars, raceHist>>
      BY Zenon, <1>12, <2>1 DEF ReloadReceived, canStop
    <3>2. pendingStarts \in Nat BY Zenon DEF TypeOK
    <3>3. pendingStarts' >= pendingStarts BY <3>1, <3>2
    <3>4. UNCHANGED <<jobVars, resVars, bootEnabled, startHist>>
      BY <1>12, Zenon DEF ReloadReceived
    <3>5. QED BY <1>same, <3>1, <3>3, <3>4, Zenon
  <2>2. CASE state # "Stopped"
    BY <1>12, <2>2, StopRequestSafe, Zenon DEF ReloadReceived, systemVars
  <2>3. QED BY <2>1, <2>2, Zenon
<1>13. CASE RevokeTest \/ RevokeStop
  <2>1. CASE RevokeTest
    <3>1. pendingStarts \in Nat BY Zenon DEF TypeOK
    <3>2. UNCHANGED <<startRequested, pendingStarts>> BY <2>1, Zenon DEF RevokeTest, systemVars
    <3>3. pendingStarts' >= pendingStarts BY <3>1, <3>2
    <3>4. QED BY <2>1, <3>2, <3>3, <1>same, Zenon DEF RevokeTest
  <2>2. CASE RevokeStop BY <2>2, RevokeSafe, Zenon DEF RevokeStop, systemVars
  <2>3. QED BY <1>13, <2>1, <2>2, Zenon
<1>14. ASSUME NEW i \in Start, PoolFatal(i) PROVE Safe'
  BY <1>14, StopRequestSafe, Zenon DEF PoolFatal, systemVars
<1>begin. ASSUME NEW s \in Stop, StopBegin(s) PROVE Safe'
  <2>1. Serial BY <1>begin, Zenon DEF StopBegin, Serial, startHist, raceHist
  <2>2. Facts /\ stopper[s] = "posted" BY <1>begin, <2>1, <1>facts, Zenon DEF StopBegin
  <2>3. /\ stopper'[s] = "join"
        /\ \A t \in Stop \ {s} : stopper[t] = "idle" /\ stopper'[t] = "idle"
    BY <1>begin, <2>2, Zenon DEF StopBegin, TypeOK, Facts, OneStop
  <2>4. StopInFlight /\ StopInFlight' BY <2>2, <2>3, Zenon DEF StopInFlight
  <2>5. /\ UNCHANGED <<state, slot, live, proxy, closeReceiverRegistered, netKey,
                       bootEnabled, closing, outrun, lateStart, startRequested>>
        /\ Alive' = Alive /\ job' = job
    BY <1>begin, Zenon
       DEF StopBegin, jobVars, resVars, systemVars, startHist, raceHist, Alive
  <2>6. OneStop' BY <2>2, <2>3, <2>4, <2>5, Zenon DEF Facts, OneStop
  <2>7. StopWaits'
    <3> SUFFICES ASSUME NEW i \in Alive PROVE state # "Connected" /\ i \in cancelled'
      BY <2>3, <2>5, Zenon DEF StopWaits
    <3>1. QED BY <1>begin, <2>2, Zenon DEF StopBegin, JobToCancel, Facts, StopWaits, OneJob
  <2>8. JobHolds' BY <2>2, <2>5, SameChain, Zenon DEF Facts, JobHolds
  <2>9. CleanedUp' BY <2>3, Zenon DEF CleanedUp
  <2>10. NothingLeaked' BY <2>1, <2>2, <2>5, Zenon DEF Facts, NothingLeaked, Closing
  <2>11. StoppedIsClean' BY <2>2, <2>4, <2>5, Zenon DEF Facts, OneStop, StoppedIsClean
  <2>12. ConnectedIsComplete'
    <3>1. \A t \in Stop : stopper[t] # "closing" BY <2>2, <2>3, Zenon
    <3>2. QED BY <2>1, <2>2, <2>4, <2>5, <3>1, SameChain, Zenon DEF Facts, ConnectedIsComplete
  <2>13. RunningIsStarted' BY <2>1, <2>2, <2>5, Zenon DEF Facts, RunningIsStarted
  <2>14. QED BY <2>6, <2>7, <2>8, <2>9, <2>10, <2>11, <2>12, <2>13, Zenon DEF Safe, SerialInv
<1>15. ASSUME NEW s \in Stop, StopCleanup(s) PROVE Safe'
  <2>1. Serial /\ stopper[s] = "join" /\ target[s] \notin Alive
    BY <1>15, Zenon DEF StopCleanup, Serial, startHist, raceHist
  <2>facts. Facts BY <2>1, <1>facts, Zenon
  <2>2. Alive = {} BY <2>1, <2>facts, Zenon DEF Facts, OneJob
  <2>3. \A t \in Stop \ {s} : stopper[t] = "idle"
    BY <2>1, <2>facts, Zenon DEF Facts, OneStop
  <2>4. Closing = {}
    BY <2>1, <2>3, Zenon DEF ResourceInv, ClosingByStop, Closing
  <2>5. /\ Alive' = {} /\ UNCHANGED <<state, outrun, lateStart, startRequested>>
        /\ stopper'[s] = "closing" /\ \A t \in Stop \ {s} : stopper'[t] = "idle"
    <3>1. Alive' = {} BY <1>15, <2>2, Zenon DEF StopCleanup, Alive, jobVars
    <3>2. UNCHANGED <<state, outrun, lateStart, startRequested>>
      BY <1>15, Zenon DEF StopCleanup, systemVars, startHist, raceHist
    <3>3. stopper'[s] = "closing" /\ \A t \in Stop \ {s} : stopper'[t] = "idle"
      BY <1>15, <2>3, Zenon DEF StopCleanup, TypeOK
    <3>4. QED BY <3>1, <3>2, <3>3, Zenon
  <2>6. StopInFlight /\ StopInFlight' BY <2>1, <2>5, Zenon DEF StopInFlight
  <2>7. OneStop' BY <2>facts, <2>5, <2>6, Zenon DEF Facts, OneStop
  <2>8. StopWaits' /\ JobHolds' BY <2>5, Zenon DEF StopWaits, JobHolds
  <2>9. CleanedUp' BY <1>15, Zenon DEF StopCleanup, ClearedFields, CleanedUp
  <2>10. NothingLeaked'
    <3> SUFFICES ASSUME NEW i \in Start, NEW r \in live'[i]
                 PROVE  <<i, r>> \in Closing'
      BY Zenon DEF NothingLeaked
    <3>1. r \in live[i] /\ r \in Resource /\ ~(r \in Sync /\ slot[r] = i)
      BY <1>15, Zenon DEF StopCleanup, TypeOK
    <3>2. slot[r] = i BY <2>1, <2>facts, <2>4, <3>1, Zenon DEF Facts, NothingLeaked
    <3>3. r \in ShutDown
      BY <3>1, <3>2, BaseServiceAssumption, SMTT(40) DEF ShutDown, Async
    <3>4. <<i, r>> \in closing'[s]
      BY <1>15, <3>2, <3>3, Zenon DEF StopCleanup, TypeOK
    <3>5. QED BY Zenon, <3>4 DEF Closing
  <2>11. StoppedIsClean' BY <2>facts, <2>5, <2>6, Zenon DEF Facts, OneStop, StoppedIsClean
  <2>12. ConnectedIsComplete'
    BY <2>1, <2>facts, <2>5, <2>6, Zenon DEF Facts, OneStop, ConnectedIsComplete
  <2>13. RunningIsStarted' BY <2>1, <2>facts, <2>2, <2>5, Zenon DEF Facts, RunningIsStarted
  <2>14. QED BY Zenon, <2>7, <2>8, <2>9, <2>10, <2>11, <2>12, <2>13 DEF Safe, SerialInv
<1>16. ASSUME NEW s \in Stop, StopFinish(s) PROVE Safe'
  <2>1. stopper[s] = "closing" /\ closing[s] = {}
    BY <1>16, Zenon DEF StopFinish, ChildrenDone
  <2>2. ASSUME Serial PROVE AtRestAfter(s)
    <3>1. Facts BY <2>2, <1>facts, Zenon
    <3>2. Alive = {} BY <2>1, <3>1, Zenon DEF Facts, StopWaits
    <3>3. \A t \in Stop \ {s} : stopper[t] = "idle" BY <2>1, <3>1, Zenon DEF Facts, OneStop
    <3>4. Closing = {} BY <2>1, <3>3, Zenon DEF ResourceInv, ClosingByStop, Closing
    <3>5. /\ \A r \in Resource : slot[r] = None
          /\ ~proxy /\ ~closeReceiverRegistered
      BY <2>1, <3>1, Zenon DEF Facts, CleanedUp
    <3>6. \A i \in Start : live[i] = {}
      <4> SUFFICES ASSUME NEW i \in Start, NEW r \in live[i] PROVE FALSE
        BY Zenon
      <4>1. r \in Resource BY Zenon DEF TypeOK
      <4>2. slot[r] = i BY <2>2, <3>1, <3>4, Zenon DEF Facts, NothingLeaked
      <4>3. i # None BY Zenon, BaseServiceAssumption
      <4>4. QED BY <3>5, <4>1, <4>2, <4>3, Zenon
    <3>7. QED BY <3>2, <3>3, <3>5, <3>6, Zenon DEF AtRestAfter
  <2>3. AtRestAfter(s) BY <1>16, <2>2, Zenon DEF StopFinish, Serial
  <2>4. \A r \in Resource : slot[r] = None
    <3> SUFFICES ASSUME NEW r \in Resource, slot[r] # None PROVE FALSE BY Zenon
    <3>1. slot[r] \in Start BY Zenon DEF TypeOK
    <3>2. QED BY <2>3, <3>1, Zenon DEF AtRestAfter, ResourceInv, FieldsRefToOpen
  <2>5. Alive' = {} /\ state' = "Stopped"
    BY <1>16, <2>3, Zenon DEF StopFinish, AtRestAfter, Alive, jobVars
  <2>6. \A t \in Stop : stopper'[t] = "idle"
    BY Zenon, <1>16, <2>3 DEF StopFinish, AtRestAfter, TypeOK
  <2>7. ~StopInFlight' BY <2>6, Zenon DEF StopInFlight
  <2>8. OneStop' BY <2>5, <2>6, <2>7, Zenon DEF OneStop
  <2>9. StopWaits' /\ JobHolds' BY <2>5, Zenon DEF StopWaits, JobHolds
  <2>10. CleanedUp' BY Zenon, <2>6 DEF CleanedUp
  <2>11. UNCHANGED <<slot, live, proxy, closeReceiverRegistered>>
    BY Zenon, <1>16 DEF StopFinish, resVars
  <2>12. NothingLeaked' BY <2>3, <2>11, Zenon DEF NothingLeaked, AtRestAfter
  <2>13. bootEnabled' => pendingStarts' > 0
    <3>1. /\ pendingStarts' = IF restart[s] THEN pendingStarts + 1 ELSE pendingStarts
          /\ bootEnabled' => restart[s]
      BY <1>16, Zenon DEF StopFinish
    <3>2. pendingStarts \in Nat BY Zenon DEF TypeOK
    <3>3. pendingStarts + 1 > 0 BY <3>2
    <3>4. QED BY <3>1, <3>3, Zenon
  <2>14. StoppedIsClean'
    BY Zenon, <2>3, <2>4, <2>7, <2>11, <2>13 DEF StoppedIsClean, AtRestAfter
  <2>15. ConnectedIsComplete' /\ RunningIsStarted'
    BY Zenon, <2>5 DEF ConnectedIsComplete, RunningIsStarted
  <2>16. QED
    BY <2>8, <2>9, <2>10, <2>12, <2>14, <2>15, Zenon DEF Safe, SerialInv
<1>17. ASSUME NEW s \in Stop, NEW i \in Start, NEW r \in Async, Closed(s, i, r)
       PROVE  Safe'
  <2>1. Serial BY <1>17, Zenon DEF Closed, Serial, startHist, raceHist
  <2>2. Facts /\ stopper[s] = "closing"
    BY <1>17, <2>1, <1>facts, Zenon DEF Closed, ResourceInv, ClosingByStop
  <2>3. /\ UNCHANGED <<state, stopper, slot, proxy, closeReceiverRegistered, outrun,
                       lateStart, startRequested>>
        /\ Alive' = Alive
    BY <1>17, Zenon DEF Closed, Alive, jobVars, systemVars, startHist, raceHist
  <2>4. Alive = {} BY <2>2, Zenon DEF Facts, StopWaits
  <2>5. StopInFlight /\ StopInFlight' BY <2>2, <2>3, Zenon DEF StopInFlight
  <2>6. OneStop' BY <2>2, <2>3, <2>5, Zenon DEF Facts, OneStop
  <2>7. StopWaits' /\ JobHolds' BY <2>3, <2>4, Zenon DEF StopWaits, JobHolds
  <2>8. CleanedUp' BY <2>2, <2>3, Zenon DEF Facts, CleanedUp
  <2>9. NothingLeaked'
    <3> SUFFICES ASSUME NEW j \in Start, NEW q \in live'[j]
                 PROVE  slot'[q] = j \/ <<j, q>> \in Closing'
      BY Zenon DEF NothingLeaked
    <3>1. q \in live[j] /\ <<j, q>> # <<i, r>>
      BY Zenon, <1>17 DEF Closed, TypeOK
    <3>2. CASE slot[q] = j BY <2>3, <3>2, Zenon
    <3>3. CASE <<j, q>> \in Closing
      <4>1. PICK t \in Stop : <<j, q>> \in closing[t] BY <3>3, Zenon DEF Closing
      <4>2. <<j, q>> \in closing'[t] BY <1>17, <3>1, <4>1, Zenon DEF Closed, TypeOK
      <4>3. QED BY Zenon, <4>2 DEF Closing
    <3>4. QED BY Zenon, <2>1, <2>2, <3>1, <3>2, <3>3 DEF Facts, NothingLeaked
  <2>10. StoppedIsClean' BY <2>2, <2>3, <2>5, Zenon DEF Facts, OneStop, StoppedIsClean
  <2>11. ConnectedIsComplete'
    BY <2>1, <2>2, <2>3, <2>4, <2>5, Zenon DEF Facts, OneStop, ConnectedIsComplete
  <2>12. RunningIsStarted' BY <2>1, <2>2, <2>3, <2>4, Zenon DEF Facts, RunningIsStarted
  <2>13. QED BY <2>6, <2>7, <2>8, <2>9, <2>10, <2>11, <2>12, Zenon DEF Safe, SerialInv
<1>18. CASE UNCHANGED vars
  <2>1. /\ UNCHANGED <<state, jobVars, cancelled, resVars, bootEnabled, stopVars,
                        startHist, raceHist>>
        /\ UNCHANGED <<startRequested, pendingStarts>>
    BY <1>18, Zenon DEF vars, systemVars
  <2>2. pendingStarts \in Nat BY Zenon DEF TypeOK
  <2>3. pendingStarts' >= pendingStarts BY <2>1, <2>2
  <2>4. QED BY <1>same, <2>1, <2>3, Zenon
<1>19. QED
  BY <1>1, <1>2, <1>3, <1>4, <1>5, <1>6, <1>7, <1>8, <1>9, <1>10, <1>11, <1>12,
     <1>13, <1>14, <1>begin, <1>15, <1>16, <1>17, <1>18, Zenon
     DEF Next, MainThread, BinderThread, Command, JobStep, StopRequest

(* The invariant holds in a new service.                                    *)
LEMMA IInvInit == Init => IInv
<1> SUFFICES ASSUME Init PROVE IInv
  BY Zenon
<1>1. TypeOK BY Zenon, TypeInit
<1>2. ResourceInv
  BY Zenon DEF Init, ResourceInv, FieldsRefToOpen, CancelledAlive, EarlyHoldsLittle,
         VpnPhases, ClosingByStop, ClosingIsLive, Early, Resource, Async
<1>3. Alive = {} /\ ~StopInFlight BY Zenon DEF Init, Alive, StopInFlight
<1>4. OneJob /\ SerialInv
  BY Zenon, <1>3 DEF Init, SerialInv, OneStop, OneJob, StopWaits, JobHolds, CleanedUp
<1>5. NothingLeaked /\ ConnectedIsComplete /\ RunningIsStarted
  BY Zenon, <1>3 DEF Init, NothingLeaked, ConnectedIsComplete, RunningIsStarted
<1>6. StoppedIsClean BY Zenon, <1>3 DEF Init, StoppedIsClean
<1>7. QED BY Zenon, <1>1, <1>2, <1>4, <1>5, <1>6 DEF IInv, SafetyInv

(* The inductive invariant: what every run keeps, what is kept as long as   *)
(* starts do not overlap, and what one start and one stop at a time keep.   *)
THEOREM Invariance == Spec => []IInv
<1>1. IInv /\ [Next]_vars => IInv'
  <2> SUFFICES ASSUME IInv, [Next]_vars PROVE IInv'
    BY Zenon
  <2>1. TypeOK' BY Zenon, TypeStep DEF IInv
  <2>2. ResourceInv' BY Zenon, ResourceStep DEF IInv
  <2>3. ~overlapped' => OneJob' BY Zenon, OneJobStep
  <2>4. Serial' => Safe' BY Zenon, <2>1, SafeStep
  <2>5. SafetyInv'
    BY Zenon, <2>3, <2>4 DEF SafetyInv, Safe, NothingLeaked, StoppedIsClean,
                             ConnectedIsComplete, RunningIsStarted
  <2>6. QED BY Zenon, <2>1, <2>2, <2>5 DEF IInv
<1>2. QED BY IInvInit, <1>1, PTL DEF Spec

(* "ensure stop connecting first": unless start commands overlapped, no     *)
(* connecting coroutine is running when a stop, even one of two, goes on to *)
(* release things, because data.connectingJob refers to the only one and    *)
(* every stop has joined it.                                                *)
THEOREM StopJoins == Spec => []StopJoinsConnectingUnlessOverlapped
<1>1. IInv => StopJoinsConnectingUnlessOverlapped
  BY Zenon DEF IInv, SafetyInv, OneJob, StopJoinsConnectingUnlessOverlapped,
               CleanupIsNext
<1>2. QED BY <1>1, Invariance, PTL

(* Unless start commands overlapped or a revoke crossed another stop,       *)
(* whatever a start created is in a field of the service or being released: *)
(* stopRunner can always find it.                                           *)
THEOREM NoLeak == Spec => []NothingLeaked
<1>1. IInv => NothingLeaked BY Zenon DEF IInv, SafetyInv
<1>2. QED BY <1>1, Invariance, PTL

(* Unless start commands overlapped or a revoke crossed another stop, a     *)
(* service at rest in Stopped holds nothing but the network listener that   *)
(* killProcesses leaves behind.                                             *)
THEOREM CleanWhenStopped == Spec => []StoppedIsClean
<1>1. IInv => StoppedIsClean BY Zenon DEF IInv, SafetyInv
<1>2. QED BY <1>1, Invariance, PTL

(* Unless start commands overlapped or a revoke crossed another stop, a     *)
(* connected service has every part that startProcesses, onStartCommand and *)
(* preInit are to set up until a stop begins, and a stop is in flight in    *)
(* Connected only where the job outran a revoke.                            *)
THEOREM CompleteWhenConnected == Spec => []ConnectedIsComplete
<1>1. IInv => ConnectedIsComplete BY Zenon DEF IInv, SafetyInv
<1>2. QED BY <1>1, Invariance, PTL

(* Unless start commands overlapped, a revoke crossed another stop or a     *)
(* start was delivered after stopSelf, a service that connects or is        *)
(* connected is held as started by the system, so that it does not end with *)
(* its last client.                                                         *)
THEOREM StartedWhenRunning == Spec => []RunningIsStarted
<1>1. IInv => RunningIsStarted BY Zenon DEF IInv, SafetyInv
<1>2. QED BY <1>1, Invariance, PTL

(* Who changes the state: stopRunner on either thread, the end of a job     *)
(* that nobody has cancelled, and the end of a stop.                        *)
LEMMA StateStep ==
  ASSUME [Next]_vars
  PROVE  \/ state' = state
         \/ state' = "Stopping" /\ state # "Stopping"
         \/ /\ state' = "Connected"
            /\ \E i \in Start : i \in Alive \ cancelled
            /\ outrun' <=> \E s \in Stop : stopper[s] = "posted"
         \/ state' = "Stopped" /\ StopInFlight
<1> DEFINE Goal == \/ state' = state
                   \/ state' = "Stopping" /\ state # "Stopping"
                   \/ /\ state' = "Connected"
                      /\ \E i \in Start : i \in Alive \ cancelled
                      /\ outrun' <=> \E s \in Stop : stopper[s] = "posted"
                   \/ state' = "Stopped" /\ StopInFlight
<1>stop. \A again, ended : StopRunner(again, ended) \/ RevokeStops => Goal
  BY Zenon DEF StopRunner, RevokeStops
<1>job. ASSUME NEW i \in Start, JobStep(i) PROVE Goal
  <2>1. job[i] # "idle" /\ i \notin cancelled => i \in Alive \ cancelled
    BY Zenon DEF Alive
  <2>2. CASE JobCancelled(i) BY Zenon, <2>2 DEF JobCancelled
  <2>3. CASE \/ \E phase : Suspend(i, phase)
             \/ Fail(i)
    BY <2>3, <1>stop, Zenon DEF Suspend, Fail
  <2>4. CASE Connect(i) /\ job[i] # "idle" /\ i \notin cancelled
    BY Zenon, <2>1, <2>4 DEF Connect
  <2>5. QED BY Zenon, <1>job, <2>2, <2>3, <2>4
            DEF JobStep, JobBegin, JobPreInit, JobFlattened, JobSendFd, Proceed,
                StartProcesses
<1>1. CASE RequestStart \/ Command
  BY <1>1, <1>stop, Zenon DEF RequestStart, Command, StartUnprepared, StartIgnored,
                       StartWithoutProfile, StartAccepted
<1>2. CASE StopRequest
  BY <1>2, <1>stop, Zenon DEF StopRequest, CloseReceived, ReloadReceived, PoolFatal
<1>3. CASE BinderThread
  BY <1>3, <1>stop, Zenon DEF BinderThread, RevokeTest, RevokeStop
<1>4. CASE \E s \in Stop : StopBegin(s) \/ StopCleanup(s) \/ StopFinish(s)
  BY <1>4, Zenon DEF StopBegin, StopCleanup, StopFinish, ChildrenDone, StopInFlight
<1>5. CASE \E s \in Stop, i \in Start, r \in Async : Closed(s, i, r)
  BY Zenon, <1>5 DEF Closed
<1>6. CASE UNCHANGED vars BY Zenon, <1>6 DEF vars
<1>7. QED BY <1>job, <1>1, <1>2, <1>3, <1>4, <1>5, <1>6, Zenon DEF Next, MainThread

(* Unless start commands overlapped or a revoke crossed another stop, the   *)
(* state moves only as its readers expect: a stop is overtaken by a job     *)
(* that sets Connected only if it is a revoke's that had not begun, and     *)
(* Connected is left for Stopped only by that stop.                         *)
THEOREM TransitionsLegal == Spec => LegalTransitions
<1> DEFINE Reached == state \in {"Stopped", "Connected", "Stopping"}
<1>1. Init => Reached BY Zenon DEF Init
<1>2. Reached /\ [Next]_vars => Reached' BY Zenon, StateStep
<1>3. IInv /\ Reached /\ [Next]_vars => [Serial => LegalTransition]_state
  <2> SUFFICES ASSUME IInv, Reached, [Next]_vars, Serial, state' # state
               PROVE  LegalTransition
    BY Zenon
  <2>1. TypeOK /\ OneStop /\ StopWaits BY Zenon, SerialFacts
  <2>2. CASE state' = "Stopping" BY Zenon, <2>2 DEF LegalTransition
  <2>3. CASE /\ state' = "Connected"
             /\ \E i \in Start : i \in Alive \ cancelled
             /\ outrun' <=> \E s \in Stop : stopper[s] = "posted"
    <3>1. PICK i \in Alive : i \notin cancelled BY Zenon, <2>3
    <3>2. \A s \in Stop : stopper[s] \in {"idle", "posted"}
      BY Zenon, <2>1, <3>1 DEF StopWaits, TypeOK
    <3>3. state = "Stopping" => outrun'
      BY Zenon, <2>1, <2>3, <3>2 DEF OneStop, StopInFlight
    <3>4. state # "Connected" BY Zenon, <2>1, <3>1 DEF StopWaits
    <3>5. QED BY Zenon, <2>3, <3>3, <3>4 DEF LegalTransition
  <2>4. CASE state' = "Stopped" /\ StopInFlight
    BY Zenon, <2>1, <2>4 DEF OneStop, LegalTransition
  <2>5. QED BY Zenon, <2>2, <2>3, <2>4, StateStep
<1>4. QED BY <1>1, <1>2, <1>3, Invariance, PTL DEF Spec, LegalTransitions
=============================================================================
