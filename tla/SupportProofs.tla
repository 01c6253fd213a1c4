--------------------------- MODULE SupportProofs ---------------------------
(***************************************************************************)
(* What the VPN service stands on: no child process outlives its guard,    *)
(* tun2socks runs on nothing but the tun device, and everyone has the      *)
(* network; for any number of guards, of attempts and starts, of services, *)
(* networks and callbacks on the way, and on every API level.              *)
(***************************************************************************)
EXTENDS MCSupport, Sequences, TLAPS

(* The pool of processes.                                                   *)

(* Every step keeps every variable in its type.                             *)
LEMMA TypeStep == TypeOK /\ [Next]_vars => TypeOK'
<1> SUFFICES ASSUME TypeOK, [Next]_vars PROVE TypeOK'
  BY Zenon
<1> USE PoolAssumption DEF TypeOK, Phase, CleanUp
<1>1. CASE Close BY Zenon, <1>1 DEF Close, guardVars
<1>2. ASSUME NEW g \in Guard, Start(g) PROVE TypeOK'
  BY Zenon, <1>2 DEF Start, Watch
<1>3. ASSUME NEW g \in Guard, ProcessExits(g) PROVE TypeOK'
  BY Zenon, <1>3 DEF ProcessExits
<1>4. ASSUME NEW g \in Guard, WaitReturns(g) PROVE TypeOK'
  BY Zenon, <1>4 DEF WaitReturns
<1>5. ASSUME NEW g \in Guard, HandOver(g) PROVE TypeOK'
  BY Zenon, <1>5 DEF HandOver
<1>6. ASSUME NEW g \in Guard, RestartFails(g) PROVE TypeOK'
  BY Zenon, <1>6 DEF RestartFails, EnterFinally, RunningAfterExit
<1>7. ASSUME NEW g \in Guard, Restart(g) PROVE TypeOK'
  BY <1>7 DEF Restart, Watch
<1>8. ASSUME NEW g \in Guard, CallbackReturns(g) PROVE TypeOK'
  BY Zenon, <1>8 DEF CallbackReturns, Watch
<1>9. ASSUME NEW g \in Guard, CallbackRetries(g) PROVE TypeOK'
  BY <1>9 DEF CallbackRetries, MayTryAgain
<1>10. ASSUME NEW g \in Guard, CallbackThrows(g) PROVE TypeOK'
  BY <1>10 DEF CallbackThrows, EnterFinally
<1>11. ASSUME NEW g \in Guard, Cancelled(g) PROVE TypeOK'
  BY <1>11 DEF Cancelled, EnterFinally
<1>12. ASSUME NEW g \in Guard, Reaped(g) PROVE TypeOK'
  BY Zenon, <1>12 DEF Reaped
<1>13. ASSUME NEW g \in Guard, Timeout(g) PROVE TypeOK'
  BY Zenon, <1>13 DEF Timeout, WaitAgain, DestroyForcibly
<1>14. CASE UNCHANGED vars BY Zenon, <1>14 DEF vars, guardVars
<1>15. QED
  BY Zenon, <1>1, <1>2, <1>3, <1>4, <1>5, <1>6, <1>7, <1>8, <1>9, <1>10, <1>11, <1>12,
     <1>13, <1>14
     DEF Next, Dispatched

(* Every step keeps the invariant; a step of one guard leaves the others    *)
(* as they are.                                                             *)
LEMMA InvariantStep == IInv /\ [Next]_vars => IInv'
<1> SUFFICES ASSUME IInv, [Next]_vars PROVE IInv'
  BY Zenon
<1> TypeOK /\ TypeOK' BY Zenon, TypeStep DEF IInv
<1> DEFINE Ok(g) ==
      /\ delivered[g] => waiter[g] = "none"
      /\ pc[g] = "idle" => ~delivered[g]
      /\ pc[g] = "callback" => waiter[g] = "none" /\ ~delivered[g]
      /\ pc[g] = "receive" => waiter[g] # "none" \/ delivered[g]
      /\ pc[g] \in {"idle", "receive", "callback"} => running[g]
      /\ pc[g] = "done" => proc[g] # "alive"
      /\ waiter[g] = "sending" \/ delivered[g] => proc[g] = "exited"
      /\ g \notin lost /\ pc[g] \in CleanUp => waiter[g] # "none" \/ delivered[g]
<1>ok. \A h \in Guard : Ok(h)
  BY Zenon DEF IInv, Watched, NoOrphan, ExitIsCurrent, CleanUpAnsweredUnlessLost
<1>all. (\A h \in Guard : Ok(h)') => IInv'
  BY Zenon DEF IInv, Watched, NoOrphan, ExitIsCurrent, CleanUpAnsweredUnlessLost
<1>0. CASE UNCHANGED <<guardVars>>
  BY Zenon, <1>0, <1>ok, <1>all DEF guardVars
<1>1. ASSUME NEW g \in Guard, Start(g) PROVE IInv'
  <2>1. Ok(g)'
    <3>1. CASE UNCHANGED <<proc, pc, waiter>>
      BY Zenon, <1>1, <1>ok, <3>1 DEF Start
    <3>2. CASE Watch(g) /\ proc' = [proc EXCEPT ![g] = "alive"]
      BY <1>1, <1>ok, <3>2 DEF TypeOK, CleanUp, Start, Watch
    <3>3. QED BY Zenon, <1>1, <3>1, <3>2 DEF Start
  <2>2. \A h \in Guard \ {g} : Ok(h)'
    BY <1>1, <1>ok DEF TypeOK, Start, Watch
  <2>3. QED BY <2>1, <2>2, <1>all
<1>2. ASSUME NEW g \in Guard, ProcessExits(g) PROVE IInv'
  <2>1. Ok(g)'
    BY Zenon, <1>2, <1>ok DEF TypeOK, CleanUp, ProcessExits
  <2>2. \A h \in Guard \ {g} : Ok(h)'
    BY <1>2, <1>ok DEF TypeOK, ProcessExits
  <2>3. QED BY <2>1, <2>2, <1>all
<1>3. ASSUME NEW g \in Guard, WaitReturns(g) PROVE IInv'
  <2>1. Ok(g)'
    BY <1>3, <1>ok DEF TypeOK, CleanUp, WaitReturns
  <2>2. \A h \in Guard \ {g} : Ok(h)'
    BY <1>3, <1>ok DEF TypeOK, WaitReturns
  <2>3. QED BY <2>1, <2>2, <1>all
<1>4. ASSUME NEW g \in Guard, HandOver(g) PROVE IInv'
  <2>1. Ok(g)'
    BY <1>4, <1>ok DEF TypeOK, CleanUp, HandOver
  <2>2. \A h \in Guard \ {g} : Ok(h)'
    BY <1>4, <1>ok DEF TypeOK, HandOver
  <2>3. QED BY <2>1, <2>2, <1>all
<1>5. ASSUME NEW g \in Guard, RestartFails(g) PROVE IInv'
  <2>1. Ok(g)'
    BY <1>5, <1>ok DEF TypeOK, CleanUp, RestartFails, ExitReceived, RunningAfterExit,
                 EnterFinally
  <2>2. \A h \in Guard \ {g} : Ok(h)'
    BY <1>5, <1>ok DEF TypeOK, RestartFails, ExitReceived, RunningAfterExit,
                 EnterFinally
  <2>3. QED BY <2>1, <2>2, <1>all
<1>6. ASSUME NEW g \in Guard, Restart(g) PROVE IInv'
  <2>1. Ok(g)'
    BY <1>6, <1>ok DEF TypeOK, CleanUp, Restart, ExitReceived, Watch
  <2>2. \A h \in Guard \ {g} : Ok(h)'
    BY <1>6, <1>ok DEF TypeOK, Restart, ExitReceived, Watch
  <2>3. QED BY <2>1, <2>2, <1>all
<1>7. ASSUME NEW g \in Guard, CallbackReturns(g) PROVE IInv'
  <2>1. Ok(g)'
    BY <1>7, <1>ok DEF TypeOK, CleanUp, CallbackReturns, Watch
  <2>2. \A h \in Guard \ {g} : Ok(h)'
    BY <1>7, <1>ok DEF TypeOK, CallbackReturns, Watch
  <2>3. QED BY <2>1, <2>2, <1>all
<1>8. ASSUME NEW g \in Guard, CallbackRetries(g) PROVE IInv'
  <2>1. Ok(g)'
    BY Zenon, <1>8, <1>ok DEF TypeOK, CleanUp, CallbackRetries
  <2>2. \A h \in Guard \ {g} : Ok(h)'
    BY Zenon, <1>8, <1>ok DEF TypeOK, CallbackRetries
  <2>3. QED BY <2>1, <2>2, <1>all
<1>9. ASSUME NEW g \in Guard, CallbackThrows(g) PROVE IInv'
  <2>1. Ok(g)'
    BY <1>9, <1>ok DEF TypeOK, CleanUp, CallbackThrows, EnterFinally
  <2>2. \A h \in Guard \ {g} : Ok(h)'
    BY <1>9, <1>ok DEF TypeOK, CallbackThrows, EnterFinally
  <2>3. QED BY <2>1, <2>2, <1>all
<1>10. ASSUME NEW g \in Guard, Cancelled(g) PROVE IInv'
  <2>1. Ok(g)'
    BY <1>10, <1>ok DEF TypeOK, CleanUp, Cancelled, EnterFinally
  <2>2. \A h \in Guard \ {g} : Ok(h)'
    BY <1>10, <1>ok DEF TypeOK, Cancelled, EnterFinally
  <2>3. QED BY <2>1, <2>2, <1>all
<1>11. ASSUME NEW g \in Guard, Reaped(g) PROVE IInv'
  <2>1. Ok(g)'
    BY <1>11, <1>ok DEF TypeOK, CleanUp, Reaped
  <2>2. \A h \in Guard \ {g} : Ok(h)'
    BY <1>11, <1>ok DEF TypeOK, Reaped
  <2>3. QED BY <2>1, <2>2, <1>all
<1>12. ASSUME NEW g \in Guard, Timeout(g) PROVE IInv'
  <2>1. Ok(g)'
    BY <1>12, <1>ok DEF TypeOK, CleanUp, Timeout, WaitAgain, DestroyForcibly
  <2>2. \A h \in Guard \ {g} : Ok(h)'
    BY <1>12, <1>ok DEF TypeOK, Timeout, WaitAgain, DestroyForcibly
  <2>3. QED BY <2>1, <2>2, <1>all
<1>13. QED
  BY Zenon, <1>0, <1>1, <1>2, <1>3, <1>4, <1>5, <1>6, <1>7, <1>8, <1>9, <1>10, <1>11, <1>12
     DEF Next, Dispatched, Close, vars

(* The invariant holds before the first process is started.                 *)
LEMMA InvariantInit == Init => IInv
<1> SUFFICES ASSUME Init PROVE IInv
  BY Zenon
<1>1. TypeOK
  <2>1. 0 \in 0..(MaxTries + 1) BY PoolAssumption
  <2>2. tries \in [Guard -> 0..(MaxTries + 1)] BY Zenon, <2>1 DEF Init
  <2>3. /\ running \in [Guard -> BOOLEAN] /\ delivered \in [Guard -> BOOLEAN]
        /\ closed \in BOOLEAN /\ stopping \in BOOLEAN
    BY Zenon DEF Init
  <2>4. QED BY Zenon, <2>2, <2>3 DEF Init, TypeOK, Phase
<1>2. Watched /\ NoOrphan /\ ExitIsCurrent /\ CleanUpAnsweredUnlessLost
  BY Zenon DEF Init, Watched, NoOrphan, ExitIsCurrent, CleanUpAnsweredUnlessLost,
         CleanUp
<1>3. QED BY Zenon, <1>1, <1>2 DEF IInv

(* The inductive invariant of the pool.                                     *)
THEOREM Invariance == Spec => []IInv
  BY InvariantInit, InvariantStep, PTL DEF Spec

(* No process outlives its guard: once the join of close() has returned,    *)
(* every child process has exited.                                          *)
THEOREM NoOrphans == Spec => []NoOrphan
<1>1. IInv => NoOrphan BY Zenon DEF IInv
<1>2. QED BY <1>1, Invariance, PTL

(* A guard starts its process again only after the one it refers to has     *)
(* exited.                                                                  *)
THEOREM ExitsCurrent == Spec => []ExitIsCurrent
<1>1. IInv => ExitIsCurrent BY Zenon DEF IInv
<1>2. QED BY <1>1, Invariance, PTL

(* The exceptions to CleanUpAnswered are exactly the two the model names: a *)
(* lost exit code and an interrupted restart callback.                      *)
THEOREM CleanUpsAnswered == Spec => []CleanUpAnsweredUnlessLost
<1>1. IInv => CleanUpAnsweredUnlessLost BY Zenon DEF IInv
<1>2. QED BY <1>1, Invariance, PTL
-----------------------------------------------------------------------------
(* The hand-over of the tun device.                                         *)
Senders == {"start", "restart"}
SenderState == {"idle", "delay", "connected", "done"}

(* Fd!TypeOK, with what bounds the backlog: a sender that is about to       *)
(* connect has no connection left in it, so none is in it twice.            *)
FdTyped ==
  /\ service \in {"starting", "connected", "stopped", "dead"}
  /\ starts \in 1..MaxStarts
  /\ tunProc \in {"started", "listening", "accepted", "returned", "running", "exited"}
  /\ path \in {"none", "stale", "live"}
  /\ backlog \in Seq(Senders) /\ conn \subseteq Senders /\ told \subseteq Senders
  /\ \A i, j \in 1..Len(backlog) : backlog[i] = backlog[j] => i = j
  /\ \A i \in 1..Len(backlog) : sender[backlog[i]] # "delay"
  /\ fd \in {"unset", "tun", "minus1", "garbage"}
  /\ sender \in [Senders -> SenderState]
  /\ attempts \in [Senders -> 0..(MaxAttempts + 1)]
  /\ overlap \in BOOLEAN

(* What Receive and Timeout rely on: a process that still waits for the     *)
(* descriptor has a sender that tries, or a connection to accept; only the  *)
(* process that made the socket has connections; and a descriptor that was  *)
(* never assigned is found by an orphan alone.                              *)
Followed ==
  service \in {"starting", "connected"} /\ tunProc \in {"started", "listening"} =>
    (\E s \in Senders : sender[s] \in {"delay", "connected"}) \/ backlog # <<>>

FdInv ==
  /\ FdTyped /\ Followed
  /\ path = "live" => tunProc \in {"listening", "accepted"}
  /\ backlog # <<>> => path = "live"
  /\ conn # {} => tunProc = "accepted"
  /\ service = "stopped" => tunProc = "exited"
  /\ fd = "garbage" => service = "dead"
  /\ tunProc = "running" => fd \in {"tun", "garbage"}

(* A backlog without repetition holds at most the two senders.              *)
LEMMA BacklogShort ==
  ASSUME NEW q \in Seq(Senders), \A i, j \in 1..Len(q) : q[i] = q[j] => i = j
  PROVE  Len(q) <= 2
<1> SUFFICES ASSUME Len(q) > 2 PROVE FALSE
  OBVIOUS
<1>1. 1 \in 1..Len(q) /\ 2 \in 1..Len(q) /\ 3 \in 1..Len(q)
  OBVIOUS
<1>2. q[1] \in Senders /\ q[2] \in Senders /\ q[3] \in Senders
  BY <1>1
<1>3. q[1] # q[2] /\ q[2] # q[3] /\ q[1] # q[3]
  BY <1>1
<1>4. QED BY Zenon, <1>2, <1>3 DEF Senders

(* The invariant of the tun device holds at first.                          *)
LEMMA FdInit == Fd!Init => FdInv
<1> SUFFICES ASSUME Fd!Init PROVE FdInv
  BY Zenon
<1>1. /\ sender \in [Senders -> SenderState] /\ sender["start"] = "delay"
      /\ attempts \in [Senders -> 0..(MaxAttempts + 1)]
  <2>1. 0 \in 0..(MaxAttempts + 1) BY SupportAssumption
  <2>2. QED BY Zenon, <2>1 DEF Fd!Init, Fd!Senders, Senders, SenderState
<1>2. overlap \in BOOLEAN /\ 1 \in 1..MaxStarts
  <2>1. overlap \in BOOLEAN BY Zenon DEF Fd!Init
  <2>2. QED BY <2>1, SupportAssumption
<1>3. FdTyped
  <2>1. backlog \in Seq(Senders) /\ Len(backlog) = 0 BY DEF Fd!Init
  <2>2. \A i \in 1..Len(backlog) : FALSE BY <2>1
  <2>3. QED BY Zenon, <1>1, <1>2, <2>1, <2>2 DEF Fd!Init, FdTyped
<1>4. Followed
  BY Zenon, <1>1 DEF Followed, Senders
<1>5. QED BY Zenon, <1>3, <1>4 DEF Fd!Init, FdInv

(* Ending the process, and stopping the service, keep the invariant.        *)
LEMMA DieKeeps ==
  ASSUME FdInv, Fd!Die, service' \in {"starting", "connected", "stopped", "dead"},
         sender' \in [Senders -> SenderState], UNCHANGED <<starts, attempts, overlap>>
  PROVE  FdInv'
<1>1. FdTyped'
  BY DEF FdInv, FdTyped, Fd!Die, Fd!SocketsGone
<1>2. Followed'
  BY Zenon DEF Fd!Die, Followed
<1>3. QED BY Zenon, <1>1, <1>2 DEF FdInv, FdTyped, Fd!Die, Fd!SocketsGone

(* The service stops everything.                                            *)
LEMMA StopAllKeeps ==
  ASSUME FdInv, Fd!StopAll, UNCHANGED <<starts, attempts, overlap>>
  PROVE  FdInv'
<1>1. sender' \in [Senders -> SenderState]
  BY Zenon DEF Fd!StopAll, Fd!Senders, Senders, SenderState
<1>2. QED BY Zenon, <1>1, DieKeeps DEF Fd!StopAll

(* A failed attempt is followed by another one, or the service stops.       *)
LEMMA AttemptKeeps ==
  ASSUME FdInv, NEW s \in Senders, Fd!AttemptFails(s)
  PROVE  FdInv'
<1>1. CASE Fd!GivesUp(s)
  BY Zenon, <1>1, StopAllKeeps DEF Fd!AttemptFails
<1>2. CASE ~Fd!GivesUp(s)
  <2>1. /\ sender' = [sender EXCEPT ![s] = "delay"]
        /\ attempts' = [attempts EXCEPT ![s] = attempts[s] + 1]
        /\ ~(attempts[s] > MaxAttempts)
        /\ \/ sender[s] = "delay" \/ \A i \in 1..Len(backlog) : backlog[i] # s
        /\ UNCHANGED <<service, starts, tunProc, path, backlog, conn, told, fd, overlap>>
    BY Zenon, <1>2 DEF Fd!AttemptFails, Fd!GivesUp, Fd!InProgress
  <2>2. sender' \in [Senders -> SenderState] /\ sender'[s] = "delay"
    BY Zenon, <2>1 DEF FdInv, FdTyped, SenderState
  <2>3. attempts' \in [Senders -> 0..(MaxAttempts + 1)]
    <3>1. attempts \in [Senders -> 0..(MaxAttempts + 1)] BY Zenon DEF FdInv, FdTyped
    <3>2. attempts[s] + 1 \in 0..(MaxAttempts + 1) BY <2>1, <3>1, SupportAssumption
    <3>3. QED BY Zenon, <2>1, <3>1, <3>2
  <2>4. \A i \in 1..Len(backlog) : sender'[backlog[i]] # "delay"
    BY <2>1 DEF FdInv, FdTyped
  <2>5. Followed' BY Zenon, <2>2 DEF Followed
  <2>6. FdTyped' BY <2>1, <2>2, <2>3, <2>4 DEF FdInv, FdTyped
  <2>7. QED BY Zenon, <2>1, <2>5, <2>6 DEF FdInv
<1>3. QED BY Zenon, <1>1, <1>2

(* A sender that has sent leaves its connection in the backlog of a process *)
(* that still listens.                                                      *)
LEMMA SendKeeps ==
  ASSUME FdInv, NEW s \in Senders, Fd!Send(s)
  PROVE  FdInv'
<1>0. /\ sender[s] = "connected" /\ (s \in conn \/ \E i \in 1..Len(backlog) : backlog[i] = s)
      /\ sender' = [sender EXCEPT ![s] = "done"] /\ told' = told \cup {s}
      /\ service' = IF s = "start" /\ service = "starting" THEN "connected" ELSE service
      /\ UNCHANGED <<starts, tunProc, path, backlog, conn, fd, attempts, overlap>>
  BY Zenon DEF Fd!Send, Fd!InProgress, Fd!AfterSending
<1>1. /\ sender' \in [Senders -> SenderState] /\ sender'[s] = "done"
      /\ \A t \in Senders \ {s} : sender'[t] = sender[t]
  BY Zenon, <1>0 DEF FdInv, FdTyped, SenderState
<1>2. service' \in {"starting", "connected", "stopped", "dead"}
  BY Zenon, <1>0 DEF FdInv, FdTyped
<1>3. FdTyped'
  <2>1. \A i \in 1..Len(backlog) : sender'[backlog[i]] # "delay"
    BY <1>1 DEF FdInv, FdTyped
  <2>2. QED BY <1>0, <1>1, <1>2, <2>1 DEF FdInv, FdTyped
<1>4. Followed'
  <2>1. SUFFICES ASSUME tunProc \in {"started", "listening"} PROVE backlog # <<>>
    BY Zenon, <1>0 DEF Followed
  <2>2. s \notin conn BY Zenon, <2>1 DEF FdInv
  <2>3. PICK i \in 1..Len(backlog) : backlog[i] = s
    BY Zenon, <1>0, <2>2
  <2>4. QED BY <2>3 DEF FdInv, FdTyped
<1>5. QED BY Zenon, <1>0, <1>3, <1>4 DEF FdInv

(* A new connection is one more in the backlog.                             *)
LEMMA ConnectKeeps ==
  ASSUME FdInv, NEW s \in Senders, Fd!Connect(s)
  PROVE  FdInv'
<1>0. /\ sender[s] = "delay" /\ path = "live"
      /\ sender' = [sender EXCEPT ![s] = "connected"] /\ backlog' = Append(backlog, s)
      /\ UNCHANGED <<service, starts, tunProc, path, conn, told, fd, attempts, overlap>>
  BY Zenon DEF Fd!Connect
<1>1. /\ sender' \in [Senders -> SenderState] /\ sender'[s] = "connected"
      /\ \A t \in Senders \ {s} : sender'[t] = sender[t]
  BY Zenon, <1>0 DEF FdInv, FdTyped, SenderState
<1>2. /\ backlog' \in Seq(Senders) /\ backlog' # <<>> /\ Len(backlog') = Len(backlog) + 1
      /\ Len(backlog) \in Nat
      /\ backlog'[Len(backlog) + 1] = s
      /\ \A i \in 1..Len(backlog) : backlog'[i] = backlog[i]
  BY <1>0 DEF FdInv, FdTyped
<1>3. \A i \in 1..Len(backlog) : backlog[i] # s /\ backlog[i] \in Senders
  BY <1>0 DEF FdInv, FdTyped
<1>4. \A i \in 1..Len(backlog') : i \in 1..Len(backlog) \/ i = Len(backlog) + 1
  BY <1>2
<1>5. FdTyped'
  <2>0. /\ \A i, j \in 1..Len(backlog) : backlog[i] = backlog[j] => i = j
        /\ \A i \in 1..Len(backlog) : sender[backlog[i]] # "delay"
    BY Zenon DEF FdInv, FdTyped
  <2>1. ASSUME NEW i \in 1..Len(backlog'), NEW j \in 1..Len(backlog'),
               backlog'[i] = backlog'[j]
        PROVE  i = j
    BY Zenon, <1>2, <1>3, <1>4, <2>0, <2>1
  <2>2. ASSUME NEW i \in 1..Len(backlog')
        PROVE  sender'[backlog'[i]] # "delay"
    <3>1. CASE i \in 1..Len(backlog)
      BY Zenon, <1>1, <1>2, <1>3, <2>0, <3>1
    <3>2. CASE i = Len(backlog) + 1
      BY Zenon, <1>1, <1>2, <3>2
    <3>3. QED BY Zenon, <1>4, <3>1, <3>2
  <2>3. QED BY Zenon, <1>0, <1>1, <1>2, <2>1, <2>2 DEF FdInv, FdTyped
<1>6. QED BY Zenon, <1>0, <1>2, <1>5 DEF FdInv, Followed

(* The next connection is accepted.                                         *)
LEMMA AcceptKeeps == FdInv /\ Fd!Accept => FdInv'
<1> SUFFICES ASSUME FdInv, Fd!Accept PROVE FdInv'
  BY Zenon
<1>0. /\ tunProc = "listening" /\ backlog # <<>> /\ tunProc' = "accepted"
      /\ conn' = {Head(backlog)} /\ backlog' = Tail(backlog)
      /\ UNCHANGED <<service, starts, path, told, fd, sender, attempts, overlap>>
  BY Zenon DEF Fd!Accept
<1>1. /\ backlog' \in Seq(Senders) /\ Head(backlog) \in Senders
      /\ Len(backlog') = Len(backlog) - 1 /\ Len(backlog) \in Nat
      /\ \A i \in 1..(Len(backlog) - 1) : backlog'[i] = backlog[i + 1]
  BY <1>0 DEF FdInv, FdTyped
<1>2. \A i \in 1..Len(backlog') : i + 1 \in 1..Len(backlog) /\ backlog'[i] = backlog[i + 1]
  BY <1>1
<1>3. FdTyped'
  <2>1. ASSUME NEW i \in 1..Len(backlog'), NEW j \in 1..Len(backlog'),
               backlog'[i] = backlog'[j]
        PROVE  i = j
    <3>1. i + 1 = j + 1 BY <1>2, <2>1 DEF FdInv, FdTyped
    <3>2. QED BY <3>1
  <2>2. \A i \in 1..Len(backlog') : sender[backlog'[i]] # "delay"
    BY Zenon, <1>2 DEF FdInv, FdTyped
  <2>3. QED BY Zenon, <1>0, <1>1, <2>1, <2>2 DEF FdInv, FdTyped
<1>4. QED BY Zenon, <1>0, <1>3 DEF FdInv, Followed

(* Every step keeps the invariant.                                          *)
LEMMA FdStep == FdInv /\ [Fd!Next]_fdVars => FdInv'
<1> SUFFICES ASSUME FdInv, [Fd!Next]_fdVars PROVE FdInv'
  BY Zenon
<1>1. CASE Fd!Listen
  <2>1. /\ tunProc = "started" /\ tunProc' = "listening" /\ path' = "live"
        /\ UNCHANGED <<service, starts, backlog, conn, told, fd, sender, attempts, overlap>>
    BY Zenon, <1>1 DEF Fd!Listen
  <2>2. QED BY <2>1 DEF FdInv, FdTyped, Followed
<1>2. CASE Fd!Accept
  BY Zenon, <1>2, AcceptKeeps
<1>3. CASE Fd!Receive
  BY <1>3 DEF Fd!Receive, Fd!SocketsGone, FdInv, FdTyped, Followed
<1>4. CASE Fd!Timeout
  <2>1. service \notin {"starting", "connected"}
    BY Zenon, <1>4 DEF Fd!Timeout, Fd!Trying, Fd!Senders, Senders, FdInv, Followed
  <2>2. service = "dead" BY Zenon, <1>4, <2>1 DEF Fd!Timeout, FdInv, FdTyped
  <2>3. QED BY <1>4, <2>2 DEF Fd!Timeout, Fd!SocketsGone, FdInv, FdTyped, Followed
<1>5. CASE Fd!EnterLoop
  BY <1>5 DEF Fd!EnterLoop, FdInv, FdTyped, Followed
<1>6. CASE Fd!Exit
  BY Zenon, <1>6, DieKeeps DEF Fd!Exit, FdInv, FdTyped
<1>7. CASE Fd!Restart
  <2>0. /\ service \in {"starting", "connected"} /\ tunProc = "exited" /\ starts < MaxStarts
        /\ starts' = starts + 1 /\ tunProc' = "started"
        /\ sender' = [sender EXCEPT !["restart"] = "delay"]
        /\ attempts' = [attempts EXCEPT !["restart"] = 0]
        /\ overlap' \in BOOLEAN
        /\ UNCHANGED <<service, path, backlog, conn, told, fd>>
    BY Zenon, <1>7 DEF Fd!Restart, Fd!Resend, Fd!Up
  <2>1. /\ sender' \in [Senders -> SenderState] /\ sender'["restart"] = "delay"
        /\ attempts' \in [Senders -> 0..(MaxAttempts + 1)]
    <3>1. 0 \in 0..(MaxAttempts + 1) BY SupportAssumption
    <3>2. QED BY Zenon, <2>0, <3>1 DEF FdInv, FdTyped, Senders, SenderState
  <2>2. backlog = <<>> BY Zenon, <2>0 DEF FdInv
  <2>3. starts' \in 1..MaxStarts BY <2>0, SupportAssumption DEF FdInv, FdTyped
  <2>4. Followed' BY Zenon, <2>1 DEF Followed, Senders
  <2>5. FdTyped' BY <2>0, <2>1, <2>2, <2>3 DEF FdInv, FdTyped
  <2>6. QED BY Zenon, <2>0, <2>4, <2>5 DEF FdInv
<1>8. CASE Fd!Stop
  BY Zenon, <1>8, StopAllKeeps DEF Fd!Stop
<1>9. CASE Fd!JvmDies
  <2>1. sender' \in [Senders -> SenderState] /\ \A s \in Senders : sender'[s] = "idle"
    BY Zenon, <1>9 DEF Fd!JvmDies, Fd!Senders, Senders, SenderState
  <2>2. QED BY <1>9, <2>1 DEF Fd!JvmDies, Fd!Up, FdInv, FdTyped, Followed
<1>10. ASSUME NEW s \in Senders, Fd!Connect(s) \/ Fd!Send(s) \/ Fd!AttemptFails(s)
       PROVE FdInv'
  BY Zenon, <1>10, ConnectKeeps, SendKeeps, AttemptKeeps
<1>11. CASE UNCHANGED fdVars
  BY <1>11 DEF fdVars, FdInv, FdTyped, Followed
<1>12. CASE Fd!Over
  BY Zenon, <1>11, <1>12 DEF Fd!Over, Fd!vars, fdVars
<1>13. QED
  BY Zenon, <1>1, <1>2, <1>3, <1>4, <1>5, <1>6, <1>7, <1>8, <1>9, <1>10, <1>11, <1>12
     DEF Fd!Next, Fd!Senders, Senders

(* tun2socks runs on the descriptor the service sent, unless the process of *)
(* the service has died: a wait that times out, whose descriptor is never   *)
(* assigned, happens to an orphan only.                                     *)
THEOREM RunsOnTheDevice == MCSpec => []RunsOnTunUnlessOrphaned
<1>1. MCInit => FdInv
  BY Zenon, FdInit DEF MCInit
<1>2. FdInv /\ [MCNext]_all => FdInv'
  <2>1. [MCNext]_all => [Fd!Next]_fdVars
    BY Zenon DEF MCNext, all
  <2>2. QED BY Zenon, <2>1, FdStep
<1>3. FdInv => RunsOnTunUnlessOrphaned
  <2> SUFFICES ASSUME FdInv PROVE RunsOnTunUnlessOrphaned
    BY Zenon
  <2>1. Len(backlog) <= 2 BY Zenon, BacklogShort DEF FdInv, FdTyped
  <2>2. Fd!TypeOK
    BY Zenon, <2>1 DEF FdInv, FdTyped, Senders, SenderState, Fd!TypeOK, Fd!Senders
  <2>3. Fd!RunsOnTunUnlessOrphaned
    BY Zenon DEF FdInv, Fd!RunsOnTunUnlessOrphaned, Fd!RunsOnTun
  <2>4. QED BY Zenon, <2>2, <2>3 DEF RunsOnTunUnlessOrphaned
<1>4. QED BY <1>1, <1>2, <1>3, PTL DEF MCSpec

-----------------------------------------------------------------------------
(* The listener for the default network.                                    *)

Known == Network \cup {None}
Messages == [kind : {"Put", "Update", "Lost"}, network : Network]
NetPhase == {"idle", "started", "waiting", "opened", "failed", "building",
          "established"}

(* Position i of the callbacks that wait decides: it is the last of a new   *)
(* network, or 0 where there is none, and then it is the network x that the *)
(* actor has; that network, unless it is lost further on, is d.             *)
Decides(q, x, d, i) ==
  /\ i > 0 => q[i].kind = "Put"
  /\ \A j \in 1..Len(q) : j > i => q[j].kind # "Put"
  /\ LET n == IF i = 0 THEN x ELSE q[i].network IN
       IF \E j \in 1..Len(q) : j > i /\ q[j].kind = "Lost" /\ q[j].network = n
       THEN d = None ELSE d = n

(* An actor that has the network x has d once the callbacks q are           *)
(* delivered.                                                               *)
Reaches(q, x, d) == \E i \in 0..Len(q) : Decides(q, x, d, i)

NetTyped ==
  /\ api \in NetSdks
  /\ default \in Known
  /\ mail \in Seq(Messages)
  /\ registered \in BOOLEAN /\ fallback \in BOOLEAN
  /\ listeners \subseteq Service
  /\ network \in Known
  /\ pendingRequests \subseteq Service
  /\ phase \in [Service -> NetPhase]
  /\ underlyingNetwork \in [Service -> Known]
  /\ active \in [Service -> BOOLEAN]
  /\ metered \in [Service -> BOOLEAN]
  /\ builder \in [Service -> Known]
  /\ vpn \in [Service -> Known]
  /\ raced \subseteq Service

(* The actor: it knows a network only while it is registered, which takes a *)
(* listener, and what it knows and what is on its way make the system's.    *)
Actor ==
  /\ listeners = {} => ~registered
  /\ ~registered => mail = <<>> /\ network = None
  /\ registered => Reaches(mail, network, default)
  /\ pendingRequests # {} => network = None

(* A service has the network of the actor, or has never been told of any.   *)
Told ==
  \A s \in Service :
    underlyingNetwork[s] = IF s \in listeners THEN network ELSE None

(* What the builder and the system have been told is what the service was,  *)
(* unless the service was told in between.                                  *)
Underneath ==
  \A s \in Service :
    /\ phase[s] \in {"building", "established"} => active[s]
    /\ phase[s] = "building" /\ s \notin raced
         => builder[s] = Net!Shown(underlyingNetwork[s], metered[s])
    /\ phase[s] = "established" /\ s \notin raced
         => vpn[s] = Net!Shown(underlyingNetwork[s], metered[s])

NetInv == NetTyped /\ Actor /\ Told /\ Underneath

(* Without callbacks on their way the actor has the network it has.         *)
LEMMA ReachesNow == \A x, d : Reaches(<<>>, x, d) <=> d = x
BY DEF Reaches, Decides

(* A sequence with one more message.                                        *)
LEMMA Appended ==
  ASSUME NEW q \in Seq(Messages), NEW m \in Messages
  PROVE  /\ Append(q, m) \in Seq(Messages) /\ Len(q) \in Nat
         /\ Len(Append(q, m)) = Len(q) + 1
         /\ Append(q, m)[Len(q) + 1] = m
         /\ \A i \in 1..Len(q) : Append(q, m)[i] = q[i]
OBVIOUS

(* A new network is the one that is reached.                                *)
LEMMA ReachesPut ==
  ASSUME NEW q \in Seq(Messages), NEW m \in Messages, m.kind = "Put", NEW x
  PROVE  Reaches(Append(q, m), x, m.network)
<1> DEFINE r == Append(q, m)
<1>1. Len(q) \in Nat /\ Len(r) = Len(q) + 1 /\ r[Len(q) + 1] = m
  BY Zenon, Appended
<1> HIDE DEF r
<1>2. /\ Len(r) \in 0..Len(r) /\ r[Len(r)] = m /\ Len(r) # 0
      /\ \A j \in 1..Len(r) : ~(j > Len(r))
  BY <1>1
<1>3. Decides(r, x, m.network, Len(r))
  BY Zenon, <1>2 DEF Decides
<1>4. QED BY Zenon, <1>2, <1>3 DEF Reaches, r

(* An update changes nothing.                                               *)
LEMMA ReachesUpdate ==
  ASSUME NEW q \in Seq(Messages), NEW m \in Messages, m.kind = "Update",
         NEW x, NEW d, Reaches(q, x, d)
  PROVE  Reaches(Append(q, m), x, d)
<1> DEFINE r == Append(q, m)
<1>1. /\ Len(q) \in Nat /\ Len(r) = Len(q) + 1 /\ r[Len(q) + 1] = m
      /\ \A j \in 1..Len(q) : r[j] = q[j]
  BY Zenon, Appended
<1> HIDE DEF r
<1>2. PICK i \in 0..Len(q) : Decides(q, x, d, i)
  BY Zenon DEF Reaches
<1>3. /\ i \in 0..Len(r) /\ (i > 0 => i \in 1..Len(q))
      /\ \A j \in 1..Len(r) : j \in 1..Len(q) \/ j = Len(q) + 1
      /\ \A j \in 1..Len(q) : j \in 1..Len(r)
  BY <1>1
<1>4. Decides(r, x, d, i)
  BY <1>1, <1>2, <1>3 DEF Decides
<1>5. QED BY Zenon, <1>3, <1>4 DEF Reaches, r

(* The loss of the network that is reached leaves none, that of another     *)
(* nothing changes.                                                         *)
LEMMA ReachesLost ==
  ASSUME NEW q \in Seq(Messages), NEW m \in Messages, m.kind = "Lost",
         NEW x, NEW d, Reaches(q, x, d)
  PROVE  Reaches(Append(q, m), x, IF d = m.network THEN None ELSE d)
<1> DEFINE r == Append(q, m)
           e == IF d = m.network THEN None ELSE d
<1>1. /\ Len(q) \in Nat /\ Len(r) = Len(q) + 1 /\ r[Len(q) + 1] = m
      /\ \A j \in 1..Len(q) : r[j] = q[j]
  BY Zenon, Appended
<1> HIDE DEF r
<1>2. PICK i \in 0..Len(q) : Decides(q, x, d, i)
  BY Zenon DEF Reaches
<1>3. /\ i \in 0..Len(r) /\ (i > 0 => i \in 1..Len(q))
      /\ \A j \in 1..Len(r) : j \in 1..Len(q) \/ j = Len(q) + 1
      /\ \A j \in 1..Len(q) : j \in 1..Len(r)
      /\ Len(q) + 1 \in 1..Len(r) /\ Len(q) + 1 > i
  BY <1>1
<1> DEFINE n == IF i = 0 THEN x ELSE q[i].network
           k == IF i = 0 THEN x ELSE r[i].network
<1>4. n = k BY <1>1, <1>3
<1>5. /\ i > 0 => r[i].kind = "Put"
      /\ \A j \in 1..Len(r) : j > i => r[j].kind # "Put"
  BY Zenon, <1>1, <1>2, <1>3 DEF Decides
<1>6. IF \E j \in 1..Len(q) : j > i /\ q[j].kind = "Lost" /\ q[j].network = n
      THEN d = None ELSE d = n
  BY Zenon, <1>2 DEF Decides
<1> HIDE DEF n, k
<1>7. IF \E j \in 1..Len(r) : j > i /\ r[j].kind = "Lost" /\ r[j].network = k
      THEN e = None ELSE e = k
  <2>1. CASE \E j \in 1..Len(q) : j > i /\ q[j].kind = "Lost" /\ q[j].network = n
    <3>1. \E j \in 1..Len(r) : j > i /\ r[j].kind = "Lost" /\ r[j].network = k
      BY Zenon, <2>1, <1>1, <1>3, <1>4
    <3>2. e = None BY Zenon, <2>1, <1>6
    <3>3. QED BY Zenon, <3>1, <3>2
  <2>2. CASE ~\E j \in 1..Len(q) : j > i /\ q[j].kind = "Lost" /\ q[j].network = n
    <3>1. d = n BY Zenon, <2>2, <1>6
    <3>2. CASE m.network = n
      BY Zenon, <3>1, <3>2, <1>1, <1>3, <1>4
    <3>3. CASE m.network # n
      <4>1. ~\E j \in 1..Len(r) : j > i /\ r[j].kind = "Lost" /\ r[j].network = k
        BY Zenon, <2>2, <3>3, <1>1, <1>3, <1>4
      <4>2. QED BY Zenon, <4>1, <3>1, <3>3, <1>4
    <3>4. QED BY Zenon, <3>2, <3>3
  <2>3. QED BY Zenon, <2>1, <2>2
<1>8. Decides(r, x, e, i)
  BY Zenon, <1>5, <1>7 DEF Decides, k
<1>9. QED BY Zenon, <1>3, <1>8 DEF Reaches, r

(* The delivery of the first callback: what is reached stays.               *)
LEMMA ReachesTail ==
  ASSUME NEW q \in Seq(Messages), q # <<>>, NEW x, NEW d, Reaches(q, x, d)
  PROVE  LET m == Head(q)
             y == IF m.kind = "Put" THEN m.network
                  ELSE IF m.kind = "Lost" /\ m.network = x THEN None ELSE x
         IN  Reaches(Tail(q), y, d)
<1> DEFINE m == Head(q)
           y == IF m.kind = "Put" THEN m.network
                ELSE IF m.kind = "Lost" /\ m.network = x THEN None ELSE x
           r == Tail(q)
<1>1. /\ Len(q) \in Nat /\ Len(q) >= 1 /\ Len(r) = Len(q) - 1 /\ q[1] = m
      /\ \A j \in 1..Len(r) : r[j] = q[j + 1]
  OBVIOUS
<1> HIDE DEF r, m
<1>2. PICK i \in 0..Len(q) : Decides(q, x, d, i)
  BY Zenon DEF Reaches
<1>3. /\ \A j \in 1..Len(r) : j + 1 \in 1..Len(q) /\ j + 1 > 1 /\ r[j] = q[j + 1]
      /\ \A j \in 1..Len(q) : j = 1 \/ (j - 1 \in 1..Len(r) /\ r[j - 1] = q[j])
      /\ 1 \in 1..Len(q) /\ 0 \in 0..Len(r)
  BY <1>1
<1>4. CASE i = 0
  <2>1. m.kind # "Put" BY <1>1, <1>2, <1>3, <1>4 DEF Decides
  <2>2. \A j \in 1..Len(r) : r[j].kind # "Put"
    BY <1>2, <1>3, <1>4 DEF Decides
  <2>3. IF \E j \in 1..Len(q) : q[j].kind = "Lost" /\ q[j].network = x
        THEN d = None ELSE d = x
    BY <1>2, <1>4 DEF Decides
  <2>4. IF \E j \in 1..Len(r) : r[j].kind = "Lost" /\ r[j].network = y
        THEN d = None ELSE d = y
    <3>1. CASE m.kind = "Lost" /\ m.network = x
      BY Zenon, <2>3, <3>1, <1>1, <1>3
    <3>2. CASE ~(m.kind = "Lost" /\ m.network = x)
      <4>1. y = x BY Zenon, <2>1, <3>2
      <4>2. (\E j \in 1..Len(q) : q[j].kind = "Lost" /\ q[j].network = x)
              <=> (\E j \in 1..Len(r) : r[j].kind = "Lost" /\ r[j].network = x)
        BY <3>2, <1>1, <1>3
      <4>3. QED BY Zenon, <4>1, <4>2, <2>3
    <3>3. QED BY Zenon, <3>1, <3>2
  <2>5. Decides(r, y, d, 0)
    <3>1. \A j \in 1..Len(r) : j > 0 OBVIOUS
    <3> HIDE DEF y
    <3>2. QED BY <2>2, <2>4, <3>1 DEF Decides
  <2>6. QED BY Zenon, <2>5, <1>3 DEF Reaches, r, m
<1>5. CASE i > 0
  <2>0. /\ i - 1 \in 0..Len(r) /\ i \in 1..Len(q) /\ i - 1 >= 0
        /\ i = 1 \/ (i - 1 \in 1..Len(r) /\ i - 1 > 0)
    BY <1>1, <1>5
  <2>1. \A j \in 1..Len(r) : j > i - 1 => j + 1 > i
    BY <2>0
  <2>2. \A j \in 1..Len(q) : j > i => j - 1 \in 1..Len(r) /\ j - 1 > i - 1 /\ r[j - 1] = q[j]
    BY <2>0, <1>3
  <2>3. q[i].kind = "Put" /\ (i - 1 > 0 => r[i - 1].kind = "Put")
    BY <1>2, <1>3, <1>5, <2>0 DEF Decides
  <2>4. \A j \in 1..Len(r) : j > i - 1 => r[j].kind # "Put"
    BY <1>2, <1>3, <2>1 DEF Decides
  <2> DEFINE n == q[i].network
             k == IF i - 1 = 0 THEN y ELSE r[i - 1].network
  <2>5. n = k
    BY <2>0, <2>3, <1>1, <1>3
  <2>6. IF \E j \in 1..Len(q) : j > i /\ q[j].kind = "Lost" /\ q[j].network = n
        THEN d = None ELSE d = n
    BY <1>2, <1>5 DEF Decides
  <2>7. (\E j \in 1..Len(q) : j > i /\ q[j].kind = "Lost" /\ q[j].network = n)
          <=> (\E j \in 1..Len(r) : j > i - 1 /\ r[j].kind = "Lost" /\ r[j].network = n)
    <3> HIDE DEF n
    <3>1. ASSUME NEW j \in 1..Len(q), j > i, q[j].kind = "Lost", q[j].network = n
          PROVE  \E h \in 1..Len(r) : h > i - 1 /\ r[h].kind = "Lost" /\ r[h].network = n
      <4>1. j - 1 \in 1..Len(r) /\ j - 1 > i - 1 /\ r[j - 1] = q[j]
        BY Zenon, <2>2, <3>1
      <4>2. QED BY Zenon, <4>1, <3>1
    <3>2. ASSUME NEW j \in 1..Len(r), j > i - 1, r[j].kind = "Lost", r[j].network = n
          PROVE  \E h \in 1..Len(q) : h > i /\ q[h].kind = "Lost" /\ q[h].network = n
      <4>1. j + 1 \in 1..Len(q) /\ j + 1 > i /\ r[j] = q[j + 1]
        BY Zenon, <2>1, <1>3, <3>2
      <4>2. QED BY Zenon, <4>1, <3>2
    <3>3. QED BY Zenon, <3>1, <3>2
  <2>8. IF \E j \in 1..Len(r) : j > i - 1 /\ r[j].kind = "Lost" /\ r[j].network = k
        THEN d = None ELSE d = k
    <3> HIDE DEF n, k
    <3>1. QED BY Zenon, <2>5, <2>6, <2>7
  <2>9. Decides(r, y, d, i - 1)
    <3> HIDE DEF y
    <3>1. QED BY Zenon, <2>3, <2>4, <2>8 DEF Decides
  <2>10. QED BY Zenon, <2>9, <2>0 DEF Reaches, r, m
<1>6. QED BY <1>4, <1>5

(* Two callbacks that are posted together.                                  *)
LEMMA TwoPosted ==
  ASSUME NEW q \in Seq(Messages), NEW a \in Messages, NEW b \in Messages
  PROVE  q \o <<a, b>> = Append(Append(q, a), b)
OBVIOUS

(* A message posted behind the others.                                      *)
LEMMA OnePosted ==
  ASSUME NEW q \in Seq(Messages), NEW a \in Messages
  PROVE  q \o <<a>> = Append(q, a)
OBVIOUS

(* The fields of a message.                                                 *)
LEMMA MessageMade ==
  ASSUME NEW kind \in {"Put", "Update", "Lost"}, NEW n \in Network
  PROVE  /\ Net!Message(kind, n) \in Messages
         /\ Net!Message(kind, n).kind = kind /\ Net!Message(kind, n).network = n
BY Zenon DEF Net!Message, Messages

(* The invariant of the network listener holds at first.                    *)
LEMMA NetInit == Net!Init => NetInv
<1> SUFFICES ASSUME Net!Init PROVE NetInv
  BY Zenon
<1>1. registered \in BOOLEAN /\ fallback \in BOOLEAN /\ ~registered
  BY Zenon DEF Net!Init
<1>2. /\ active \in [Service -> BOOLEAN] /\ metered \in [Service -> BOOLEAN]
  BY Zenon DEF Net!Init
<1>3. NetTyped
  BY <1>1, <1>2 DEF Net!Init, NetTyped, Known, NetPhase
<1>4. Actor
  BY Zenon, <1>1 DEF Net!Init, Actor
<1>5. Told
  BY Zenon DEF Net!Init, Told
<1>6. Underneath
  BY Zenon DEF Net!Init, Underneath
<1>7. QED BY Zenon, <1>3, <1>4, <1>5, <1>6 DEF NetInv

(* What the steps of the system change: its network, and the callbacks on   *)
(* their way.                                                               *)
LEMMA SystemKeeps ==
  ASSUME NetInv, default' \in Known, mail' \in Seq(Messages),
         ~registered => mail' = mail,
         registered => Reaches(mail', network, default'),
         UNCHANGED <<api, registered, fallback, listeners, network, pendingRequests,
                     phase, underlyingNetwork, active, metered, builder, vpn, raced>>
  PROVE  NetInv'
<1>1. NetTyped' BY Zenon DEF NetInv, NetTyped
<1>2. Actor' BY Zenon DEF NetInv, Actor
<1>3. Told' BY Zenon DEF NetInv, Told
<1>4. Underneath' BY Zenon DEF NetInv, Underneath, Net!Shown
<1>5. QED BY Zenon, <1>1, <1>2, <1>3, <1>4 DEF NetInv

(* A network becomes available.                                             *)
LEMMA AvailableKeeps ==
  ASSUME NetInv, NEW n \in Network, Net!NetworkAvailable(n)
  PROVE  NetInv'
<1>0. /\ default # n /\ default' = n
      /\ UNCHANGED <<api, registered, fallback, listeners, network, pendingRequests,
                     phase, underlyingNetwork, active, metered, builder, vpn, raced>>
  BY Zenon DEF Net!NetworkAvailable, Net!actorVars, Net!serviceVars
<1>1. default \in Known /\ mail \in Seq(Messages) /\ n \in Known
  BY Zenon DEF NetInv, NetTyped, Known
<1> DEFINE P == Net!Message("Put", n)
           U == Net!Message("Update", n)
           L == Net!Message("Lost", default)
<1>2. /\ P \in Messages /\ P.kind = "Put" /\ P.network = n
      /\ U \in Messages /\ U.kind = "Update"
  BY Zenon, MessageMade
<1>3. default # None => L \in Messages /\ L.kind = "Lost" /\ L.network = default
  <2>1. default # None => default \in Network BY Zenon, <1>1 DEF Known
  <2>2. QED BY Zenon, <2>1, MessageMade
<1>4. /\ Append(mail, P) \in Seq(Messages) /\ Reaches(Append(mail, P), network, n)
  BY <1>1, <1>2, Appended, ReachesPut
<1>5. \/ mail' = IF registered THEN mail \o <<P, U>> ELSE mail
      \/ default # None /\ mail' = IF registered THEN mail \o <<L, P>> ELSE mail
      \/ default # None /\ mail' = IF registered THEN mail \o <<P, L>> ELSE mail
  BY Zenon DEF Net!NetworkAvailable, Net!Post
<1> HIDE DEF P, U, L
<1>6. CASE ~registered
  BY Zenon, <1>0, <1>1, <1>5, <1>6, SystemKeeps
<1>7. CASE registered /\ mail' = mail \o <<P, U>>
  <2>1. mail' = Append(Append(mail, P), U)
    BY Zenon, <1>1, <1>2, <1>7, TwoPosted
  <2>2. mail' \in Seq(Messages) /\ Reaches(mail', network, n)
    BY Zenon, <2>1, <1>2, <1>4, Appended, ReachesUpdate
  <2>3. QED BY Zenon, <2>2, <1>0, <1>1, <1>7, SystemKeeps
<1>8. CASE registered /\ default # None /\ mail' = mail \o <<L, P>>
  <2>1. mail' = Append(Append(mail, L), P) /\ Append(mail, L) \in Seq(Messages)
    BY <1>1, <1>2, <1>3, <1>8, TwoPosted, Appended
  <2>2. mail' \in Seq(Messages) /\ Reaches(mail', network, n)
    BY Zenon, <2>1, <1>2, Appended, ReachesPut
  <2>3. QED BY Zenon, <2>2, <1>0, <1>1, <1>8, SystemKeeps
<1>9. CASE registered /\ default # None /\ mail' = mail \o <<P, L>>
  <2>1. mail' = Append(Append(mail, P), L)
    BY Zenon, <1>1, <1>2, <1>3, <1>9, TwoPosted
  <2>2. mail' \in Seq(Messages) /\ Reaches(mail', network, IF n = L.network THEN None ELSE n)
    <3>1. L \in Messages /\ L.kind = "Lost" BY Zenon, <1>3, <1>9
    <3>2. Reaches(Append(Append(mail, P), L), network, IF n = L.network THEN None ELSE n)
      BY Zenon, <3>1, <1>4, ReachesLost
    <3>3. Append(Append(mail, P), L) \in Seq(Messages)
      BY Zenon, <3>1, <1>4, Appended
    <3>4. QED BY Zenon, <2>1, <3>2, <3>3
  <2>3. n # L.network BY Zenon, <1>0, <1>3, <1>9
  <2>4. QED BY Zenon, <2>2, <2>3, <1>0, <1>1, <1>9, SystemKeeps
<1>10. QED BY Zenon, <1>5, <1>6, <1>7, <1>8, <1>9

(* The network is lost, or its capabilities change.                         *)
LEMMA LostKeeps == NetInv /\ (Net!NetworkLost \/ Net!CapabilitiesChanged) => NetInv'
<1> SUFFICES ASSUME NetInv, Net!NetworkLost \/ Net!CapabilitiesChanged PROVE NetInv'
  BY Zenon
<1>0. /\ default # None
      /\ UNCHANGED <<api, registered, fallback, listeners, network, pendingRequests,
                     phase, underlyingNetwork, active, metered, builder, vpn, raced>>
  BY Zenon DEF Net!NetworkLost, Net!CapabilitiesChanged, Net!actorVars, Net!serviceVars
<1> DEFINE L == Net!Message("Lost", default)
           U == Net!Message("Update", default)
<1>1. /\ default \in Network /\ default \in Known /\ None \in Known
      /\ mail \in Seq(Messages)
      /\ registered => Reaches(mail, network, default)
  BY Zenon, <1>0 DEF NetInv, NetTyped, Known, Actor
<1>2. /\ L \in Messages /\ L.kind = "Lost" /\ L.network = default
      /\ U \in Messages /\ U.kind = "Update"
  BY Zenon, <1>1, MessageMade
<1>3. \/ default' = None /\ mail' = IF registered THEN mail \o <<L>> ELSE mail
      \/ default' = default /\ mail' = IF registered THEN mail \o <<U>> ELSE mail
  BY Zenon DEF Net!NetworkLost, Net!CapabilitiesChanged, Net!Post
<1> HIDE DEF L, U
<1>4. CASE ~registered
  BY Zenon, <1>0, <1>1, <1>3, <1>4, SystemKeeps
<1>5. CASE registered /\ default' = None /\ mail' = mail \o <<L>>
  <2>1. mail' = Append(mail, L) BY Zenon, <1>1, <1>2, <1>5, OnePosted
  <2>2. mail' \in Seq(Messages)
        /\ Reaches(mail', network, IF default = L.network THEN None ELSE default)
    <3>1. Reaches(mail, network, default) BY Zenon, <1>1, <1>5
    <3>2. Reaches(Append(mail, L), network, IF default = L.network THEN None ELSE default)
      BY Zenon, <3>1, <1>1, <1>2, ReachesLost
    <3>3. Append(mail, L) \in Seq(Messages) BY Zenon, <1>1, <1>2, Appended
    <3>4. QED BY Zenon, <2>1, <3>2, <3>3
  <2>3. QED BY Zenon, <2>2, <1>0, <1>1, <1>2, <1>5, SystemKeeps
<1>6. CASE registered /\ default' = default /\ mail' = mail \o <<U>>
  <2>1. mail' = Append(mail, U) BY Zenon, <1>1, <1>2, <1>6, OnePosted
  <2>2. mail' \in Seq(Messages) /\ Reaches(mail', network, default)
    <3>1. Reaches(mail, network, default) BY Zenon, <1>1, <1>6
    <3>2. Reaches(Append(mail, U), network, default)
      BY Zenon, <3>1, <1>1, <1>2, ReachesUpdate
    <3>3. Append(mail, U) \in Seq(Messages) BY Zenon, <1>1, <1>2, Appended
    <3>4. QED BY Zenon, <2>1, <3>2, <3>3
  <2>3. QED BY Zenon, <2>2, <1>0, <1>1, <1>6, SystemKeeps
<1>7. QED BY Zenon, <1>3, <1>4, <1>5, <1>6

(* All listeners are told of a network: each has it, and so has the system  *)
(* of one that is established; one that is between the builder and          *)
(* establish() has been overtaken.                                          *)
LEMMA NotifyKeeps ==
  ASSUME NetInv, NEW n \in Known, Net!Notify(listeners, n), Net!Raced(listeners),
         network' = n, phase' \in [Service -> NetPhase],
         \A s \in Service : \/ phase'[s] = phase[s]
                            \/ phase'[s] = "opened" /\ phase[s] = "waiting",
         UNCHANGED <<api, listeners, active, metered, builder>>
  PROVE  /\ underlyingNetwork' \in [Service -> Known] /\ vpn' \in [Service -> Known]
         /\ raced' \subseteq Service
         /\ Told' /\ Underneath'
<1>0. /\ underlyingNetwork \in [Service -> Known] /\ vpn \in [Service -> Known]
      /\ listeners \subseteq Service /\ raced \subseteq Service
  BY Zenon DEF NetInv, NetTyped
<1>1. /\ underlyingNetwork' = [s \in Service |->
                                 IF s \in listeners THEN n ELSE underlyingNetwork[s]]
      /\ vpn' = [s \in Service |->
                   IF s \in listeners /\ active[s] /\ phase[s] = "established"
                   THEN Net!Shown(n, metered[s]) ELSE vpn[s]]
      /\ raced' = (raced \ listeners) \cup {s \in listeners : phase[s] = "building"}
  BY Zenon DEF Net!Notify, Net!Raced
<1>2. \A s \in Service : Net!Shown(n, metered[s]) \in Known
  BY Zenon DEF Net!Shown, Known
<1>3. underlyingNetwork' \in [Service -> Known] /\ vpn' \in [Service -> Known]
  BY Zenon, <1>0, <1>1, <1>2
<1>4. raced' \subseteq Service BY Zenon, <1>0, <1>1
<1>5. Told' BY Zenon, <1>0, <1>1 DEF NetInv, Told
<1>6. ASSUME NEW s \in Service
      PROVE  /\ phase'[s] \in {"building", "established"} => active'[s]
             /\ phase'[s] = "building" /\ s \notin raced'
                  => builder'[s] = Net!Shown(underlyingNetwork[s], metered[s])'
             /\ phase'[s] = "established" /\ s \notin raced'
                  => vpn'[s] = Net!Shown(underlyingNetwork[s], metered[s])'
  <2>0. /\ phase[s] \in {"building", "established"} => active[s]
        /\ phase[s] = "building" /\ s \notin raced
             => builder[s] = Net!Shown(underlyingNetwork[s], metered[s])
        /\ phase[s] = "established" /\ s \notin raced
             => vpn[s] = Net!Shown(underlyingNetwork[s], metered[s])
    BY Zenon DEF NetInv, Underneath
  <2>1. phase'[s] \in {"building", "established"} => phase[s] = phase'[s]
    BY Zenon
  <2>2. phase'[s] \in {"building", "established"} => active'[s]
    BY Zenon, <2>0, <2>1
  <2>3. CASE s \in listeners
    <3>1. underlyingNetwork'[s] = n BY Zenon, <1>1, <2>3
    <3>2. phase[s] = "building" => s \in raced' BY Zenon, <1>1, <2>3
    <3>3. phase[s] = "established" => vpn'[s] = Net!Shown(n, metered[s])
      BY Zenon, <1>1, <2>0, <2>3
    <3>4. QED BY Zenon, <2>1, <2>2, <3>1, <3>2, <3>3 DEF Net!Shown
  <2>4. CASE s \notin listeners
    <3>1. /\ underlyingNetwork'[s] = underlyingNetwork[s] /\ vpn'[s] = vpn[s]
          /\ s \notin raced' => s \notin raced
      BY Zenon, <1>1, <2>4
    <3>2. QED BY Zenon, <2>0, <2>1, <2>2, <3>1 DEF Net!Shown
  <2>5. QED BY Zenon, <2>3, <2>4
<1>7. Underneath' BY Zenon, <1>6 DEF Underneath
<1>8. QED BY Zenon, <1>3, <1>4, <1>5, <1>7

(* The delivery of a callback.                                              *)
LEMMA DeliverKeeps == NetInv /\ Net!Deliver => NetInv'
<1> SUFFICES ASSUME NetInv, Net!Deliver PROVE NetInv'
  BY Zenon
<1> DEFINE m == Head(mail)
<1>0. /\ mail # <<>> /\ mail' = Tail(mail)
      /\ \/ m.kind = "Put" /\ Net!Put(m.network)
         \/ m.kind = "Update" /\ Net!Update(m.network)
         \/ m.kind = "Lost" /\ Net!Lost(m.network)
      /\ UNCHANGED <<api, default, registered, fallback, listeners, active, metered,
                     builder>>
  BY Zenon DEF Net!Deliver
<1>1. /\ m \in Messages /\ m.network \in Known /\ m.network # None
      /\ mail' \in Seq(Messages)
  <2>1. mail \in Seq(Messages) BY Zenon DEF NetInv, NetTyped
  <2>2. m \in Messages /\ mail' \in Seq(Messages) BY <1>0, <2>1
  <2>3. m.network \in Network BY Zenon, <2>2 DEF Messages
  <2>4. QED BY Zenon, <2>2, <2>3, SupportAssumption DEF Known
<1>2. registered /\ registered' /\ listeners' # {}
  BY Zenon, <1>0 DEF NetInv, Actor
<1> DEFINE y == IF m.kind = "Put" THEN m.network
                ELSE IF m.kind = "Lost" /\ m.network = network THEN None ELSE network
<1>3. Reaches(mail', y, default)
  <2>1. mail \in Seq(Messages) /\ Reaches(mail, network, default)
    BY Zenon, <1>2 DEF NetInv, NetTyped, Actor
  <2>2. QED BY Zenon, <1>0, <2>1, ReachesTail
<1> HIDE DEF m
<1>4. /\ network' = y /\ y \in Known
      /\ m.kind = "Put" => pendingRequests' = {}
      /\ m.kind # "Put" => pendingRequests' = pendingRequests
      /\ \/ Net!Notify(listeners, y) /\ Net!Raced(listeners)
         \/ y = network /\ UNCHANGED <<underlyingNetwork, vpn, raced, phase>>
  <2>1. network \in Known /\ None \in Known BY Zenon DEF NetInv, NetTyped, Known
  <2>2. CASE m.kind = "Put" /\ Net!Put(m.network)
    BY Zenon, <2>2, <1>1 DEF Net!Put, Net!AnswerPending
  <2>3. CASE m.kind = "Update" /\ Net!Update(m.network)
    BY Zenon, <2>1, <2>3 DEF Net!Update, Net!Concerned
  <2>4. CASE m.kind = "Lost" /\ Net!Lost(m.network)
    BY Zenon, <2>1, <2>4 DEF Net!Lost, Net!Concerned
  <2>5. QED BY Zenon, <1>0, <2>2, <2>3, <2>4
<1>5. /\ phase' \in [Service -> NetPhase]
      /\ \A s \in Service : \/ phase'[s] = phase[s]
                            \/ phase'[s] = "opened" /\ phase[s] = "waiting"
  <2>1. phase \in [Service -> NetPhase] BY Zenon DEF NetInv, NetTyped
  <2>2. CASE Net!Put(m.network)
    BY Zenon, <2>1, <2>2 DEF Net!Put, Net!AnswerPending, NetPhase
  <2>3. CASE UNCHANGED phase
    BY Zenon, <2>1, <2>3
  <2>4. QED BY Zenon, <1>0, <2>2, <2>3 DEF Net!Update, Net!Lost
<1>6. Actor'
  <2>1. pendingRequests' # {} => network' = None
    <3>1. m.kind # "Put" /\ network = None => y = None BY Zenon, <1>1
    <3>2. QED BY Zenon, <3>1, <1>4 DEF NetInv, Actor
  <2>2. QED BY Zenon, <1>0, <1>2, <1>3, <1>4, <2>1 DEF Actor
<1> HIDE DEF y
<1>7. /\ underlyingNetwork' \in [Service -> Known] /\ vpn' \in [Service -> Known]
      /\ raced' \subseteq Service
      /\ Told' /\ Underneath'
  <2>1. CASE Net!Notify(listeners, y) /\ Net!Raced(listeners)
    BY Zenon, <2>1, <1>0, <1>4, <1>5, NotifyKeeps
  <2>2. CASE y = network /\ UNCHANGED <<underlyingNetwork, vpn, raced, phase>>
    BY Zenon, <2>2, <1>0, <1>4 DEF NetInv, NetTyped, Told, Underneath, Net!Shown
  <2>3. QED BY Zenon, <1>4, <2>1, <2>2
<1>8. NetTyped'
  BY Zenon, <1>0, <1>1, <1>4, <1>5, <1>7 DEF NetInv, NetTyped
<1>9. QED BY Zenon, <1>6, <1>7, <1>8 DEF NetInv

(* A listener comes: it is told what the actor knows, and the first one     *)
(* makes the actor register, with which the system reports its network.     *)
LEMMA PreInitKeeps ==
  ASSUME NetInv, NEW s \in Service, Net!PreInit(s)
  PROVE  NetInv'
<1>0. /\ \A t \in Service : phase[t] = "idle"
      /\ phase' = [phase EXCEPT ![s] = "started"]
      /\ Net!Register /\ listeners' = listeners \cup {s}
      /\ underlyingNetwork' = IF network # None
                              THEN [underlyingNetwork EXCEPT ![s] = network]
                              ELSE underlyingNetwork
      /\ UNCHANGED <<api, default, network, pendingRequests, active, metered,
                     builder, vpn, raced>>
  BY Zenon DEF Net!PreInit, Net!TellNetwork
<1>1. /\ network \in Known /\ default \in Known /\ mail \in Seq(Messages)
      /\ underlyingNetwork \in [Service -> Known] /\ phase \in [Service -> NetPhase]
      /\ listeners \subseteq Service /\ registered \in BOOLEAN /\ fallback \in BOOLEAN
  BY Zenon DEF NetInv, NetTyped
<1>2. /\ phase' \in [Service -> NetPhase]
      /\ \A t \in Service : phase'[t] \notin {"building", "established"}
      /\ underlyingNetwork' \in [Service -> Known]
  BY Zenon, <1>0, <1>1 DEF NetPhase
<1>3. Told' BY Zenon, <1>0, <1>1 DEF NetInv, Told
<1>4. Underneath' BY Zenon, <1>2 DEF Underneath
<1>5. CASE listeners # {} /\ UNCHANGED <<registered, fallback, mail>>
  <2>1. NetTyped' BY Zenon, <1>0, <1>1, <1>2, <1>5 DEF NetInv, NetTyped
  <2>2. Actor' BY Zenon, <1>0, <1>5 DEF NetInv, Actor
  <2>3. QED BY Zenon, <1>3, <1>4, <2>1, <2>2 DEF NetInv
<1>6. CASE listeners = {} /\ fallback' = TRUE /\ UNCHANGED <<registered, mail>>
  <2>0. fallback' \in BOOLEAN BY Zenon, <1>6
  <2>1. NetTyped' BY Zenon, <1>0, <1>1, <1>2, <1>6, <2>0 DEF NetInv, NetTyped
  <2>2. ~registered BY Zenon, <1>6 DEF NetInv, Actor
  <2>3. Actor' BY Zenon, <1>0, <1>6, <2>2 DEF NetInv, Actor
  <2>4. QED BY Zenon, <1>3, <1>4, <2>1, <2>3 DEF NetInv
<1>7. CASE /\ listeners = {} /\ registered' = TRUE /\ fallback' = FALSE
           /\ mail' = IF default # None THEN <<Net!Message("Put", default)>> ELSE <<>>
  <2>0. fallback' \in BOOLEAN /\ registered' \in BOOLEAN /\ registered' BY Zenon, <1>7
  <2>1. network = None BY Zenon, <1>7 DEF NetInv, Actor
  <2>2. mail' \in Seq(Messages) /\ Reaches(mail', None, default)
    <3>1. CASE default = None
      BY <1>7, <3>1, ReachesNow
    <3>2. CASE default # None
      <4> DEFINE p == Net!Message("Put", default)
      <4>1. p \in Messages /\ p.kind = "Put" /\ p.network = default
        BY Zenon, <1>1, <3>2, MessageMade DEF Known
      <4>2. mail' = <<p>> BY Zenon, <1>7, <3>2
      <4> HIDE DEF p
      <4>3. <<>> \in Seq(Messages) /\ <<p>> = Append(<<>>, p) BY <4>1
      <4>4. Reaches(<<p>>, None, default) /\ <<p>> \in Seq(Messages)
        <5>1. Reaches(Append(<<>>, p), None, p.network) BY Zenon, <4>1, <4>3, ReachesPut
        <5>2. QED BY <5>1, <4>1, <4>3
      <4>5. QED BY Zenon, <4>2, <4>4
    <3>3. QED BY Zenon, <3>1, <3>2
  <2>3. NetTyped' BY Zenon, <1>0, <1>1, <1>2, <2>0, <2>2 DEF NetInv, NetTyped
  <2>4. Actor' BY Zenon, <1>0, <2>0, <2>1, <2>2 DEF NetInv, Actor
  <2>5. QED BY Zenon, <1>3, <1>4, <2>3, <2>4 DEF NetInv
<1>8. QED BY Zenon, <1>0, <1>5, <1>6, <1>7 DEF Net!Register

(* The steps of a service that leave the actor alone.                       *)
LEMMA GetKeeps ==
  ASSUME NetInv, NEW s \in Service, Net!GetNetwork(s) \/ Net!GetFallback(s)
  PROVE  NetInv'
<1>0. /\ phase[s] \in {"started", "opened"}
      /\ \E p \in {"opened", "waiting", "failed"} : phase' = [phase EXCEPT ![s] = p]
      /\ \/ pendingRequests' = pendingRequests
         \/ network = None /\ pendingRequests' = pendingRequests \cup {s}
      /\ UNCHANGED <<api, default, mail, registered, fallback, listeners, network,
                     underlyingNetwork, active, metered, builder, vpn, raced>>
  BY Zenon DEF Net!GetNetwork, Net!GetFallback, Net!actorVars
<1>1. /\ phase' \in [Service -> NetPhase]
      /\ \A t \in Service : phase'[t] \in {"building", "established"} => phase'[t] = phase[t]
  BY Zenon, <1>0 DEF NetInv, NetTyped, NetPhase
<1>2. NetTyped' BY Zenon, <1>0, <1>1 DEF NetInv, NetTyped
<1>3. Actor' BY Zenon, <1>0 DEF NetInv, Actor
<1>4. Told' BY Zenon, <1>0 DEF NetInv, Told
<1>5. Underneath' BY Zenon, <1>0, <1>1 DEF NetInv, Underneath, Net!Shown
<1>6. QED BY Zenon, <1>2, <1>3, <1>4, <1>5 DEF NetInv

(* startVpn of a service.                                                   *)
LEMMA StartVpnKeeps ==
  ASSUME NetInv, NEW s \in Service, Net!StartVpn(s)
  PROVE  NetInv'
<1>0. /\ phase' = [phase EXCEPT ![s] = "building"]
      /\ active' = [active EXCEPT ![s] = TRUE]
      /\ UNCHANGED <<api, default, mail, registered, fallback, listeners, network,
                     pendingRequests, underlyingNetwork, vpn, raced>>
  BY Zenon DEF Net!StartVpn, Net!actorVars
<1>1. PICK isMetered \in BOOLEAN :
        /\ metered' = [metered EXCEPT ![s] = isMetered]
        /\ builder' = [builder EXCEPT ![s] = Net!Shown(underlyingNetwork[s], isMetered)]
  BY Zenon DEF Net!StartVpn
<1>2. Net!Shown(underlyingNetwork[s], isMetered) \in Known
  BY Zenon DEF Net!Shown, Known, NetInv, NetTyped
<1>3. /\ phase' \in [Service -> NetPhase] /\ active' \in [Service -> BOOLEAN]
      /\ metered' \in [Service -> BOOLEAN] /\ builder' \in [Service -> Known]
  BY Zenon, <1>0, <1>1, <1>2 DEF NetInv, NetTyped, NetPhase
<1>4. NetTyped' BY Zenon, <1>0, <1>3 DEF NetInv, NetTyped
<1>5. Actor' BY Zenon, <1>0 DEF NetInv, Actor
<1>6. Told' BY Zenon, <1>0 DEF NetInv, Told
<1>7. ASSUME NEW t \in Service
      PROVE  /\ phase'[t] \in {"building", "established"} => active'[t]
             /\ phase'[t] = "building" /\ t \notin raced'
                  => builder'[t] = Net!Shown(underlyingNetwork[t], metered[t])'
             /\ phase'[t] = "established" /\ t \notin raced'
                  => vpn'[t] = Net!Shown(underlyingNetwork[t], metered[t])'
  <2>1. CASE t = s
    <3>1. /\ phase'[t] = "building" /\ builder'[t] = Net!Shown(underlyingNetwork[s], isMetered)
          /\ metered'[t] = isMetered
      BY Zenon, <1>0, <1>1, <2>1 DEF NetInv, NetTyped
    <3>2. active'[t] BY Zenon, <1>0, <2>1 DEF NetInv, NetTyped
    <3>3. QED BY Zenon, <1>0, <2>1, <3>1, <3>2 DEF Net!Shown
  <2>2. CASE t # s
    <3>1. /\ phase'[t] = phase[t] /\ builder'[t] = builder[t]
          /\ metered'[t] = metered[t]
      BY Zenon, <1>0, <1>1, <2>2 DEF NetInv, NetTyped
    <3>2. active'[t] = active[t] BY Zenon, <1>0, <2>2 DEF NetInv, NetTyped
    <3>3. QED BY Zenon, <1>0, <3>1, <3>2 DEF NetInv, Underneath, Net!Shown
  <2>3. QED BY Zenon, <2>1, <2>2
<1>8. Underneath' BY Zenon, <1>7 DEF Underneath
<1>9. QED BY Zenon, <1>4, <1>5, <1>6, <1>8 DEF NetInv

(* A service establishes its VPN, or fails to.                              *)
LEMMA EstablishKeeps ==
  ASSUME NetInv, NEW s \in Service, Net!Establish(s)
  PROVE  NetInv'
<1>0. /\ phase[s] = "building"
      /\ \/ /\ phase' = [phase EXCEPT ![s] = "established"]
            /\ vpn' = [vpn EXCEPT ![s] = builder[s]]
         \/ phase' = [phase EXCEPT ![s] = "failed"] /\ vpn' = vpn
      /\ UNCHANGED <<api, default, mail, registered, fallback, listeners, network,
                     pendingRequests, underlyingNetwork, active, metered, builder, raced>>
  BY Zenon DEF Net!Establish, Net!actorVars
<1>1. phase' \in [Service -> NetPhase] /\ vpn' \in [Service -> Known]
  BY <1>0 DEF NetInv, NetTyped, NetPhase
<1>2. NetTyped' BY Zenon, <1>0, <1>1 DEF NetInv, NetTyped
<1>3. Actor' BY Zenon, <1>0 DEF NetInv, Actor
<1>4. Told' BY Zenon, <1>0 DEF NetInv, Told
<1>5. \A t \in Service : t # s => phase'[t] = phase[t] /\ vpn'[t] = vpn[t]
  BY Zenon, <1>0 DEF NetInv, NetTyped
<1>6. \/ phase'[s] = "established" /\ vpn'[s] = builder[s]
      \/ phase'[s] = "failed"
  BY Zenon, <1>0 DEF NetInv, NetTyped
<1>7. Underneath' BY <1>0, <1>5, <1>6 DEF NetInv, Underneath, Net!Shown
<1>8. QED BY Zenon, <1>2, <1>3, <1>4, <1>7 DEF NetInv

(* A service that stops: its listener stays, with the others.               *)
LEMMA StopKeeps ==
  ASSUME NetInv, NEW s \in Service, Net!StopService(s)
  PROVE  NetInv'
<1>0. /\ phase' = [phase EXCEPT ![s] = "idle"]
      /\ active' = [active EXCEPT ![s] = FALSE]
      /\ vpn' = [vpn EXCEPT ![s] = None]
      /\ raced' = raced \ {s}
      /\ UNCHANGED <<api, default, mail, fallback, pendingRequests, underlyingNetwork,
                     metered, builder>>
  BY Zenon DEF Net!StopService
<1>1. listeners' = listeners BY Zenon DEF Net!StopService, Net!Removed
<1>2. network' = network /\ registered' = registered
  BY Zenon, <1>1 DEF Net!StopService
<1>3. /\ phase' \in [Service -> NetPhase] /\ active' \in [Service -> BOOLEAN]
      /\ vpn' \in [Service -> Known]
  BY Zenon, <1>0 DEF NetInv, NetTyped, NetPhase, Known
<1>4. NetTyped' BY Zenon, <1>0, <1>1, <1>2, <1>3 DEF NetInv, NetTyped
<1>5. Actor' BY Zenon, <1>0, <1>1, <1>2 DEF NetInv, Actor
<1>6. Told' BY Zenon, <1>0, <1>1, <1>2 DEF NetInv, Told
<1>7. /\ phase'[s] = "idle"
      /\ \A t \in Service : t # s => phase'[t] = phase[t] /\ vpn'[t] = vpn[t]
      /\ \A t \in Service : t # s => (t \in raced' <=> t \in raced)
  BY Zenon, <1>0 DEF NetInv, NetTyped
<1>8. \A t \in Service : t # s => active'[t] = active[t]
  BY Zenon, <1>0 DEF NetInv, NetTyped
<1>9. Underneath' BY <1>0, <1>7, <1>8 DEF NetInv, Underneath, Net!Shown
<1>10. QED BY Zenon, <1>4, <1>5, <1>6, <1>9 DEF NetInv

(* Every step keeps the invariant of the network listener.                  *)
LEMMA NetStep == NetInv /\ [Net!Next]_netVars => NetInv'
<1> SUFFICES ASSUME NetInv, [Net!Next]_netVars PROVE NetInv'
  BY Zenon
<1>1. CASE UNCHANGED netVars
  BY Zenon, <1>1 DEF netVars, NetInv, NetTyped, Actor, Told, Underneath, Net!Shown
<1>2. CASE Net!System
  BY Zenon, <1>2, AvailableKeeps, LostKeeps DEF Net!System
<1>3. CASE Net!Deliver
  BY Zenon, <1>3, DeliverKeeps
<1>4. ASSUME NEW s \in Service, Net!ServiceStep(s)
      PROVE  NetInv'
  BY Zenon, <1>4, PreInitKeeps, GetKeeps, StartVpnKeeps, EstablishKeeps, StopKeeps
     DEF Net!ServiceStep
<1>5. QED BY Zenon, <1>1, <1>2, <1>3, <1>4 DEF Net!Next

(* Everyone has the network: with all callbacks delivered the actor has the *)
(* system's, a loss that is reported late does not erase its replacement;   *)
(* every listening service has the actor's at all times; no Get waits for   *)
(* one that is known; and the system has what the service was last told     *)
(* underneath the VPN, unless it was told between the builder and           *)
(* establish().                                                             *)
THEOREM NetworkIsKnown == MCSpec => []NetworkKnown
<1>1. MCInit => NetInv
  BY Zenon, NetInit DEF MCInit
<1>2. NetInv /\ [MCNext]_all => NetInv'
  <2>1. [MCNext]_all => [Net!Next]_netVars
    BY Zenon DEF MCNext, all
  <2>2. QED BY Zenon, <2>1, NetStep
<1>3. NetInv => NetworkKnown
  <2> SUFFICES ASSUME NetInv PROVE NetworkKnown
    BY Zenon
  <2>1. Net!TypeOK
    BY Zenon DEF NetInv, NetTyped, Net!TypeOK, Known, Messages, Net!Messages, NetPhase, Net!Phase
  <2>2. Net!Current BY ReachesNow DEF NetInv, Actor, Net!Current
  <2>3. Net!InSync BY Zenon DEF NetInv, NetTyped, Told, Net!InSync
  <2>4. Net!NoneWaitsForKnown BY Zenon DEF NetInv, Actor, Net!NoneWaitsForKnown
  <2>5. Net!VpnFollows BY Zenon DEF NetInv, Underneath, Net!VpnFollows
  <2>6. QED BY Zenon, <2>1, <2>2, <2>3, <2>4, <2>5 DEF NetworkKnown
<1>4. QED BY <1>1, <1>2, <1>3, PTL DEF MCSpec
=============================================================================
