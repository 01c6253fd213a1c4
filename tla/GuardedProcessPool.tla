------------------------- MODULE GuardedProcessPool -------------------------
(***************************************************************************)
(* A pool of guarded child processes: core/.../bg/GuardedProcessPool.kt,   *)
(* with the restart callback that VpnService.startVpn gives to tun2socks.  *)
(*                                                                         *)
(* Each guard is a coroutine (looper) on the main thread.  It learns the   *)
(* exit code of its process from a thread of its own, the waiter, through  *)
(* a rendezvous channel, and starts the process again.  close() cancels    *)
(* the coroutines; a cancelled guard kills its process and waits for the   *)
(* waiter once more.                                                       *)
(*                                                                         *)
(* Between the moment the waiter hands over the exit code and the moment   *)
(* the guard runs again on the main thread, the guard may be cancelled or  *)
(* its timed wait may expire.  The exit code is then lost: a suspending    *)
(* call that is cancelled before it is dispatched throws, whatever it was  *)
(* about to return.                                                        *)
(***************************************************************************)
EXTENDS Naturals

CONSTANTS Guard,        \* the processes of the pool
          HasCallback,  \* the guards that were given an onRestartCallback
          Sdks,         \* the versions Build.VERSION.SDK_INT may have
          MaxTries      \* how often sendFd tries again

ASSUME PoolAssumption == /\ HasCallback \subseteq Guard
                         /\ Sdks \subseteq Nat
                         /\ MaxTries \in Nat

VARIABLES
  sdk,        \* Build.VERSION.SDK_INT
  pc,         \* where the guard is suspended
  running,    \* its local variable
  proc,       \* its process
  signal,     \* the strongest signal that process was sent
  waiter,     \* the thread that waits for that process
  delivered,  \* an exit code was handed to the guard, which has not run yet
  tries,      \* of sendFd, in the restart callback
  closed,     \* the job of the pool is cancelled
  stopping,   \* somebody has asked the service to stop
  lost        \* history: guards whose exit code was lost on the way, or that
              \* were interrupted before their process had a waiter

guardVars == <<pc, running, proc, signal, waiter, delivered, tries, lost>>
vars == <<sdk, guardVars, closed, stopping>>

Phase    == {"idle", "receive", "callback", "term", "destroyed", "final", "done"}
CleanUp  == {"term", "destroyed", "final"}

-----------------------------------------------------------------------------
BugNoWaiter(g) ==
  /\ pc' = [pc EXCEPT ![g] = "receive"]
  /\ UNCHANGED waiter

(* The body of the loop down to exitChannel.receive(): a waiter thread for  *)
(* the process, then the wait.                                              *)
Watch(g) ==
  /\ pc' = [pc EXCEPT ![g] = "receive"]
  /\ waiter' = [waiter EXCEPT ![g] = "waiting"]

(* GuardedProcessPool.start.  If the process cannot be created the          *)
(* exception goes to the caller, which stops the service.                   *)
Start(g) ==
  /\ pc[g] = "idle"
  /\ ~closed
  /\ \/ /\ proc' = [proc EXCEPT ![g] = "alive"]
        /\ Watch(g)
        /\ UNCHANGED stopping
     \/ /\ stopping' = TRUE
        /\ UNCHANGED <<proc, pc, waiter>>
  /\ UNCHANGED <<running, signal, delivered, tries, sdk, closed, lost>>

(* The process ends, by itself or because of a signal.                      *)
ProcessExits(g) ==
  /\ proc[g] = "alive"
  /\ proc' = [proc EXCEPT ![g] = "exited"]
  /\ UNCHANGED <<pc, running, signal, waiter, delivered, tries, sdk, closed,
                 stopping, lost>>

(* process.waitFor() returns and the waiter gets to exitChannel.send.       *)
WaitReturns(g) ==
  /\ waiter[g] = "waiting"
  /\ proc[g] = "exited"
  /\ waiter' = [waiter EXCEPT ![g] = "sending"]
  /\ UNCHANGED <<pc, running, proc, signal, delivered, tries, sdk, closed,
                 stopping, lost>>

(* The rendezvous.  A receive that is already cancelled takes nothing.      *)
HandOver(g) ==
  /\ waiter[g] = "sending"
  /\ ~delivered[g]
  /\ (pc[g] = "receive" /\ ~closed) \/ pc[g] \in CleanUp
  /\ delivered' = [delivered EXCEPT ![g] = TRUE]
  /\ waiter' = [waiter EXCEPT ![g] = "none"]
  /\ UNCHANGED <<pc, running, proc, signal, tries, sdk, closed, stopping, lost>>

-----------------------------------------------------------------------------
(* The finally block up to its first suspension point.  Below API 26 the    *)
(* code takes Process.destroy() to end the process.                         *)
EnterFinally(g, still) ==
  \/ /\ ~still
     /\ pc' = [pc EXCEPT ![g] = "done"]
     /\ UNCHANGED signal
  \/ /\ still /\ sdk < 24
     /\ signal' = [signal EXCEPT ![g] = "term"]
     /\ pc' = [pc EXCEPT ![g] = "term"]
  \/ /\ still /\ sdk \in {24, 25}
     /\ signal' = [signal EXCEPT ![g] = "kill"]
     /\ pc' = [pc EXCEPT ![g] = "final"]
  \/ /\ still /\ sdk >= 26
     /\ signal' = [signal EXCEPT ![g] = "term"]
     /\ pc' = [pc EXCEPT ![g] = "destroyed"]

(* exitChannel.receive() returns to a guard that was not cancelled.         *)
ExitReceived(g) == pc[g] = "receive" /\ delivered[g] /\ ~closed

(* The value of running when start() throws.                                *)
BugStillRunning(g) == running[g]
RunningAfterExit(g) == FALSE

(* onFatal is posted, and there is nothing to kill.                         *)
RestartFails(g) ==
  /\ ExitReceived(g)
  /\ delivered' = [delivered EXCEPT ![g] = FALSE]
  /\ running' = [running EXCEPT ![g] = RunningAfterExit(g)]
  /\ EnterFinally(g, RunningAfterExit(g))
  /\ stopping' = TRUE
  /\ UNCHANGED <<proc, waiter, tries, sdk, closed, lost>>

(* start() returns; the loop goes round, by way of the restart callback if  *)
(* there is one.  The callback suspends in delay.                           *)
Restart(g) ==
  /\ ExitReceived(g)
  /\ delivered' = [delivered EXCEPT ![g] = FALSE]
  /\ proc' = [proc EXCEPT ![g] = "alive"]
  /\ running' = [running EXCEPT ![g] = TRUE]
  /\ \/ /\ g \in HasCallback
        /\ pc' = [pc EXCEPT ![g] = "callback"]
        /\ UNCHANGED waiter
     \/ g \notin HasCallback /\ Watch(g)
  /\ tries' = [tries EXCEPT ![g] = 0]
  /\ UNCHANGED <<signal, sdk, closed, stopping, lost>>

(* sendFd in the callback: sent, or an ErrnoException, which stops the      *)
(* service and is then forgotten.                                           *)
CallbackReturns(g) ==
  /\ pc[g] = "callback"
  /\ ~closed
  /\ stopping' \in {stopping, TRUE}
  /\ Watch(g)
  /\ UNCHANGED <<running, proc, signal, delivered, tries, sdk, closed, lost>>

MayTryAgain(g) == tries[g] <= MaxTries

(* An IOException in sendFd: one more try, or the exception leaves the      *)
(* callback, and the loop, before there is a waiter for the new process.    *)
CallbackRetries(g) ==
  /\ pc[g] = "callback"
  /\ ~closed
  /\ MayTryAgain(g)
  /\ tries' = [tries EXCEPT ![g] = @ + 1]
  /\ UNCHANGED <<pc, running, proc, signal, waiter, delivered, sdk, closed,
                 stopping, lost>>

CallbackThrows(g) ==
  /\ pc[g] = "callback"
  /\ ~closed
  /\ ~MayTryAgain(g)
  /\ EnterFinally(g, running[g])
  /\ lost' = lost \cup {g}
  /\ stopping' = TRUE
  /\ UNCHANGED <<running, proc, waiter, delivered, tries, sdk, closed>>

-----------------------------------------------------------------------------
(* close(): cancel, then a child of the caller's scope joins the job.       *)
Close ==
  /\ ~closed
  /\ closed' = TRUE
  /\ UNCHANGED <<sdk, guardVars, stopping>>

(* A cancelled guard runs: the receive or the callback throws.  An exit     *)
(* code that was on its way is lost.                                        *)
Cancelled(g) ==
  /\ closed
  /\ pc[g] \in {"receive", "callback"}
  /\ EnterFinally(g, running[g])
  /\ lost' = IF delivered[g] \/ pc[g] = "callback" THEN lost \cup {g} ELSE lost
  /\ delivered' = [delivered EXCEPT ![g] = FALSE]
  /\ UNCHANGED <<running, proc, waiter, tries, sdk, closed, stopping>>

(* An exit code ends the clean-up.                                          *)
Reaped(g) ==
  /\ pc[g] \in CleanUp
  /\ delivered[g]
  /\ delivered' = [delivered EXCEPT ![g] = FALSE]
  /\ pc' = [pc EXCEPT ![g] = "done"]
  /\ UNCHANGED <<running, proc, signal, waiter, tries, sdk, closed, stopping,
                 lost>>

(* The timed wait after SIGTERM expires: destroy() below API 24,            *)
(* destroyForcibly() from API 26 on.  Then the wait without a limit.        *)
BugGiveUp(g) == pc' = [pc EXCEPT ![g] = "done"]
WaitAgain(g) == pc' = [pc EXCEPT ![g] = "final"]

BugNotForced(g) == UNCHANGED signal
DestroyForcibly(g) == signal' = [signal EXCEPT ![g] = "kill"]

Timeout(g) ==
  /\ pc[g] \in {"term", "destroyed"}
  /\ WaitAgain(g)
  /\ DestroyForcibly(g)
  /\ delivered' = [delivered EXCEPT ![g] = FALSE]
  /\ lost' = IF delivered[g] THEN lost \cup {g} ELSE lost
  /\ UNCHANGED <<running, proc, waiter, tries, sdk, closed, stopping>>

-----------------------------------------------------------------------------
Init ==
  /\ sdk \in Sdks
  /\ pc = [g \in Guard |-> "idle"]
  /\ running = [g \in Guard |-> TRUE]
  /\ proc = [g \in Guard |-> "none"]
  /\ signal = [g \in Guard |-> "none"]
  /\ waiter = [g \in Guard |-> "none"]
  /\ delivered = [g \in Guard |-> FALSE]
  /\ tries = [g \in Guard |-> 0]
  /\ closed = FALSE
  /\ stopping = FALSE
  /\ lost = {}

(* What the main looper runs once it is posted.                             *)
Dispatched(g) ==
  \/ RestartFails(g) \/ Restart(g)
  \/ CallbackReturns(g) \/ CallbackRetries(g) \/ CallbackThrows(g)
  \/ Cancelled(g) \/ Reaped(g) \/ Timeout(g)

Next == \/ Close
        \/ \E g \in Guard : \/ Start(g)
                            \/ ProcessExits(g)
                            \/ WaitReturns(g)
                            \/ HandOver(g)
                            \/ Dispatched(g)

Spec == Init /\ [][Next]_vars

(* The main looper and the waiter threads make progress, a process that was *)
(* sent SIGKILL ends, and a service that was asked to stop closes its pool. *)
FairSpec ==
  /\ Spec
  /\ WF_vars(stopping /\ Close)
  /\ \A g \in Guard : /\ WF_vars(signal[g] = "kill" /\ ProcessExits(g))
                      /\ WF_vars(WaitReturns(g) \/ HandOver(g))
                      /\ WF_vars(Dispatched(g))

-----------------------------------------------------------------------------
TypeOK ==
  /\ sdk \in Sdks
  /\ pc \in [Guard -> Phase]
  /\ running \in [Guard -> BOOLEAN]
  /\ proc \in [Guard -> {"none", "alive", "exited"}]
  /\ signal \in [Guard -> {"none", "term", "kill"}]
  /\ waiter \in [Guard -> {"none", "waiting", "sending"}]
  /\ delivered \in [Guard -> BOOLEAN]
  /\ tries \in [Guard -> 0..(MaxTries + 1)]
  /\ closed \in BOOLEAN
  /\ stopping \in BOOLEAN
  /\ lost \in SUBSET Guard

(* No process outlives its guard, so once the join in close() returns no    *)
(* child process is left, however it was interrupted.                       *)
NoOrphan == \A g \in Guard : pc[g] = "done" => proc[g] # "alive"

(* An exit code on its way to the guard is that of the process the guard    *)
(* refers to: start() never replaces a process that is still alive.         *)
ExitIsCurrent ==
  \A g \in Guard : waiter[g] = "sending" \/ delivered[g] => proc[g] = "exited"

(* "this thread also acts as a daemon thread for waitFor": whenever the     *)
(* clean-up waits for an exit code, there is a thread that will send it.    *)
CleanUpAnswered ==
  \A g \in Guard : pc[g] \in CleanUp => waiter[g] # "none" \/ delivered[g]

(* It is so for every guard that was not cancelled or timed out with an     *)
(* exit code on its way, and not interrupted in its restart callback.       *)
CleanUpAnsweredUnlessLost ==
  \A g \in Guard \ lost :
    pc[g] \in CleanUp => waiter[g] # "none" \/ delivered[g]

(* Once the pool is to be closed every guard ends, so that the join in      *)
(* close() returns, with the same exception.                                *)
PoolJoins ==
  \A g \in Guard : stopping ~> pc[g] \in {"idle", "done"} \/ g \in lost

(* A process that dies is started again, unless the pool is closing down.   *)
Restarted ==
  \A g \in Guard : proc[g] = "exited" ~> proc[g] = "alive" \/ closed \/ stopping

-----------------------------------------------------------------------------
(* The inductive invariant: in addition, who is waiting for whom.           *)
Watched ==
  \A g \in Guard :
    /\ delivered[g] => waiter[g] = "none"
    /\ pc[g] = "idle" => ~delivered[g]
    /\ pc[g] = "callback" => waiter[g] = "none" /\ ~delivered[g]
    /\ pc[g] = "receive" => waiter[g] # "none" \/ delivered[g]
    /\ pc[g] \in {"idle", "receive", "callback"} => running[g]

IInv ==
  TypeOK /\ Watched /\ NoOrphan /\ ExitIsCurrent /\ CleanUpAnsweredUnlessLost
=============================================================================
