--------------------------- MODULE TrafficMonitor ---------------------------
(***************************************************************************)
(* The traffic of one session: bg/TrafficMonitor.kt, with the loop of the  *)
(* Binder that asks it for updates (bg/BaseService.kt) and its end in      *)
(* bg/ProxyInstance.kt.                                                    *)
(*                                                                         *)
(* sslocal reports how much it has transferred since it was started.  The  *)
(* thread of the socket stores the two numbers in current and sets dirty,  *)
(* while the main thread copies current and clears dirty; nothing orders   *)
(* the two, so every read and write of these fields is a step of its own.  *)
(***************************************************************************)
EXTENDS Integers, Sequences

CONSTANTS MaxBytes,      \* bound: bytes transferred
          MaxRestarts    \* bound: how often sslocal is restarted

Dir == {"tx", "rx"}
Zero == [d \in Dir |-> 0]
Plus(a, b) == [d \in Dir |-> a[d] + b[d]]

VARIABLES
  session,   \* bytes transferred in this session
  before,    \* those before the last start of sslocal
  restarts,
  wire,      \* reports sent and not read
  msg,       \* the report being stored
  sock,      \* where the thread of the socket is
  current, dirty,
  main,      \* where the main thread is
  out, rate, \* totals and rates of the field out
  told,      \* what the listeners were told last
  alive,     \* the monitor has not been shut down
  row,       \* the profile in the database: settings and totals
  fetched,   \* the copy that persistStats works on
  persisted, \* what each call of persistStats added
  seen,      \* history: bytes of the session that reports accounted for
  remarked,  \* history: dirty was set while requestUpdate was under way
  missed,    \* history: ... and cleared by it before it had all been copied
  late,      \* history: a report was not stored, or no profile found, by then
  overtaken, \* history: the settings changed between fetch and update
  reset      \* history: they changed after totals had been persisted

sockVars == <<wire, msg, sock, current, seen>>
outVars  == <<out, rate, told, remarked, missed>>
endVars  == <<alive, row, fetched, persisted, late, overtaken, reset>>
genVars  == <<session, before, restarts>>
vars == <<genVars, sockVars, dirty, main, outVars, endVars>>

Init ==
  /\ session = Zero /\ before = Zero /\ restarts = 0
  /\ wire = <<>> /\ msg = Zero /\ sock = "accept" /\ current = Zero
  /\ dirty = FALSE /\ main = "idle"
  /\ out = Zero /\ rate = Zero /\ told = <<Zero, Zero>>
  /\ alive = TRUE /\ row = [edit |-> 0, sum |-> Zero] /\ fetched = row
  /\ persisted = <<>>
  /\ seen = Zero /\ remarked = FALSE /\ missed = FALSE
  /\ late = FALSE /\ overtaken = FALSE /\ reset = FALSE

-----------------------------------------------------------------------------
(* sslocal transfers, reports (one connection at a time), and is restarted  *)
(* by its guard with its counters at zero.                                  *)
Transfer(d) ==
  /\ alive /\ session["tx"] + session["rx"] < MaxBytes
  /\ session' = [session EXCEPT ![d] = session[d] + 1]
  /\ UNCHANGED <<before, restarts, sockVars, dirty, main, outVars, endVars>>

Report ==
  /\ alive /\ wire = <<>>
  /\ wire' = <<[sum |-> [d \in Dir |-> session[d] - before[d]],
                all |-> session]>>
  /\ UNCHANGED <<genVars, msg, sock, current, seen, dirty, main, outVars, endVars>>

Restart ==
  /\ alive /\ restarts < MaxRestarts
  /\ restarts' = restarts + 1
  /\ before' = session
  /\ UNCHANGED <<session, sockVars, dirty, main, outVars, endVars>>

-----------------------------------------------------------------------------
(* acceptInternal: tx is stored and dirty set if it has changed, then rx.   *)
(* A connection without 16 bytes is dropped.                                *)
Receive ==
  /\ sock = "accept" /\ alive /\ wire # <<>>
  /\ wire' = <<>>
  /\ \/ /\ msg' = Head(wire).sum
        /\ seen' = Head(wire).all
        /\ sock' = "tx"
     \/ UNCHANGED <<msg, seen, sock>>
  /\ UNCHANGED <<genVars, current, dirty, main, outVars, endVars>>

After(d) == IF d = "tx" THEN "rx" ELSE "accept"
Marking(d) == IF d = "tx" THEN "markTx" ELSE "markRx"

Store(d) ==
  /\ sock = d
  /\ IF current[d] # msg[d]
     THEN /\ current' = [current EXCEPT ![d] = msg[d]]
          /\ sock' = Marking(d)
     ELSE /\ sock' = After(d)
          /\ UNCHANGED current
  /\ UNCHANGED <<genVars, wire, msg, seen, dirty, main, outVars, endVars>>

BugMarksTxOnly(d) == dirty' = (dirty \/ d = "tx")
SetDirty(d) == dirty' = TRUE

Mark(d) ==
  /\ sock = Marking(d)
  /\ SetDirty(d)
  /\ sock' = After(d)
  /\ remarked' = (remarked \/ main # "idle")
  /\ UNCHANGED <<genVars, wire, msg, current, seen, main, out, rate, told, missed,
                 endVars>>

ThreadEnds ==
  /\ sock = "accept" /\ ~alive
  /\ sock' = "ended"
  /\ UNCHANGED <<genVars, wire, msg, current, seen, dirty, main, outVars, endVars>>

-----------------------------------------------------------------------------
(* requestUpdate, at a time other than that of the call before it, and the  *)
(* broadcast of the loop if it says that out has changed.  The interval is  *)
(* the unit of the rates.  Only this thread reads out, so its two totals    *)
(* may be copied one by one.                                                *)
RatesChange == rate # Zero

Request ==
  /\ main = "idle" /\ alive
  /\ \/ /\ dirty
        /\ main' = "copyTx"
        /\ remarked' = FALSE
        /\ UNCHANGED <<rate, told>>
     \/ /\ ~dirty
        /\ rate' = Zero
        /\ told' = IF RatesChange THEN <<out, Zero>> ELSE told
        /\ UNCHANGED <<main, remarked>>
  /\ UNCHANGED <<genVars, sockVars, dirty, out, missed, endVars>>

Growth(d) == current[d] - out[d]

Copying(d) == IF d = "tx" THEN "copyTx" ELSE "copyRx"

Copy(d) ==
  /\ main = Copying(d)
  /\ rate' = [rate EXCEPT ![d] = Growth(d)]
  /\ out' = [out EXCEPT ![d] = current[d]]
  /\ main' = IF d = "tx" THEN "copyRx" ELSE "clear"
  /\ UNCHANGED <<genVars, sockVars, dirty, told, remarked, missed, endVars>>

Clear ==
  /\ main = "clear"
  /\ dirty' = FALSE
  /\ missed' = (remarked /\ current # out)
  /\ told' = <<out, rate>>
  /\ main' = "idle"
  /\ UNCHANGED <<genVars, sockVars, out, rate, remarked, endVars>>

-----------------------------------------------------------------------------
(* persistStats on the broadcast ACTION_SHUTDOWN, and in the shutdown of    *)
(* the proxy, which has told the thread to end and does not wait for it.    *)
(* The check compares the object current with itself.  A profile that is    *)
(* gone gets nothing.  What the database throws is not caught and ends the  *)
(* process: then none of these steps is taken any more.                     *)
BugOldProfile == fetched
Fetched == row

PersistStats(stop) ==
  /\ main = "idle" /\ alive
  /\ stop \/ persisted = <<>>
  /\ alive' = ~stop
  /\ \/ fetched' = Fetched /\ main' = "fetched" /\ UNCHANGED late
     \/ late' = TRUE /\ UNCHANGED <<fetched, main>>
  /\ UNCHANGED <<genVars, sockVars, dirty, outVars, row, persisted, overtaken, reset>>

BugPersistsOut == out
Amount == current

Update ==
  /\ main = "fetched"
  /\ row' = [fetched EXCEPT !.sum = Plus(fetched.sum, Amount)]
  /\ persisted' = Append(persisted, Amount)
  /\ late' = (sock \notin {"accept", "ended"})
  /\ main' = "idle"
  /\ UNCHANGED <<genVars, sockVars, dirty, outVars, alive, fetched, overtaken,
                 reset>>

(* writeToDatabase, in the process of the app: new settings, and totals of  *)
(* zero with them.                                                          *)
WriteToDatabase ==
  /\ row.edit = 0
  /\ row' = [edit |-> 1, sum |-> Zero]
  /\ overtaken' = (main = "fetched")
  /\ reset' = (persisted # <<>>)
  /\ UNCHANGED <<genVars, sockVars, dirty, main, outVars, alive, fetched,
                 persisted, late>>

Over == sock = "ended" /\ main = "idle" /\ UNCHANGED vars

Next ==
  \/ \E d \in Dir : Transfer(d) \/ Store(d) \/ Mark(d) \/ Copy(d)
  \/ Report \/ Restart \/ Receive \/ ThreadEnds
  \/ Request \/ Clear \/ Update \/ WriteToDatabase \/ Over
  \/ \E stop \in BOOLEAN : PersistStats(stop)

Spec == Init /\ [][Next]_vars

-----------------------------------------------------------------------------
Count == 0..MaxBytes
Change == (-MaxBytes)..MaxBytes

(* Every variable keeps its kind; in particular no rate leaves the range of *)
(* a difference of two totals.                                              *)
TypeOK ==
  /\ {session, before, msg, current, out, seen} \subseteq [Dir -> Count]
  /\ restarts \in 0..MaxRestarts
  /\ wire = <<>> \/ wire \in Seq([sum : [Dir -> Count], all : [Dir -> Count]])
  /\ sock \in Dir \cup {"accept", "markTx", "markRx", "ended"}
  /\ main \in {"idle", "copyTx", "copyRx", "clear", "fetched"}
  /\ rate \in [Dir -> Change] /\ told \in [Dir -> Count] \X [Dir -> Change]
  /\ {row, fetched} \subseteq [edit : {0, 1}, sum : [Dir -> 0..(2 * MaxBytes)]]
  /\ Len(persisted) <= 2
  /\ {dirty, alive, remarked, missed, late, overtaken, reset} \subseteq BOOLEAN

(* When the flag is down and neither thread is at work, what requestUpdate  *)
(* last handed out is what the socket delivered, with one exception: the    *)
(* flag was set between the test of requestUpdate and its dirty = false.    *)
OutIsCurrent ==
  main = "idle" /\ sock \in {"accept", "ended"} /\ ~dirty /\ ~missed
    => out = current

(* The listeners were told the totals and the rates that out holds: no      *)
(* change of out is reported as "not updated".                              *)
ListenersTold == main = "idle" => told = <<out, rate>>

(* Until sslocal is restarted no rate is negative and the totals handed out *)
(* never exceed what has been transferred, even from a torn copy.           *)
RatesPlausible ==
  restarts = 0 => \A d \in Dir : rate[d] >= 0 /\ out[d] <= session[d]

(* At the end the profile has grown by what the reports accounted for,      *)
(* unless the totals were persisted twice, sslocal was restarted, a report  *)
(* was still being stored, the profile was not found, or the app rewrote it *)
(* meanwhile.                                                               *)
CountedOnce ==
  ~alive /\ main = "idle" /\ Len(persisted) = 1 /\ restarts = 0
    /\ ~late /\ ~overtaken /\ ~reset
  => row.sum = seen

(* Settings written by the app survive persistStats, unless they were       *)
(* written between its fetch and its update: "a re-fetch is necessary".     *)
EditSurvives ==
  [][row.edit = 1 /\ ~overtaken => row'.edit = 1]_vars

(* "Data loss occurred": totals are persisted again only if they are those  *)
(* that were persisted before.                                              *)
NoDataLoss ==
  \A i, j \in DOMAIN persisted : persisted[i] = persisted[j]
=============================================================================
