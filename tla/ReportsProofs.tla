---------------------------- MODULE ReportsProofs ----------------------------
(***************************************************************************)
(* What the service reports is right, for every number of deaths of its    *)
(* process, every number of calls on the way, every amount of traffic and  *)
(* every number of restarts of sslocal.                                    *)
(*                                                                         *)
(* The first part is about the state the app is told, the second about the *)
(* traffic.                                                                *)
(***************************************************************************)
EXTENDS MCReports, TLAPS

Connected == "onServiceConnected"
Disconnected == "onServiceDisconnected"
Call == SvcState \cup {Connected, Disconnected, "onBinderDied"}

(* The state the service will have assigned when it has done what it began. *)
Coming == IF announced # None THEN announced ELSE svcState

(* The call at i is the state the main thread ends up with: no state and no *)
(* new connection is posted behind it.                                      *)
Fresh(q, i) ==
  /\ i \in DOMAIN q /\ q[i] \in SvcState
  /\ \A j \in DOMAIN q : j > i => q[j] # Connected

Latest(q, i) ==
  Fresh(q, i) /\ \A j \in DOMAIN q : j > i => q[j] \notin SvcState

Once(q, m) == \A i, j \in DOMAIN q : q[i] = m /\ q[j] = m => i = j
Has(q, m) == \E i \in DOMAIN q : q[i] = m

(* TypeOK, kind by kind.                                                    *)
Typed ==
  /\ svcState \in SvcState /\ mSsState \in SvcState
  /\ announced \in SvcState \cup {None} /\ queued \in SvcState \cup {None}
  /\ wire \in Seq(0..4) /\ stale \in 0..Len(wire) /\ main \in Seq(Call)
  /\ bind \in {"unbound", "binding", "posted", "bound"} /\ deaths \in 0..MaxDeaths
  /\ starting \in BOOLEAN /\ alive \in BOOLEAN /\ callbacks \in BOOLEAN
  /\ sysDeath \in BOOLEAN /\ died \in BOOLEAN /\ connectionActive \in BOOLEAN
  /\ callbackRegistered \in BOOLEAN /\ callback \in BOOLEAN /\ service \in BOOLEAN
  /\ inConnected \in BOOLEAN /\ attached \in BOOLEAN /\ told \in BOOLEAN
  /\ inWindow \in BOOLEAN /\ missed \in BOOLEAN /\ crashed \in BOOLEAN

(* The system and the connection: what is posted says what the system is    *)
(* doing, the end of a connection is posted before the next one begins, and *)
(* a registration that is left from a dead process has its end to come.     *)
Binding ==
  /\ connectionActive <=> callback
  /\ bind = "unbound" <=> ~callback
  /\ sysDeath => bind = "binding"
  /\ Has(main, Connected) <=> bind = "posted"
  /\ Once(main, Connected) /\ Once(main, Disconnected)
  /\ Has(main, Disconnected) => bind \in {"binding", "posted"} /\ ~sysDeath
  /\ \A i, j \in DOMAIN main : main[i] = Disconnected /\ main[j] = Connected => i < j
  /\ callbackRegistered => bind = "bound" \/ sysDeath \/ Has(main, Disconnected)

(* The service and what it sends: a call that was not sent under an earlier *)
(* registration has, if it is the last, the state that is coming.           *)
Sending ==
  /\ inWindow => announced # None
  /\ queued # None => svcState = queued /\ announced = None
  /\ bind = "bound" => callbacks
  /\ ~callbacks => stale = Len(wire)
  /\ callbacks /\ queued = None /\ stale < Len(wire)
       => decode(wire[Len(wire)]) = Coming

(* What the main thread will end up with, once the wire is empty: a posted  *)
(* state or, if none is posted, the one it has.                             *)
Arriving ==
  /\ bind = "posted" /\ wire = <<>> /\ ~missed /\ (\E i \in DOMAIN main : Latest(main, i))
       => callbacks
  /\ bind \in {"posted", "bound"}
       => \A i \in DOMAIN main : Fresh(main, i) => \E k \in DOMAIN main : Latest(main, k)
  /\ bind \in {"posted", "bound"} /\ callbacks /\ wire = <<>> /\ queued = None /\ ~missed
       => \A i \in DOMAIN main : Latest(main, i) => main[i] = Coming
  /\ bind = "bound" /\ ~inConnected /\ wire = <<>> /\ queued = None /\ ~missed
       /\ (\A i \in DOMAIN main : ~Latest(main, i))
       => mSsState = Coming
  /\ bind = "bound" /\ inConnected /\ announced # None /\ ~inWindow
       => stale < Len(wire) \/ \E i \in DOMAIN main : Latest(main, i)

ConnInv == Typed /\ Binding /\ Sending /\ Arriving

(* The action A keeps it.                                                   *)
ConnKept(A) == ConnInv /\ A => ConnInv'
-----------------------------------------------------------------------------
(* Facts about states, ordinals and queues.                                 *)

(* The states of the service by name; decode undoes ordinal.                *)
LEMMA StateNames ==
  SvcState = {"Idle", "Connecting", "Connected", "Stopping", "Stopped"}
<1>1. /\ values[1] = "Idle" /\ values[2] = "Connecting" /\ values[3] = "Connected"
      /\ values[4] = "Stopping" /\ values[5] = "Stopped"
  BY Zenon DEF values
<1>2. 1..5 = {1, 2, 3, 4, 5}
  OBVIOUS
<1>3. QED BY <1>1, <1>2 DEF SvcState

(* A state comes back from its ordinal.                                     *)
LEMMA OrdinalDecoded ==
  ASSUME NEW s \in SvcState
  PROVE  ordinal(s) \in 0..4 /\ decode(ordinal(s)) = s
<1>1. PICK i \in 1..5 : values[i] = s
  BY Zenon DEF SvcState
<1>2. i - 1 \in 0..4 /\ values[(i - 1) + 1] = s
  BY <1>1
<1>3. ordinal(s) \in 0..4 /\ values[ordinal(s) + 1] = s
  BY Zenon, <1>2 DEF ordinal
<1>4. QED BY Zenon, <1>3 DEF decode

(* Every ordinal is that of a state.                                        *)
LEMMA DecodedState ==
  ASSUME NEW i \in 0..4
  PROVE  decode(i) \in SvcState
<1>1. i + 1 \in 1..5
  OBVIOUS
<1>2. QED BY Zenon, <1>1 DEF decode, SvcState

(* The calls of the system are no states.                                   *)
LEMMA CallsDiffer ==
  /\ Connected \notin SvcState /\ Disconnected \notin SvcState
  /\ "onBinderDied" \notin SvcState /\ Connected # Disconnected
  /\ "onBinderDied" \notin {Connected, Disconnected} /\ None \notin SvcState
  BY Zenon, StateNames DEF Connected, Disconnected, None

(* A state behind all others is the latest one.                             *)
LEMMA StatePosted ==
  ASSUME NEW q \in Seq(Call), NEW m \in SvcState
  PROVE  \A i : Latest(Append(q, m), i) <=> i = Len(q) + 1
<1> DEFINE r == Append(q, m)
<1>1. DOMAIN r = 1..(Len(q) + 1) /\ r[Len(q) + 1] = m
  OBVIOUS
<1>2. m # Connected BY Zenon, CallsDiffer
<1>3. ASSUME NEW i, Latest(r, i) PROVE i = Len(q) + 1
  BY <1>1, <1>3 DEF Latest, Fresh
<1>4. Latest(r, Len(q) + 1)
  BY <1>1 DEF Latest, Fresh
<1>5. QED BY Zenon, <1>3, <1>4

(* A call that is neither a state nor a new connection changes nothing.     *)
LEMMA OtherPosted ==
  ASSUME NEW q \in Seq(Call), NEW m, m \notin SvcState, m # Connected
  PROVE  \A i : /\ Latest(Append(q, m), i) <=> Latest(q, i)
                /\ Fresh(Append(q, m), i) <=> Fresh(q, i)
<1>1. /\ DOMAIN Append(q, m) = 1..(Len(q) + 1) /\ DOMAIN q = 1..Len(q)
      /\ Append(q, m)[Len(q) + 1] = m
      /\ \A i \in 1..Len(q) : Append(q, m)[i] = q[i]
  OBVIOUS
<1>2. \A i : Fresh(Append(q, m), i) <=> Fresh(q, i)
  BY <1>1 DEF Fresh
<1>3. QED BY <1>1, <1>2 DEF Latest

(* Nothing before a new connection counts.                                  *)
LEMMA ConnectionPosted ==
  ASSUME NEW q \in Seq(Call)
  PROVE  \A i : ~Fresh(Append(q, Connected), i)
<1>1. /\ DOMAIN Append(q, Connected) = 1..(Len(q) + 1)
      /\ Append(q, Connected)[Len(q) + 1] = Connected
  OBVIOUS
<1>2. QED BY <1>1, CallsDiffer DEF Fresh

(* Taking the first call shifts the others.                                 *)
LEMMA CallTaken ==
  ASSUME NEW q \in Seq(Call), q # <<>>
  PROVE  /\ DOMAIN Tail(q) = 1..(Len(q) - 1)
         /\ \A i \in 1..(Len(q) - 1) :
              /\ Tail(q)[i] = q[i + 1]
              /\ Latest(Tail(q), i) <=> Latest(q, i + 1)
              /\ Fresh(Tail(q), i) <=> Fresh(q, i + 1)
<1>1. /\ DOMAIN Tail(q) = 1..(Len(q) - 1) /\ DOMAIN q = 1..Len(q)
      /\ \A i \in 1..(Len(q) - 1) : Tail(q)[i] = q[i + 1]
      /\ Len(q) \in Nat \ {0}
  OBVIOUS
<1>2. ASSUME NEW i \in 1..(Len(q) - 1) PROVE Fresh(Tail(q), i) <=> Fresh(q, i + 1)
  <2>1. ASSUME Fresh(Tail(q), i), NEW j \in DOMAIN q, j > i + 1 PROVE q[j] # Connected
    <3>1. j - 1 \in 1..(Len(q) - 1) /\ q[(j - 1) + 1] = q[j] BY <1>1, <2>1
    <3>2. QED BY <3>1, <1>1, <2>1 DEF Fresh
  <2>2. QED BY <1>1, <2>1 DEF Fresh
<1>3. ASSUME NEW i \in 1..(Len(q) - 1) PROVE Latest(Tail(q), i) <=> Latest(q, i + 1)
  <2>1. ASSUME Latest(Tail(q), i), NEW j \in DOMAIN q, j > i + 1 PROVE q[j] \notin SvcState
    <3>1. j - 1 \in 1..(Len(q) - 1) /\ q[(j - 1) + 1] = q[j] BY <1>1, <2>1
    <3>2. QED BY <3>1, <1>1, <2>1 DEF Latest
  <2>2. QED BY <1>1, <1>2, <2>1 DEF Latest
<1>4. QED BY Zenon, <1>1, <1>2, <1>3

(* Dropping the only call m leaves the others in their order.               *)
LEMMA CallDropped ==
  ASSUME NEW q \in Seq(Call), NEW m, Once(q, m)
  PROVE  /\ Without(m, q) \in Seq(Call)
         /\ ~Has(Without(m, q), m)
         /\ \A n : n # m => (Has(Without(m, q), n) <=> Has(q, n))
         /\ \A n : Once(q, n) => Once(Without(m, q), n)
<1>1. CASE ~Has(q, m)
  BY Zenon, <1>1 DEF Has, Without
<1>2. CASE Has(q, m)
  <2> DEFINE k == CHOOSE i \in DOMAIN q : q[i] = m
             a == SubSeq(q, 1, k - 1)
             b == SubSeq(q, k + 1, Len(q))
             w == a \o b
  <2>1. k \in 1..Len(q) /\ q[k] = m
    BY <1>2 DEF Has
  <2>2. Without(m, q) = w
    BY Zenon, <1>2 DEF Has, Without
  <2> HIDE DEF k
  <2>3. /\ w \in Seq(Call) /\ DOMAIN w = 1..(Len(q) - 1)
        /\ \A i \in 1..(Len(q) - 1) : w[i] = IF i < k THEN q[i] ELSE q[i + 1]
    <3>1. /\ a \in Seq(Call) /\ Len(a) = k - 1
          /\ \A i \in 1..(k - 1) : a[i] = q[i]
      BY <2>1
    <3>2. /\ b \in Seq(Call) /\ Len(b) = Len(q) - k
          /\ \A i \in 1..(Len(q) - k) : b[i] = q[i + k]
      BY <2>1
    <3> HIDE DEF a, b
    <3>3. /\ w \in Seq(Call) /\ Len(w) = Len(q) - 1
          /\ \A i \in 1..(Len(q) - 1) :
               w[i] = IF i <= k - 1 THEN a[i] ELSE b[i - (k - 1)]
      BY <3>1, <3>2, <2>1
    <3> HIDE DEF w
    <3>4. ASSUME NEW i \in 1..(Len(q) - 1), i >= k PROVE w[i] = q[i + 1]
      <4>1. i - (k - 1) \in 1..(Len(q) - k) /\ (i - (k - 1)) + k = i + 1
        BY <2>1, <3>4
      <4>2. QED BY <4>1, <3>2, <3>3, <3>4, <2>1
    <3>5. QED BY <3>1, <3>3, <3>4, <2>1
  <2> HIDE DEF w
  <2>4. ASSUME NEW i \in DOMAIN w
        PROVE  \E j \in DOMAIN q : /\ w[i] = q[j] /\ j # k
                                   /\ j = IF i < k THEN i ELSE i + 1
    BY <2>1, <2>3
  <2>5. ~Has(w, m) /\ \A n : Has(w, n) => Has(q, n)
    BY <2>1, <2>4 DEF Has, Once
  <2>6. ASSUME NEW n, n # m, Has(q, n) PROVE Has(w, n)
    <3>1. PICK j \in DOMAIN q : q[j] = n BY Zenon, <2>6 DEF Has
    <3>2. j # k BY Zenon, <3>1, <2>1, <2>6
    <3>3. IF j < k THEN j \in DOMAIN w /\ w[j] = n
                   ELSE j - 1 \in DOMAIN w /\ w[j - 1] = n
      BY <3>1, <3>2, <2>1, <2>3
    <3>4. QED BY Zenon, <3>3 DEF Has
  <2>7. ASSUME NEW n, Once(q, n) PROVE Once(w, n)
    BY <2>1, <2>3, <2>4, <2>7 DEF Once
  <2>8. QED BY Zenon, <2>2, <2>3, <2>5, <2>6, <2>7
<1>3. QED BY Zenon, <1>1, <1>2

-----------------------------------------------------------------------------
(* The connection: the invariant holds at first, and every step keeps it.   *)

(* The invariant implies the kinds of the variables.                        *)
LEMMA TypedOK == Typed => TypeOK
  BY SMT DEF Typed, TypeOK, Call, Connected, Disconnected

(* The invariant of the connection holds at first.                          *)
LEMMA ConnInit == Init => ConnInv
<1> SUFFICES ASSUME Init PROVE ConnInv
  BY Zenon
<1>1. Typed
  <2>1. "Stopped" \in SvcState /\ "Idle" \in SvcState BY Zenon, StateNames
  <2>2. <<>> \in Seq(0..4) /\ <<>> \in Seq(Call) /\ Len(<<>>) = 0 OBVIOUS
  <2>3. 0 \in 0..MaxDeaths /\ 0 \in 0..0 BY ConnectionAssumption
  <2>4. QED BY Zenon, <2>1, <2>2, <2>3 DEF Init, Typed
<1>2. Binding
  BY DEF Init, Binding, Has, Once
<1>3. Sending
  BY Zenon DEF Init, Sending
<1>4. Arriving
  BY Zenon DEF Init, Arriving
<1>5. QED BY Zenon, <1>1, <1>2, <1>3, <1>4 DEF ConnInv

(* What the main thread and the system do not touch.                        *)
LEMMA BindingKept ==
  ASSUME Binding, UNCHANGED <<bind, sysDeath, connVars, main>>
  PROVE  Binding'
  BY Zenon DEF Binding, connVars, Has, Once

(* A state is broadcast: it is the last call on the wire, if the app is     *)
(* registered.                                                              *)
LEMMA StateSent ==
  ASSUME Typed, NEW s \in SvcState, Broadcast(s)
  PROVE  /\ wire' \in Seq(0..4) /\ Len(wire) <= Len(wire')
         /\ missed' \in BOOLEAN
         /\ callbacks => /\ Len(wire') = Len(wire) + 1 /\ wire' # <<>>
                         /\ decode(wire'[Len(wire')]) = s
         /\ ~callbacks => wire' = wire /\ missed' = missed
<1>1. ordinal(s) \in 0..4 /\ decode(ordinal(s)) = s
  BY Zenon, OrdinalDecoded
<1> DEFINE w == Append(wire, ordinal(s))
<1>2. w \in Seq(0..4) /\ Len(w) = Len(wire) + 1 /\ w # <<>> /\ w[Len(w)] = ordinal(s)
  BY <1>1 DEF Typed
<1> HIDE DEF w
<1>3. CASE callbacks
  <2>1. wire' = w BY Zenon, <1>3 DEF Broadcast, w
  <2>2. QED BY <2>1, <1>1, <1>2, <1>3 DEF Typed, Broadcast
<1>4. CASE ~callbacks
  BY <1>4 DEF Typed, Broadcast
<1>5. QED BY Zenon, <1>3, <1>4

(* The service announces a state.                                           *)
LEMMA AnnounceStep ==
  ASSUME NEW s \in SvcState
  PROVE  ConnKept(Turn /\ Announce(s))
<1> SUFFICES ASSUME ConnInv, Turn, Announce(s) PROVE ConnInv'
  BY Zenon DEF ConnKept
<1> USE DEF ConnInv, Announce
<1> s # None BY Zenon, CallsDiffer
<1>1. /\ wire' \in Seq(0..4) /\ Len(wire) <= Len(wire') /\ missed' \in BOOLEAN
      /\ callbacks => /\ Len(wire') = Len(wire) + 1 /\ wire' # <<>>
                      /\ decode(wire'[Len(wire')]) = s
      /\ ~callbacks => wire' = wire /\ missed' = missed
  BY Zenon, StateSent
<1>2. Typed'
  BY <1>1 DEF Typed, sysVars, connVars, uiVars
<1>3. Binding'
  BY Zenon, BindingKept DEF sysVars
<1>4. Sending'
  BY Zenon, <1>1 DEF Turn, Typed, Sending, Coming
<1>5. Arriving'
  <2>1. CASE callbacks
    BY <2>1, <1>1 DEF Turn, Typed, Arriving, Coming
  <2>2. CASE ~callbacks
    BY <2>2, <1>1 DEF Turn, Typed, Sending, Arriving, Coming, uiVars
  <2>3. QED BY Zenon, <2>1, <2>2
<1>6. QED BY Zenon, <1>2, <1>3, <1>4, <1>5

(* The service assigns its state.                                           *)
LEMMA SvcAssignStep == ConnKept(SvcAssign)
<1> SUFFICES ASSUME ConnInv, SvcAssign PROVE ConnInv'
  BY Zenon DEF ConnKept
<1> USE DEF ConnInv, SvcAssign
<1>1. Typed'
  <2>1. starting' \in BOOLEAN /\ inWindow' \in BOOLEAN BY Zenon DEF Typed
  <2>2. QED BY <2>1 DEF Typed, sysVars, connVars, uiVars
<1>2. Binding'
  BY Zenon, BindingKept DEF sysVars
<1>3. Sending'
  BY Zenon DEF Typed, Sending, Coming
<1>4. Arriving'
  BY Zenon DEF Typed, Sending, Arriving, Coming, uiVars
<1>5. QED BY Zenon, <1>1, <1>2, <1>3, <1>4

(* The service queues that it stopped.                                      *)
LEMMA SvcStoppedQueuedStep == ConnKept(SvcStoppedQueued)
<1> SUFFICES ASSUME ConnInv, SvcStoppedQueued PROVE ConnInv'
  BY Zenon DEF ConnKept
<1> USE DEF ConnInv, SvcStoppedQueued
<1>1. Typed'
  BY StateNames DEF Typed, sysVars, connVars, uiVars
<1>2. Binding'
  BY Zenon, BindingKept DEF sysVars
<1>3. Sending'
  BY Zenon DEF Turn, Typed, Sending, Coming, None
<1>4. Arriving'
  BY Zenon DEF Turn, Typed, Sending, Arriving, Coming, uiVars, None
<1>5. QED BY Zenon, <1>1, <1>2, <1>3, <1>4

(* The service broadcasts its state to the registered callbacks.            *)
LEMMA SvcBroadcastStep == ConnKept(SvcBroadcast)
<1> SUFFICES ASSUME ConnInv, SvcBroadcast PROVE ConnInv'
  BY Zenon DEF ConnKept
<1> USE DEF ConnInv, SvcBroadcast
<1>0. queued \in SvcState /\ svcState = queued /\ announced = None
  BY Zenon DEF Typed, Sending
<1>1. /\ wire' \in Seq(0..4) /\ Len(wire) <= Len(wire') /\ missed' \in BOOLEAN
      /\ callbacks => /\ Len(wire') = Len(wire) + 1 /\ wire' # <<>>
                      /\ decode(wire'[Len(wire')]) = queued
      /\ ~callbacks => wire' = wire /\ missed' = missed
  BY Zenon, <1>0, StateSent
<1>2. Typed'
  BY <1>1 DEF Typed, sysVars, connVars, uiVars
<1>3. Binding'
  BY Zenon, BindingKept DEF sysVars
<1>4. Sending'
  BY Zenon, <1>0, <1>1 DEF Typed, Sending, Coming
<1>5. Arriving'
  <2>1. CASE callbacks
    BY Zenon, <2>1, <1>0, <1>1 DEF Typed, Arriving, Coming
  <2>2. CASE ~callbacks
    BY <2>2, <1>0, <1>1 DEF Typed, Sending, Arriving, Coming, uiVars
  <2>3. QED BY Zenon, <2>1, <2>2
<1>6. QED BY Zenon, <1>2, <1>3, <1>4, <1>5

(* The service is started.                                                  *)
LEMMA StartCommandStep == ConnKept(StartCommand)
<1> SUFFICES ASSUME ConnInv, StartCommand PROVE ConnInv'
  BY Zenon DEF ConnKept
<1> USE DEF ConnInv, StartCommand
<1>1. Typed'
  BY DEF Typed, sysVars, connVars, uiVars
<1>2. Binding'
  BY Zenon, BindingKept DEF sysVars
<1>3. Sending'
  BY Zenon DEF Typed, Sending, Coming
<1>4. Arriving'
  BY Zenon DEF Typed, Sending, Arriving, Coming, uiVars
<1>5. QED BY Zenon, <1>1, <1>2, <1>3, <1>4

(* The service is destroyed.                                                *)
LEMMA SvcDestroyedStep == ConnKept(SvcDestroyed)
<1> SUFFICES ASSUME ConnInv, SvcDestroyed PROVE ConnInv'
  BY Zenon DEF ConnKept
<1> USE DEF ConnInv, SvcDestroyed
<1>1. Typed'
  <2>1. stale' \in 0..Len(wire') BY DEF Typed
  <2>2. callbacks' \in BOOLEAN BY Zenon
  <2>3. QED BY <2>1, <2>2 DEF Typed, svcVars, sysVars, connVars, uiVars
<1>2. Binding'
  BY Zenon, BindingKept DEF sysVars
<1>3. Sending'
  BY Zenon DEF Typed, Sending, Coming, svcVars
<1>4. Arriving'
  BY Zenon DEF Typed, Arriving
<1>5. QED BY Zenon, <1>1, <1>2, <1>3, <1>4

(* Which calls of the system are posted, after one call more or less.       *)
LEMMA CallsPosted ==
  ASSUME NEW q \in Seq(Call), NEW m \in Call
  PROVE  /\ Append(q, m) \in Seq(Call)
         /\ \A n : Has(Append(q, m), n) <=> Has(q, n) \/ n = m
         /\ \A n : Once(q, n) /\ (n # m \/ ~Has(q, n)) => Once(Append(q, m), n)
<1> DEFINE r == Append(q, m)
<1>1. /\ r \in Seq(Call) /\ DOMAIN r = 1..(Len(q) + 1) /\ DOMAIN q = 1..Len(q)
      /\ r[Len(q) + 1] = m /\ \A i \in 1..Len(q) : r[i] = q[i]
      /\ Len(q) \in Nat
  OBVIOUS
<1> HIDE DEF r
<1>2. \A n : Has(r, n) <=> Has(q, n) \/ n = m
  <2>1. \A i \in DOMAIN r : i \in DOMAIN q \/ i = Len(q) + 1 BY <1>1
  <2>2. Len(q) + 1 \in DOMAIN r /\ \A i \in DOMAIN q : i \in DOMAIN r BY <1>1
  <2>3. QED BY Zenon, <2>1, <2>2, <1>1 DEF Has
<1>3. ASSUME NEW n, Once(q, n), n # m \/ ~Has(q, n) PROVE Once(r, n)
  <2>1. \A i \in DOMAIN r : i \in DOMAIN q \/ i = Len(q) + 1 BY <1>1
  <2>2. QED BY Zenon, <1>1, <1>3, <2>1 DEF Once, Has
<1>4. QED BY Zenon, <1>1, <1>2, <1>3 DEF r

(* What is left of the calls when the first is taken.                       *)
LEMMA CallsLeft ==
  ASSUME NEW q \in Seq(Call), q # <<>>
  PROVE  /\ Tail(q) \in Seq(Call) /\ Head(q) = q[1] /\ 1 \in DOMAIN q
         /\ \A n : n # Head(q) => (Has(Tail(q), n) <=> Has(q, n))
         /\ \A n : Once(q, n) => Once(Tail(q), n)
         /\ Once(q, Head(q)) => ~Has(Tail(q), Head(q))
<1> DEFINE r == Tail(q)
<1>1. /\ r \in Seq(Call) /\ DOMAIN r = 1..(Len(q) - 1) /\ DOMAIN q = 1..Len(q)
      /\ \A i \in 1..(Len(q) - 1) : r[i] = q[i + 1]
      /\ Len(q) \in Nat \ {0} /\ Head(q) = q[1]
  OBVIOUS
<1> HIDE DEF r
<1>2. \A i \in DOMAIN r : i + 1 \in DOMAIN q /\ i + 1 # 1 /\ r[i] = q[i + 1]
  BY <1>1
<1>3. \A n : n # Head(q) => (Has(r, n) <=> Has(q, n))
  <2>1. ASSUME NEW n, n # Head(q), NEW j \in DOMAIN q, q[j] = n PROVE Has(r, n)
    <3>1. j # 1 BY Zenon, <1>1, <2>1
    <3>2. j - 1 \in DOMAIN r /\ r[j - 1] = q[j] BY <3>1, <1>1
    <3>3. QED BY Zenon, <3>2, <2>1 DEF Has
  <2>2. QED BY Zenon, <2>1, <1>2 DEF Has
<1>4. ASSUME NEW n, Once(q, n) PROVE Once(r, n)
  <2>1. ASSUME NEW i \in DOMAIN r, NEW j \in DOMAIN r, r[i] = n, r[j] = n PROVE i = j
    <3>1. i + 1 = j + 1 BY Zenon, <1>2, <1>4, <2>1 DEF Once
    <3>2. QED BY <3>1, <1>1
  <2>2. QED BY Zenon, <2>1 DEF Once
<1>5. Once(q, Head(q)) => ~Has(r, Head(q))
  BY <1>1, <1>2 DEF Once, Has
<1>6. QED BY <1>1, <1>3, <1>4, <1>5 DEF r

(* The process dies: what was posted of the connection is dropped.          *)
LEMMA SvcDiesStep == ConnKept(SvcDies)
<1> SUFFICES ASSUME ConnInv, SvcDies PROVE ConnInv'
  BY Zenon DEF ConnKept
<1> USE DEF ConnInv, SvcDies
<1>1. /\ main' \in Seq(Call) /\ ~Has(main', Connected)
      /\ Has(main', Disconnected) <=> Has(main, Disconnected)
      /\ Once(main', Connected) /\ Once(main', Disconnected)
  BY Zenon, CallDropped, CallsDiffer DEF Typed, Binding, Connected
<1>2. Typed'
  <2>1. stale' \in 0..Len(wire') /\ deaths' \in 0..MaxDeaths
    BY ConnectionAssumption DEF Typed
  <2>2. /\ alive' \in BOOLEAN /\ starting' \in BOOLEAN /\ callbacks' \in BOOLEAN
        /\ inWindow' \in BOOLEAN /\ sysDeath' \in BOOLEAN /\ died' \in BOOLEAN
    BY Zenon
  <2>3. bind' \in {"unbound", "binding", "posted", "bound"} /\ svcState' \in SvcState
    BY Zenon, StateNames DEF Typed
  <2>4. QED BY <1>1, <2>1, <2>2, <2>3 DEF Typed, connVars, uiVars
<1>3. Binding'
  <2>1. \A i, j \in DOMAIN main' : main'[i] = Disconnected /\ main'[j] = Connected => i < j
    BY Zenon, <1>1 DEF Has
  <2>2. QED BY Zenon, <1>1, <2>1 DEF Binding, Typed, connVars
<1>4. Sending'
  BY Zenon DEF Typed, Sending
<1>5. Arriving'
  BY Zenon DEF Arriving
<1>6. QED BY Zenon, <1>2, <1>3, <1>4, <1>5

(* A call that is none of the system's is posted.                           *)
LEMMA BindingAppended ==
  ASSUME Typed, Binding, NEW m \in Call \ {Connected, Disconnected},
         main' = Append(main, m), UNCHANGED <<bind, sysDeath, connectionActive, callback>>,
         callbackRegistered' => callbackRegistered
  PROVE  Binding'
<1>1. /\ Has(main', Connected) <=> Has(main, Connected)
      /\ Has(main', Disconnected) <=> Has(main, Disconnected)
      /\ Once(main', Connected) /\ Once(main', Disconnected)
  BY Zenon, CallsPosted DEF Typed, Binding
<1>2. \A i, j \in DOMAIN main' : main'[i] = Disconnected /\ main'[j] = Connected => i < j
  <2>1. /\ DOMAIN main' = 1..(Len(main) + 1) /\ DOMAIN main = 1..Len(main)
        /\ main'[Len(main) + 1] = m /\ \A i \in 1..Len(main) : main'[i] = main[i]
    BY DEF Typed
  <2>2. QED BY <2>1 DEF Binding
<1>3. QED BY Zenon, <1>1, <1>2 DEF Binding

(* What is left of a sequence when its first element is taken.              *)
LEMMA OneTaken ==
  ASSUME NEW S, NEW q \in Seq(S), q # <<>>
  PROVE  /\ Tail(q) \in Seq(S) /\ Len(Tail(q)) = Len(q) - 1 /\ Len(q) \in Nat \ {0}
         /\ Head(q) \in S /\ Head(q) = q[1]
         /\ Tail(q) = <<>> => Len(q) = 1
         /\ Tail(q) # <<>> => Tail(q)[Len(Tail(q))] = q[Len(q)] /\ Len(Tail(q)) > 0
<1>1. /\ Tail(q) \in Seq(S) /\ Len(Tail(q)) = Len(q) - 1 /\ Len(q) \in Nat \ {0}
      /\ Head(q) \in S /\ Head(q) = q[1]
      /\ \A i \in 1..(Len(q) - 1) : Tail(q)[i] = q[i + 1]
  OBVIOUS
<1>2. Tail(q) = <<>> <=> Len(Tail(q)) = 0
  <2>1. \A t \in Seq(S) : t = <<>> <=> Len(t) = 0 OBVIOUS
  <2>2. QED BY Zenon, <1>1, <2>1
<1>3. Tail(q) # <<>> => Len(Tail(q)) \in 1..(Len(q) - 1)
  BY <1>1, <1>2
<1>4. QED BY <1>1, <1>2, <1>3

(* A call of the service arrives in the app.                                *)
LEMMA ReceiveStep == ConnKept(Receive)
<1> SUFFICES ASSUME ConnInv, Receive PROVE ConnInv'
  BY Zenon DEF ConnKept
<1> USE DEF ConnInv, Receive
<1> DEFINE d == decode(Head(wire))
<1>1. /\ wire' \in Seq(0..4) /\ Len(wire') = Len(wire) - 1 /\ Len(wire) \in Nat \ {0}
      /\ Head(wire) \in 0..4 /\ Head(wire) = wire[1]
      /\ wire' # <<>> => wire'[Len(wire')] = wire[Len(wire)] /\ Len(wire') > 0
      /\ wire' = <<>> => Len(wire) = 1
  BY Zenon, OneTaken DEF Typed
<1>2. d \in SvcState /\ d \in Call /\ d \notin {Connected, Disconnected}
  BY Zenon, <1>1, DecodedState, CallsDiffer DEF Call
<1>3. /\ stale' \in 0..Len(wire')
      /\ stale' < Len(wire') => stale < Len(wire)
      /\ stale = Len(wire) => stale' = Len(wire')
  <2>1. stale \in 0..Len(wire) /\ stale' = IF stale > 0 THEN stale - 1 ELSE 0
    BY Zenon DEF Typed
  <2> HIDE DEF Receive
  <2>2. QED BY <1>1, <2>1
<1>4. Typed'
  <2>1. main' \in Seq(Call) BY <1>2 DEF Typed
  <2>2. missed' \in BOOLEAN BY Zenon
  <2>3. UNCHANGED <<svcVars, callbacks, bind, sysVars, connVars, uiVars, inWindow>>
    BY Zenon
  <2> HIDE DEF Receive
  <2>4. QED
    BY <1>1, <1>3, <2>1, <2>2, <2>3 DEF Typed, svcVars, sysVars, connVars, uiVars
<1>5. Sending'
  <2>1. stale' < Len(wire') => wire' # <<>> BY <1>1, <1>3
  <2>2. QED BY Zenon, <1>1, <1>3, <2>1 DEF Sending, Coming, svcVars
<1>6. CASE ~callback
  <2>1. Binding' BY Zenon, <1>6, BindingKept DEF sysVars
  <2>2. bind' = "unbound" BY Zenon, <1>6 DEF Binding
  <2>3. Arriving' BY Zenon, <2>2 DEF Arriving
  <2>4. QED BY Zenon, <1>4, <1>5, <2>1, <2>3
<1>7. CASE callback
  <2>1. main' = Append(main, d) BY Zenon, <1>7
  <2>2. Binding' BY Zenon, <1>2, <2>1, BindingAppended DEF sysVars, connVars
  <2>3. \A i : Latest(main', i) <=> i = Len(main) + 1
    BY Zenon, <1>2, <2>1, StatePosted DEF Typed
  <2>4. Len(main) + 1 \in DOMAIN main' /\ main'[Len(main) + 1] = d
    BY <2>1 DEF Typed
  <2>5. wire' = <<>> /\ ~missed' => stale < Len(wire)
    <3>1. ~missed' => ~(stale = 1 /\ Len(wire) = 1) BY Zenon
    <3>2. stale \in 0..Len(wire) BY Zenon DEF Typed
    <3>3. wire' = <<>> => Len(wire) = 1 BY Zenon, <1>1
    <3> HIDE DEF Receive
    <3>4. QED BY <3>1, <3>2, <3>3
  <2>6. wire' = <<>> /\ ~missed' => callbacks
    BY <2>5 DEF Sending
  <2>7. wire' = <<>> /\ ~missed' /\ queued = None => d = Coming
    BY Zenon, <1>1, <2>5, <2>6 DEF Sending
  <2>8. Coming' = Coming BY Zenon DEF Coming, svcVars
  <2> HIDE DEF d, Receive
  <2>9. Arriving'
    <3>1. queued' = queued /\ callbacks' = callbacks BY Zenon DEF Receive, svcVars
    <3>2. \E i \in DOMAIN main' : Latest(main', i) BY Zenon, <2>3, <2>4
    <3>3. QED BY Zenon, <2>3, <2>4, <2>6, <2>7, <2>8, <3>1, <3>2 DEF Arriving
  <2>10. QED BY Zenon, <1>4, <1>5, <2>2, <2>9
<1>8. QED BY Zenon, <1>6, <1>7 DEF Typed

(* The app is told that the service's process died.                         *)
LEMMA binderDiedStep == ConnKept(binderDied)
<1> SUFFICES ASSUME ConnInv, binderDied PROVE ConnInv'
  BY Zenon DEF ConnKept
<1> USE DEF ConnInv, binderDied
<1> DEFINE m == "onBinderDied"
<1>1. m \in Call \ {Connected, Disconnected} /\ m \notin SvcState
  BY Zenon, CallsDiffer DEF Call
<1>2. Typed'
  <2>1. main' \in Seq(Call) BY <1>1 DEF Typed
  <2>2. died' \in BOOLEAN /\ service' \in BOOLEAN /\ callbackRegistered' \in BOOLEAN
    BY Zenon
  <2>3. QED BY <2>1, <2>2 DEF Typed, svcVars, uiVars
<1>3. Sending'
  BY Zenon DEF Sending, Coming, svcVars
<1>4. CASE ~callback
  <2>1. main' = main BY Zenon, <1>4
  <2>2. bind' = "unbound" BY Zenon, <1>4 DEF Binding
  <2>3. Binding' BY Zenon, <2>1 DEF Binding, Has, Once
  <2>4. Arriving' BY Zenon, <2>2 DEF Arriving
  <2>5. QED BY Zenon, <1>2, <1>3, <2>3, <2>4
<1>5. CASE callback
  <2>1. main' = Append(main, m) BY Zenon, <1>5
  <2>2. Binding' BY Zenon, <1>1, <2>1, BindingAppended
  <2>3. \A i : (Latest(main', i) <=> Latest(main, i)) /\ (Fresh(main', i) <=> Fresh(main, i))
    BY <1>1, <2>1, OtherPosted, CallsDiffer DEF Typed
  <2>4. /\ \A i \in DOMAIN main : i \in DOMAIN main' /\ main'[i] = main[i]
        /\ \A i : Latest(main, i) => i \in DOMAIN main
        /\ \A i : Fresh(main, i) => i \in DOMAIN main
    BY <2>1 DEF Typed, Latest, Fresh
  <2>5. Arriving'
    BY Zenon, <2>3, <2>4 DEF Arriving, Coming, svcVars, uiVars
  <2>6. QED BY Zenon, <1>2, <1>3, <2>2, <2>5
<1>6. QED BY Zenon, <1>4, <1>5 DEF Typed

(* The system posts that the service is connected.                          *)
LEMMA PostConnectedStep == ConnKept(PostConnected)
<1> SUFFICES ASSUME ConnInv, PostConnected PROVE ConnInv'
  BY Zenon DEF ConnKept
<1> USE DEF ConnInv, PostConnected
<1>1. main' = Append(main, Connected) /\ Connected \in Call
  BY Zenon DEF Connected, Call
<1>2. ~Has(main, Connected)
  BY Zenon DEF Binding
<1>3. /\ main' \in Seq(Call) /\ Has(main', Connected)
      /\ Has(main', Disconnected) <=> Has(main, Disconnected)
      /\ Once(main', Connected) /\ Once(main', Disconnected)
  BY <1>1, <1>2, CallsPosted, CallsDiffer DEF Typed, Binding
<1>4. Typed'
  BY <1>3 DEF Typed, sysVars, connVars, uiVars
<1>5. Binding'
  <2>1. \A i, j \in DOMAIN main' : main'[i] = Disconnected /\ main'[j] = Connected => i < j
    <3>1. /\ DOMAIN main' = 1..(Len(main) + 1) /\ DOMAIN main = 1..Len(main)
          /\ main'[Len(main) + 1] = Connected /\ \A i \in 1..Len(main) : main'[i] = main[i]
          /\ Len(main) \in Nat
      BY <1>1 DEF Typed
    <3>2. QED BY <1>2, <3>1, CallsDiffer DEF Has
  <2>2. QED BY Zenon, <1>3, <2>1 DEF Binding, sysVars, connVars
<1>6. Sending'
  BY Zenon DEF Sending, Coming
<1>7. Arriving'
  <2>1. \A i : ~Fresh(main', i) /\ ~Latest(main', i)
    BY Zenon, <1>1, ConnectionPosted DEF Typed, Latest
  <2>2. bind' = "posted" BY Zenon
  <2> HIDE DEF PostConnected
  <2>3. QED BY Zenon, <2>1, <2>2 DEF Arriving
<1>8. QED BY Zenon, <1>4, <1>5, <1>6, <1>7

(* The system posts that the service is gone.                               *)
LEMMA PostDisconnectedStep == ConnKept(PostDisconnected)
<1> SUFFICES ASSUME ConnInv, PostDisconnected PROVE ConnInv'
  BY Zenon DEF ConnKept
<1> USE DEF ConnInv, PostDisconnected
<1>1. main' = Append(main, Disconnected) /\ Disconnected \in Call
  BY Zenon DEF Disconnected, Call
<1>2. bind = "binding" /\ bind' = bind /\ ~Has(main, Connected) /\ ~Has(main, Disconnected)
  BY Zenon DEF Binding
<1>3. /\ main' \in Seq(Call) /\ ~Has(main', Connected) /\ Has(main', Disconnected)
      /\ Once(main', Connected) /\ Once(main', Disconnected)
  BY <1>1, <1>2, CallsPosted, CallsDiffer DEF Typed, Binding
<1>4. Typed'
  <2>1. sysDeath' \in BOOLEAN BY Zenon
  <2>2. QED BY <1>3, <2>1 DEF Typed, svcVars, connVars, uiVars
<1>5. Binding'
  <2>1. \A i, j \in DOMAIN main' : main'[i] = Disconnected /\ main'[j] = Connected => i < j
    BY Zenon, <1>3 DEF Has
  <2>2. QED BY Zenon, <1>2, <1>3, <2>1 DEF Binding, connVars
<1>6. Sending'
  BY Zenon DEF Sending, Coming, svcVars
<1>7. Arriving'
  BY Zenon, <1>2 DEF Arriving
<1>8. QED BY Zenon, <1>4, <1>5, <1>6, <1>7

(* The main thread takes a call: those behind it move up.                   *)
LEMMA onServiceConnectedStep == ConnKept(onServiceConnected)
<1> SUFFICES ASSUME ConnInv, onServiceConnected PROVE ConnInv'
  BY Zenon DEF ConnKept
<1> USE DEF ConnInv
<1>0. /\ main # <<>> /\ Head(main) = Connected /\ main' = Tail(main) /\ bind' = "bound"
      /\ callbacks' = TRUE /\ callbackRegistered' = TRUE /\ inConnected' = TRUE
      /\ inWindow' = (announced # None) /\ service' = TRUE
      /\ missed' = (missed /\ \E i \in 2..Len(main) : main[i] \in SvcState)
      /\ UNCHANGED <<svcVars, wire, sysVars, connectionActive, callback, mSsState,
                     attached, told, crashed, stale>>
  BY Zenon DEF onServiceConnected, Take, registerCallback, Connected
<1>1. /\ main' \in Seq(Call) /\ 1 \in DOMAIN main /\ main[1] = Connected
      /\ ~Has(main', Connected)
      /\ Has(main', Disconnected) <=> Has(main, Disconnected)
      /\ Once(main', Connected) /\ Once(main', Disconnected)
  BY Zenon, <1>0, CallsLeft, CallsDiffer DEF Typed, Binding
<1>2. bind = "posted" /\ ~Has(main, Disconnected)
  <2>1. \A i \in DOMAIN main : main[i] # Disconnected
    BY <1>1 DEF Binding, Typed
  <2>2. Has(main, Connected) BY Zenon, <1>1 DEF Has
  <2>3. QED BY Zenon, <2>1, <2>2 DEF Binding, Has
<1>3. Typed'
  <2>1. /\ callbacks' \in BOOLEAN /\ callbackRegistered' \in BOOLEAN /\ service' \in BOOLEAN
        /\ inConnected' \in BOOLEAN /\ inWindow' \in BOOLEAN /\ missed' \in BOOLEAN
    BY <1>0, Zenon
  <2>2. QED BY <1>0, <1>1, <2>1 DEF Typed, svcVars, sysVars
<1>4. Binding'
  <2>1. \A i, j \in DOMAIN main' : main'[i] = Disconnected /\ main'[j] = Connected => i < j
    BY Zenon, <1>1 DEF Has
  <2>2. QED BY Zenon, <1>0, <1>1, <1>2, <2>1 DEF Binding, sysVars
<1>5. Sending'
  BY <1>0 DEF Typed, Sending, Coming, svcVars
<1>6. Arriving'
  <2>1. /\ DOMAIN main' = 1..(Len(main) - 1)
        /\ \A i \in 1..(Len(main) - 1) : /\ main'[i] = main[i + 1]
                                         /\ Latest(main', i) <=> Latest(main, i + 1)
                                         /\ Fresh(main', i) <=> Fresh(main, i + 1)
    BY Zenon, <1>0, CallTaken DEF Typed
  <2>2. DOMAIN main = 1..Len(main) /\ Len(main) \in Nat
    BY DEF Typed
  <2>3. \A i : Latest(main, i) => i \in 2..Len(main) /\ main[i] \in SvcState
    BY <1>1, <2>2, CallsDiffer DEF Latest, Fresh
  <2>4. \A k : Latest(main, k) => k - 1 \in DOMAIN main' /\ Latest(main', k - 1)
    <3>1. \A k \in 2..Len(main) : k - 1 \in 1..(Len(main) - 1) /\ (k - 1) + 1 = k
      BY <2>2
    <3>2. QED BY Zenon, <2>1, <2>3, <3>1
  <2>5. \A i \in DOMAIN main' : i + 1 \in DOMAIN main BY <2>1, <2>2
  <2>6. \A i \in DOMAIN main' : Fresh(main', i) => \E k \in DOMAIN main' : Latest(main', k)
    <3>1. \A i \in DOMAIN main : Fresh(main, i) => \E k \in DOMAIN main : Latest(main, k)
      BY Zenon, <1>2 DEF Arriving
    <3>2. QED BY Zenon, <2>1, <2>4, <2>5, <3>1
  <2>7. ASSUME wire' = <<>>, queued' = None, ~missed', NEW i \in DOMAIN main',
               Latest(main', i)
        PROVE  main'[i] = Coming'
    <3>1. Latest(main, i + 1) /\ main'[i] = main[i + 1] /\ i + 1 \in DOMAIN main
      BY Zenon, <2>1, <2>5, <2>7
    <3>2. ~missed /\ wire = <<>> /\ queued = None
      BY Zenon, <1>0, <2>3, <2>7, <3>1 DEF svcVars
    <3>3. callbacks BY Zenon, <1>2, <3>1, <3>2 DEF Arriving
    <3>4. main[i + 1] = Coming BY Zenon, <1>2, <3>1, <3>2, <3>3 DEF Arriving
    <3>5. QED BY Zenon, <3>1, <3>4, <1>0 DEF Coming, svcVars
  <2>8. QED BY Zenon, <1>0, <2>6, <2>7 DEF Arriving, svcVars
<1>7. QED BY Zenon, <1>3, <1>4, <1>5, <1>6

(* The app reads the state of the service it is bound to.                   *)
LEMMA ReadStateStep == ConnKept(ReadState)
<1> SUFFICES ASSUME ConnInv, ReadState PROVE ConnInv'
  BY Zenon DEF ConnKept
<1> USE DEF ConnInv, ReadState
<1>1. Typed'
  <2>1. /\ inConnected' \in BOOLEAN /\ told' \in BOOLEAN /\ crashed' \in BOOLEAN
        /\ missed' \in BOOLEAN
    BY Zenon DEF Typed
  <2>2. QED BY <2>1 DEF Typed, svcVars, sysVars, connVars
<1>2. Binding'
  BY Zenon, BindingKept DEF sysVars
<1>3. Sending'
  BY Zenon DEF Sending, Coming, svcVars
<1>4. Arriving'
  <2>1. CASE bind # "bound"
    BY <2>1 DEF Arriving, Coming, svcVars
  <2>2. CASE bind = "bound"
    <3>1. /\ wire = <<>> /\ ~missed' /\ (\A i \in DOMAIN main : ~Latest(main, i))
          => announced = None
      <4>1. missed' <=> missed \/ inWindow BY Zenon, <2>2
      <4>2. wire = <<>> => ~(stale < Len(wire)) BY DEF Typed
      <4>3. QED BY Zenon, <2>2, <4>1, <4>2 DEF Arriving
    <3>2. mSsState' = svcState /\ (~missed' => ~missed) BY Zenon, <2>2
    <3>3. QED BY Zenon, <2>2, <3>1, <3>2 DEF Arriving, Coming, svcVars
  <2>3. QED BY Zenon, <2>1, <2>2
<1>5. QED BY Zenon, <1>1, <1>2, <1>3, <1>4

(* The app handles a change of the state.                                   *)
LEMMA stateChangedStep == ConnKept(stateChanged)
<1> SUFFICES ASSUME ConnInv, stateChanged PROVE ConnInv'
  BY Zenon DEF ConnKept
<1> USE DEF ConnInv
<1>0. /\ ~inConnected /\ main # <<>> /\ Head(main) \in SvcState
      /\ mSsState' = Head(main) /\ main' = Tail(main)
      /\ UNCHANGED <<svcVars, callbacks, wire, bind, sysVars, connVars, inConnected,
                     attached, told, crashed, stale, inWindow, missed>>
  BY Zenon DEF stateChanged, Take, MainThread
<1>1. /\ main' \in Seq(Call) /\ 1 \in DOMAIN main /\ main[1] = Head(main)
      /\ Has(main', Connected) <=> Has(main, Connected)
      /\ Has(main', Disconnected) <=> Has(main, Disconnected)
      /\ Once(main', Connected) /\ Once(main', Disconnected)
  BY <1>0, CallsLeft, CallsDiffer DEF Typed, Binding
<1>2. /\ DOMAIN main' = 1..(Len(main) - 1) /\ DOMAIN main = 1..Len(main)
      /\ Len(main) \in Nat
      /\ \A i \in 1..(Len(main) - 1) : /\ main'[i] = main[i + 1]
                                       /\ Latest(main', i) <=> Latest(main, i + 1)
                                       /\ Fresh(main', i) <=> Fresh(main, i + 1)
  BY <1>0, CallTaken DEF Typed
<1>3. \A i \in DOMAIN main' : i + 1 \in DOMAIN main /\ i + 1 > 1
  BY <1>2
<1>4. \A k : Latest(main, k) /\ k # 1 => k - 1 \in DOMAIN main' /\ Latest(main', k - 1)
  <2>1. \A k : Latest(main, k) => k \in 1..Len(main) BY Zenon, <1>2 DEF Latest, Fresh
  <2>2. \A k \in 2..Len(main) : k - 1 \in 1..(Len(main) - 1) /\ (k - 1) + 1 = k
    BY <1>2
  <2>3. QED BY <1>2, <2>1, <2>2
<1>5. Typed'
  BY <1>0, <1>1 DEF Typed, svcVars, sysVars, connVars
<1>6. Binding'
  <2>1. \A i, j \in DOMAIN main' : main'[i] = Disconnected /\ main'[j] = Connected => i < j
    <3>1. ASSUME NEW i \in DOMAIN main', NEW j \in DOMAIN main',
                 main'[i] = Disconnected, main'[j] = Connected
          PROVE  i < j
      <4>1. i + 1 < j + 1 BY Zenon, <1>2, <1>3, <3>1 DEF Binding
      <4>2. QED BY <4>1, <1>2
    <3>2. QED BY Zenon, <3>1
  <2>2. QED BY Zenon, <1>0, <1>1, <2>1 DEF Binding, sysVars, connVars
<1>7. Sending'
  BY Zenon, <1>0 DEF Sending, Coming, svcVars
<1>8. Arriving'
  <2>1. (\E i \in DOMAIN main' : Latest(main', i)) => \E i \in DOMAIN main : Latest(main, i)
    BY Zenon, <1>2, <1>3
  <2>2. ASSUME bind \in {"posted", "bound"}, NEW i \in DOMAIN main', Fresh(main', i)
        PROVE  \E k \in DOMAIN main' : Latest(main', k)
    <3>1. Fresh(main, i + 1) /\ i + 1 \in DOMAIN main /\ i + 1 > 1
      BY Zenon, <1>2, <1>3, <2>2
    <3>2. PICK k \in DOMAIN main : Latest(main, k)
      BY Zenon, <2>2, <3>1 DEF Arriving
    <3>3. k # 1 BY Zenon, <3>1, <3>2 DEF Latest, Fresh
    <3>4. QED BY Zenon, <1>4, <3>2, <3>3
  <2>3. ASSUME bind \in {"posted", "bound"}, callbacks, wire = <<>>, queued = None, ~missed,
               NEW i \in DOMAIN main', Latest(main', i)
        PROVE  main'[i] = Coming
    <3>1. Latest(main, i + 1) /\ main'[i] = main[i + 1] /\ i + 1 \in DOMAIN main
      BY Zenon, <1>2, <1>3, <2>3
    <3>2. QED BY Zenon, <2>3, <3>1 DEF Arriving
  <2>4. ASSUME bind = "bound", wire = <<>>, queued = None, ~missed,
               \A i \in DOMAIN main' : ~Latest(main', i)
        PROVE  mSsState' = Coming
    <3>1. \A j \in DOMAIN main : main[j] # Connected
      BY Zenon, <2>4 DEF Binding, Has
    <3>2. Fresh(main, 1) BY Zenon, <1>0, <1>1, <3>1 DEF Fresh
    <3>3. PICK k \in DOMAIN main : Latest(main, k)
      BY Zenon, <1>1, <2>4, <3>2 DEF Arriving
    <3>4. k = 1 BY Zenon, <1>4, <2>4, <3>3
    <3>5. main[1] = Coming BY Zenon, <1>1, <2>4, <3>3, <3>4 DEF Arriving, Sending
    <3>6. QED BY Zenon, <1>0, <1>1, <3>5
  <2>5. Coming' = Coming BY Zenon, <1>0 DEF Coming, svcVars
  <2>6. /\ bind' = bind /\ wire' = wire /\ missed' = missed /\ callbacks' = callbacks
        /\ queued' = queued /\ ~inConnected'
    BY Zenon, <1>0 DEF svcVars
  <2>7. QED BY Zenon, <2>1, <2>2, <2>3, <2>4, <2>5, <2>6 DEF Arriving
<1>9. QED BY Zenon, <1>5, <1>6, <1>7, <1>8

(* The app handles that the service is gone.                                *)
LEMMA onServiceDisconnectedStep == ConnKept(onServiceDisconnected)
<1> SUFFICES ASSUME ConnInv, onServiceDisconnected PROVE ConnInv'
  BY Zenon DEF ConnKept
<1> USE DEF ConnInv
<1>0. /\ main # <<>> /\ Head(main) = Disconnected /\ main' = Tail(main)
      /\ callbacks' = (callbacks /\ ~(service /\ callbackRegistered /\ bind = "bound"))
      /\ stale' = Len(wire) /\ callbackRegistered' = FALSE
      /\ told' = FALSE /\ service' = FALSE
      /\ UNCHANGED <<svcVars, wire, bind, sysVars, connectionActive, callback,
                     inConnected, mSsState, attached, crashed, inWindow, missed>>
  BY Zenon DEF onServiceDisconnected, ServiceGone, unregisterCallback, Take, Disconnected
<1>1. /\ main' \in Seq(Call) /\ 1 \in DOMAIN main /\ main[1] = Disconnected
      /\ Has(main', Connected) <=> Has(main, Connected)
      /\ ~Has(main', Disconnected)
      /\ Once(main', Connected) /\ Once(main', Disconnected)
  BY Zenon, <1>0, CallsLeft, CallsDiffer DEF Typed, Binding
<1>2. bind \in {"binding", "posted"} /\ callbacks' = callbacks
  <2>1. Has(main, Disconnected) BY Zenon, <1>1 DEF Has
  <2>2. bind \in {"binding", "posted"} BY Zenon, <2>1 DEF Binding
  <2>3. QED BY Zenon, <2>2, <1>0 DEF Typed
<1>3. Typed'
  <2>1. stale' \in 0..Len(wire') BY <1>0 DEF Typed
  <2>2. /\ callbacks' \in BOOLEAN /\ callbackRegistered' \in BOOLEAN
        /\ told' \in BOOLEAN /\ service' \in BOOLEAN
    BY <1>0, Zenon
  <2>3. QED BY <1>0, <1>1, <2>1, <2>2 DEF Typed, svcVars, sysVars
<1>4. Binding'
  <2>1. \A i, j \in DOMAIN main' : main'[i] = Disconnected /\ main'[j] = Connected => i < j
    BY Zenon, <1>1 DEF Has
  <2>2. QED BY Zenon, <1>0, <1>1, <1>2, <2>1 DEF Binding, sysVars
<1>5. Sending'
  BY <1>0, <1>2 DEF Typed, Sending, svcVars
<1>6. Arriving'
  <2>1. /\ DOMAIN main' = 1..(Len(main) - 1) /\ DOMAIN main = 1..Len(main)
        /\ Len(main) \in Nat
        /\ \A i \in 1..(Len(main) - 1) : /\ main'[i] = main[i + 1]
                                         /\ Latest(main', i) <=> Latest(main, i + 1)
                                         /\ Fresh(main', i) <=> Fresh(main, i + 1)
    BY <1>0, CallTaken DEF Typed
  <2>2. \A i \in DOMAIN main' : i + 1 \in DOMAIN main
    BY <2>1
  <2>3. \A k : Latest(main, k) => k - 1 \in DOMAIN main' /\ Latest(main', k - 1)
    <3>1. \A k : Latest(main, k) => k \in 1..Len(main) /\ k # 1
      BY Zenon, <1>1, <2>1, CallsDiffer DEF Latest, Fresh
    <3>2. \A k \in 2..Len(main) : k - 1 \in 1..(Len(main) - 1) /\ (k - 1) + 1 = k
      BY <2>1
    <3>3. QED BY <2>1, <3>1, <3>2
  <2>4. (\E i \in DOMAIN main' : Latest(main', i)) => \E i \in DOMAIN main : Latest(main, i)
    BY Zenon, <2>1, <2>2
  <2>5. ASSUME bind = "posted", NEW i \in DOMAIN main', Fresh(main', i)
        PROVE  \E k \in DOMAIN main' : Latest(main', k)
    <3>1. PICK k \in DOMAIN main : Latest(main, k)
      BY Zenon, <2>1, <2>2, <2>5 DEF Arriving
    <3>2. QED BY Zenon, <2>3, <3>1
  <2>6. ASSUME bind = "posted", callbacks, wire = <<>>, queued = None, ~missed,
               NEW i \in DOMAIN main', Latest(main', i)
        PROVE  main'[i] = Coming
    <3>1. Latest(main, i + 1) /\ main'[i] = main[i + 1] /\ i + 1 \in DOMAIN main
      BY Zenon, <2>1, <2>2, <2>6
    <3>2. QED BY Zenon, <2>6, <3>1 DEF Arriving
  <2>7. Coming' = Coming BY Zenon, <1>0 DEF Coming, svcVars
  <2>8. bind' = bind /\ wire' = wire /\ missed' = missed /\ queued' = queued
    BY Zenon, <1>0 DEF svcVars
  <2>9. QED BY Zenon, <1>2, <2>4, <2>5, <2>6, <2>7, <2>8 DEF Arriving
<1>7. QED BY Zenon, <1>3, <1>4, <1>5, <1>6

(* The app unbinds: nothing of the connection is left.                      *)
LEMMA disconnectStep ==
  ASSUME ConnInv, NEW rest \in Seq(Call), Once(rest, Connected), Once(rest, Disconnected),
         disconnect(rest), attached' \in BOOLEAN,
         UNCHANGED <<svcVars, wire, died, inConnected, mSsState, told, crashed, inWindow,
                     missed>>
  PROVE  ConnInv'
<1> USE DEF ConnInv
<1> DEFINE w == Without(Connected, rest)
<1>1. /\ w \in Seq(Call) /\ ~Has(w, Connected)
      /\ Once(w, Connected) /\ Once(w, Disconnected)
  BY Zenon, CallDropped
<1>2. main' = Without(Disconnected, w)
  BY Zenon DEF disconnect, Connected, Disconnected
<1> HIDE DEF w
<1>3. /\ main' \in Seq(Call) /\ ~Has(main', Connected) /\ ~Has(main', Disconnected)
      /\ Once(main', Connected) /\ Once(main', Disconnected)
  BY Zenon, <1>1, <1>2, CallDropped, CallsDiffer
<1>4. /\ callbacks' = (callbacks /\ ~(service /\ callbackRegistered /\ bind = "bound"))
      /\ stale' = Len(wire) /\ callbackRegistered' = FALSE /\ bind' = "unbound"
      /\ sysDeath' = FALSE /\ connectionActive' = FALSE /\ service' = FALSE
      /\ callback' = FALSE
  BY Zenon DEF disconnect, unregisterCallback
<1>5. Typed'
  <2>1. stale' \in 0..Len(wire') BY <1>4 DEF Typed
  <2>2. /\ callbacks' \in BOOLEAN /\ callbackRegistered' \in BOOLEAN
        /\ sysDeath' \in BOOLEAN /\ connectionActive' \in BOOLEAN
        /\ service' \in BOOLEAN /\ callback' \in BOOLEAN
    BY <1>4, Zenon
  <2>3. QED BY <1>3, <1>4, <2>1, <2>2 DEF Typed, svcVars
<1>6. Binding'
  <2>1. \A i, j \in DOMAIN main' : main'[i] = Disconnected /\ main'[j] = Connected => i < j
    BY Zenon, <1>3 DEF Has
  <2>2. QED BY Zenon, <1>3, <1>4, <2>1 DEF Binding
<1>7. Sending'
  BY <1>4 DEF Typed, Sending, svcVars
<1>8. Arriving'
  BY Zenon, <1>4 DEF Arriving
<1>9. QED BY Zenon, <1>5, <1>6, <1>7, <1>8

(* The app unbinds.                                                         *)
LEMMA detachStep == ConnKept(detach)
<1> SUFFICES ASSUME ConnInv, detach PROVE ConnInv'
  BY Zenon DEF ConnKept
<1>1. attached' \in BOOLEAN
  BY Zenon DEF detach
<1>2. main \in Seq(Call) /\ Once(main, Connected) /\ Once(main, Disconnected)
  BY Zenon DEF ConnInv, Typed, Binding
<1>3. QED BY Zenon, <1>1, <1>2, disconnectStep DEF detach

(* The app handles the death of the service.                                *)
LEMMA onBinderDiedStep == ConnKept(onBinderDied)
<1> SUFFICES ASSUME ConnInv, onBinderDied PROVE ConnInv'
  BY Zenon DEF ConnKept
<1> USE DEF ConnInv
<1>0. main # <<>> /\ Head(main) = "onBinderDied"
  BY Zenon DEF onBinderDied, Take
<1>1. /\ Tail(main) \in Seq(Call) /\ main[1] = Head(main)
      /\ Has(Tail(main), Connected) <=> Has(main, Connected)
      /\ Has(Tail(main), Disconnected) <=> Has(main, Disconnected)
      /\ Once(Tail(main), Connected) /\ Once(Tail(main), Disconnected)
  BY Zenon, <1>0, CallsLeft, CallsDiffer DEF Typed, Binding
<1>2. CASE attached
  <2>1. /\ disconnect(Tail(main))
        /\ UNCHANGED <<svcVars, wire, died, uiVars, inWindow, missed>>
    BY Zenon, <1>2 DEF onBinderDied
  <2>2. attached' \in BOOLEAN BY Zenon, <2>1 DEF Typed, uiVars
  <2>3. QED BY Zenon, <1>1, <2>1, <2>2, disconnectStep DEF uiVars
<1>3. CASE ~attached
  <2>1. /\ main' = Tail(main)
        /\ UNCHANGED <<callbacks, stale, bind, sysDeath, connVars, svcVars, wire, died,
                       uiVars, inWindow, missed>>
    BY Zenon, <1>3 DEF onBinderDied
  <2>2. /\ DOMAIN main' = 1..(Len(main) - 1) /\ DOMAIN main = 1..Len(main)
        /\ Len(main) \in Nat
        /\ \A i \in 1..(Len(main) - 1) : /\ main'[i] = main[i + 1]
                                         /\ Latest(main', i) <=> Latest(main, i + 1)
                                         /\ Fresh(main', i) <=> Fresh(main, i + 1)
    BY <1>0, <2>1, CallTaken DEF Typed
  <2>3. \A i \in DOMAIN main' : i + 1 \in DOMAIN main
    BY <2>2
  <2>4. \A k : Latest(main, k) => k - 1 \in DOMAIN main' /\ Latest(main', k - 1)
    <3>1. \A k : Latest(main, k) => k \in 1..Len(main) /\ k # 1
      BY <1>0, <1>1, <2>2, CallsDiffer DEF Latest, Fresh
    <3>2. \A k \in 2..Len(main) : k - 1 \in 1..(Len(main) - 1) /\ (k - 1) + 1 = k
      BY <2>2
    <3>3. QED BY <2>2, <3>1, <3>2
  <2>5. Typed'
    BY <1>1, <2>1 DEF Typed, svcVars, connVars, uiVars
  <2>6. Binding'
    <3>1. ASSUME NEW i \in DOMAIN main', NEW j \in DOMAIN main',
                 main'[i] = Disconnected, main'[j] = Connected
          PROVE  i < j
      <4>1. i + 1 < j + 1 BY Zenon, <2>2, <2>3, <3>1 DEF Binding
      <4>2. QED BY <4>1, <2>2
    <3>2. QED BY Zenon, <1>1, <2>1, <3>1 DEF Binding, connVars
  <2>7. Sending'
    BY Zenon, <2>1 DEF Sending, Coming, svcVars
  <2>8. Arriving'
    <3>1. /\ (\E i \in DOMAIN main' : Latest(main', i))
             <=> \E i \in DOMAIN main : Latest(main, i)
          /\ (\E i \in DOMAIN main' : Fresh(main', i))
             => \E i \in DOMAIN main : Fresh(main, i)
      BY Zenon, <2>2, <2>3, <2>4
    <3>2. \A i \in DOMAIN main' : Latest(main', i)
            => Latest(main, i + 1) /\ main'[i] = main[i + 1] /\ i + 1 \in DOMAIN main
      BY Zenon, <2>2, <2>3
    <3>3. QED BY Zenon, <2>1, <3>1, <3>2 DEF Arriving, Coming, svcVars, uiVars
  <2>9. QED BY Zenon, <2>5, <2>6, <2>7, <2>8
<1>4. QED BY Zenon, <1>2, <1>3

(* The app binds.                                                           *)
LEMMA attachStep == ConnKept(attach)
<1> SUFFICES ASSUME ConnInv, attach PROVE ConnInv'
  BY Zenon DEF ConnKept
<1> USE DEF ConnInv, attach
<1>1. CASE connectionActive
  <2>1. Typed' BY <1>1 DEF Typed, svcVars, sysVars
  <2>2. Binding' BY Zenon, <1>1, BindingKept DEF sysVars, connVars
  <2>3. Sending' BY Zenon, <1>1 DEF Sending, Coming, svcVars
  <2>4. Arriving' BY Zenon, <1>1 DEF Arriving, Coming, svcVars
  <2>5. QED BY Zenon, <2>1, <2>2, <2>3, <2>4
<1>2. CASE ~connectionActive
  <2>1. bind = "unbound" /\ bind' = "binding" BY Zenon, <1>2 DEF Binding
  <2>2. Typed' BY <1>2 DEF Typed, svcVars, sysVars
  <2>3. Binding' BY Zenon, <1>2, <2>1 DEF Binding, Has, Once, sysVars
  <2>4. Sending' BY Zenon, <2>1 DEF Sending, Coming, svcVars
  <2>5. Arriving' BY Zenon, <2>1 DEF Arriving
  <2>6. QED BY Zenon, <2>2, <2>3, <2>4, <2>5
<1>3. QED BY Zenon, <1>1, <1>2

(* Every step keeps the invariant of the connection.                        *)
LEMMA ConnStep == ConnInv /\ [Next]_vars => ConnInv'
<1> SUFFICES ASSUME ConnInv, [Next]_vars PROVE ConnInv'
  BY Zenon
<1>1. CASE UNCHANGED vars
  <2>1. Binding' BY Zenon, <1>1, BindingKept DEF ConnInv, vars, sysVars
  <2>2. Typed'
    BY <1>1 DEF ConnInv, Typed, vars, svcVars, sysVars, connVars, uiVars
  <2>3. Sending'
    BY Zenon, <1>1 DEF ConnInv, Sending, Coming, vars, svcVars, sysVars, connVars, uiVars
  <2>4. Arriving'
    BY Zenon, <1>1 DEF ConnInv, Arriving, Coming, vars, svcVars, sysVars, connVars, uiVars
  <2>5. QED BY Zenon, <2>1, <2>2, <2>3, <2>4 DEF ConnInv
<1>2. CASE Service
  <2>1. {"Connected", "Stopping", "Stopped"} \subseteq SvcState BY Zenon, StateNames
  <2>2. CASE SvcConnected \/ SvcStopping \/ SvcStopped
    BY Zenon, <2>1, <2>2, AnnounceStep DEF SvcConnected, SvcStopping, SvcStopped,
                                          ConnKept
  <2>3. QED
    BY Zenon, <1>2, <2>2, StartCommandStep, SvcAssignStep, SvcStoppedQueuedStep,
       SvcBroadcastStep, SvcDestroyedStep, SvcDiesStep DEF Service, ConnKept
<1>3. CASE App
  BY Zenon, <1>3, ReceiveStep, binderDiedStep, PostConnectedStep, PostDisconnectedStep,
     onServiceConnectedStep, ReadStateStep, stateChangedStep, onServiceDisconnectedStep,
     onBinderDiedStep, attachStep, detachStep DEF App, ConnKept
<1>4. QED BY Zenon, <1>1, <1>2, <1>3 DEF Next

(* ConnInv is inductive: whatever the service, the system, the binder       *)
(* threads and the main thread do to the connection, in any order.          *)
THEOREM ConnInvariant == MCSpec => []ConnInv
<1>1. MCInit => ConnInv
  BY Zenon, ConnInit DEF MCInit
<1>2. ConnInv /\ [MCNext]_all => ConnInv'
  <2>1. [MCNext]_all => [Next]_vars
    BY Zenon DEF MCNext, all
  <2>2. QED BY Zenon, <2>1, ConnStep
<1>3. QED BY <1>1, <1>2, PTL DEF MCSpec

(* The app that is registered has the service's state once nothing is on    *)
(* the way, but for the two exceptions that SyncedUnlessMissed names: for   *)
(* any number of deaths of the service's process and of calls on the way.   *)
THEOREM Synced == MCSpec => []SyncedUnlessMissed
<1>1. ConnInv => SyncedUnlessMissed
  <2> SUFFICES ASSUME ConnInv, bind = "bound", ~inConnected, wire = <<>>, main = <<>>,
                      announced = None, queued = None, ~missed
               PROVE  mSsState = svcState
    BY Zenon DEF SyncedUnlessMissed
  <2>1. \A i \in DOMAIN main : FALSE OBVIOUS
  <2>2. QED BY Zenon, <2>1 DEF ConnInv, Arriving, Coming
<1>2. QED BY <1>1, ConnInvariant, PTL

(* check(!callbackRegistered) and callback!! in onServiceConnected, and     *)
(* check(this.callback == null) in connect, hold whenever they are reached, *)
(* in whatever order the news of a death arrive.                            *)
THEOREM Checks == MCSpec => []ChecksHold
<1>1. ConnInv => ChecksHold
  <2> SUFFICES ASSUME ConnInv PROVE ChecksHold
    BY Zenon
  <2> USE DEF ConnInv
  <2>1. ASSUME Take({"onServiceConnected"}) PROVE ~callbackRegistered /\ callback
    <3>1. main # <<>> /\ Head(main) = Connected BY Zenon, <2>1 DEF Take, Connected
    <3>2. 1 \in DOMAIN main /\ main[1] = Connected
      BY Zenon, <3>1, CallsLeft DEF Typed
    <3>3. bind = "posted" BY Zenon, <3>2 DEF Binding, Has
    <3>4. ~Has(main, Disconnected) BY <3>2 DEF Binding, Has, Typed
    <3>5. QED BY Zenon, <3>3, <3>4 DEF Binding
  <2>2. ~connectionActive => ~callback BY Zenon DEF Binding
  <2>3. QED BY Zenon, <2>1, <2>2, TypedOK DEF ChecksHold
<1>2. QED BY <1>1, ConnInvariant, PTL

-----------------------------------------------------------------------------
(* The traffic.                                                             *)
Dir == {"tx", "rx"}
Count == 0..MaxBytes
Change == (-MaxBytes)..MaxBytes
Bytes == [Dir -> Count]
NoBytes == [d \in Dir |-> 0]
Below(a, b) == \A d \in Dir : a[d] <= b[d]

(* TypeOK, kind by kind, with what keeps the numbers in their range: no     *)
(* more is transferred than MaxBytes, and sslocal counts from its start.    *)
Sent ==
  /\ session \in Bytes /\ before \in Bytes
  /\ session["tx"] + session["rx"] <= MaxBytes /\ Below(before, session)
  /\ restarts \in 0..MaxRestarts
  /\ pipe = <<>> \/ \E s, a \in Bytes : pipe = <<[sum |-> s, all |-> a]>>

Taken ==
  /\ msg \in Bytes /\ current \in Bytes /\ seen \in Bytes
  /\ sock \in {"tx", "rx", "accept", "markTx", "markRx", "ended"}

Told ==
  /\ out \in Bytes /\ rate \in [Dir -> Change]
  /\ listeners \in Bytes \X [Dir -> Change]
  /\ monitor \in {"idle", "copyTx", "copyRx", "clear", "fetched"}

Flags ==
  /\ dirty \in BOOLEAN /\ inSession \in BOOLEAN /\ remarked \in BOOLEAN
  /\ unseen \in BOOLEAN /\ late \in BOOLEAN /\ overtaken \in BOOLEAN /\ reset \in BOOLEAN

Counting == Sent /\ Taken /\ Told /\ Flags

(* Totals are persisted twice at most, and never on top of two others.      *)
Ledger ==
  /\ persisted \in Seq(Bytes) /\ Len(persisted) <= 2
  /\ row \in [edit : {0, 1}, sum : [Dir -> 0..(2 * MaxBytes)]]
  /\ fetched \in [edit : {0, 1}, sum : [Dir -> 0..(2 * MaxBytes)]]
  /\ inSession \/ monitor = "fetched" => Len(persisted) <= 1
  /\ inSession /\ monitor = "fetched" => Len(persisted) = 0
  /\ Len(persisted) = 0 => row.sum = NoBytes
  /\ Len(persisted) = 1 => row.sum \in Bytes
  /\ monitor = "fetched" => fetched.sum \in Bytes
  /\ monitor = "fetched" /\ Len(persisted) = 0 => fetched.sum = NoBytes
  /\ ~inSession /\ monitor # "fetched" => monitor = "idle"
  /\ monitor = "fetched" /\ row.edit = 1 /\ ~overtaken => fetched.edit = 1

(* What the flag promises: out is current but for what the flag, or a flag  *)
(* set meanwhile, will bring.  The listeners know out at rest.              *)
Flagged ==
  LET Settled == sock \notin {"markTx", "markRx"}
  IN /\ monitor \in {"idle", "fetched"} /\ ~unseen /\ ~dirty /\ Settled => out = current
     /\ monitor = "copyRx" /\ ~remarked /\ Settled => out["tx"] = current["tx"]
     /\ monitor = "clear" /\ ~remarked /\ Settled => out = current
     /\ monitor \in {"idle", "fetched"} => listeners = <<out, rate>>

(* Without a restart, numbers only grow on their way to the listeners, and  *)
(* what a report says is what it accounts for.                              *)
Grown ==
  restarts = 0 =>
    /\ before = NoBytes /\ seen = msg
    /\ Below(out, current) /\ Below(current, msg) /\ Below(msg, session)
    /\ \A d \in Dir : rate[d] >= 0
    /\ pipe # <<>> => /\ pipe[1].all = pipe[1].sum
                      /\ Below(msg, pipe[1].sum) /\ Below(pipe[1].sum, session)

(* What is stored of a report, and what was persisted at the end.           *)
Stored ==
  /\ sock # "tx" => current["tx"] = msg["tx"]
  /\ sock \notin {"tx", "markTx", "rx"} => current["rx"] = msg["rx"]
  /\ ~inSession /\ monitor = "idle" /\ Len(persisted) = 1 /\ restarts = 0 /\ ~late /\ ~reset
       => sock \in {"accept", "ended"} /\ row.sum = seen

TrafficInv == Counting /\ Ledger /\ Flagged /\ Grown /\ Stored

(* The action A keeps it.                                                   *)
TrafficKept(A) == TrafficInv /\ A => TrafficInv'

(* Each part is kept while its variables are.                               *)
LEMMA SentSame == Sent /\ UNCHANGED <<session, before, restarts, pipe>> => Sent'
  BY DEF Sent

(* Taken depends on these variables only.                                   *)
LEMMA TakenSame == Taken /\ UNCHANGED <<msg, current, seen, sock>> => Taken'
  BY DEF Taken

(* Told depends on these variables only.                                    *)
LEMMA ToldSame == Told /\ UNCHANGED <<out, rate, listeners, monitor>> => Told'
  BY DEF Told

(* Flags depends on these variables only.                                   *)
LEMMA FlagsSame ==
  Flags /\ UNCHANGED <<dirty, inSession, remarked, unseen, late, overtaken, reset>> => Flags'
  BY Zenon DEF Flags

(* Ledger depends on these variables only.                                  *)
LEMMA LedgerSame ==
  Ledger /\ UNCHANGED <<persisted, row, fetched, inSession, monitor, overtaken>> => Ledger'
  BY DEF Ledger

(* Flagged depends on these variables only.                                 *)
LEMMA FlaggedSame ==
  Flagged /\ UNCHANGED <<sock, monitor, unseen, dirty, out, current, remarked, listeners,
                         rate>> => Flagged'
  BY DEF Flagged

(* Grown depends on these variables only.                                   *)
LEMMA GrownSame ==
  Grown /\ UNCHANGED <<restarts, before, seen, msg, out, current, session, rate, pipe>>
    => Grown'
  BY Zenon DEF Grown

(* Stored depends on these variables only.                                  *)
LEMMA StoredSame ==
  Stored /\ UNCHANGED <<sock, current, msg, inSession, monitor, persisted, restarts, late,
                        reset, row, seen>> => Stored'
  BY DEF Stored

(* A report that is under way says two byte counts.                         *)
LEMMA PipeBytes ==
  ASSUME Counting, pipe # <<>>
  PROVE  Head(pipe) = pipe[1] /\ pipe[1].sum \in Bytes /\ pipe[1].all \in Bytes
<1>1. PICK s, a \in Bytes : pipe = <<[sum |-> s, all |-> a]>>
  BY Zenon DEF Counting, Sent
<1>2. Head(pipe) = pipe[1] /\ pipe[1].sum = s /\ pipe[1].all = a
  BY <1>1
<1>3. QED BY Zenon, <1>1, <1>2

(* Counts are compared in both directions.                                  *)
LEMMA BelowWays ==
  ASSUME NEW a, NEW b
  PROVE  Below(a, b) <=> a["tx"] <= b["tx"] /\ a["rx"] <= b["rx"]
  BY Zenon DEF Below, Dir

(* Counts are equal when they are in both directions.                       *)
LEMMA BytesWays ==
  ASSUME NEW a \in Bytes
  PROVE  /\ a["tx"] \in 0..MaxBytes /\ a["rx"] \in 0..MaxBytes
         /\ DOMAIN a = Dir
         /\ \A b \in Bytes : a["tx"] = b["tx"] /\ a["rx"] = b["rx"] => a = b
         /\ \A d \in Dir, n \in 0..MaxBytes : [a EXCEPT ![d] = n] \in Bytes
  BY DEF Bytes, Dir, Count

(* The order of the counts.                                                 *)
LEMMA BytesBelow ==
  ASSUME NEW a \in Bytes, NEW b \in Bytes, NEW c \in Bytes
  PROVE  Below(a, a) /\ (Below(a, b) /\ Below(b, c) => Below(a, c))
<1>1. /\ a["tx"] \in 0..MaxBytes /\ a["rx"] \in 0..MaxBytes
      /\ b["tx"] \in 0..MaxBytes /\ b["rx"] \in 0..MaxBytes
      /\ c["tx"] \in 0..MaxBytes /\ c["rx"] \in 0..MaxBytes
  BY Zenon, BytesWays
<1>2. QED BY <1>1, BelowWays, TrafficAssumption

(* The invariant implies the kinds of the variables.                        *)
LEMMA CountedKinds == Counting /\ Ledger => Traffic!TypeOK
<1> SUFFICES ASSUME Counting, Ledger PROVE Traffic!TypeOK
  BY Zenon
<1>1. pipe = <<>> \/ pipe \in Seq([sum : Bytes, all : Bytes])
  <2>1. \A s, a \in Bytes : <<[sum |-> s, all |-> a]>> \in Seq([sum : Bytes, all : Bytes])
    OBVIOUS
  <2>2. QED BY Zenon, <2>1 DEF Counting, Sent
<1>2. QED
  BY <1>1 DEF Counting, Sent, Taken, Told, Flags, Ledger, Bytes, Dir, Count, Change,
              Traffic!TypeOK, Traffic!Dir, Traffic!Count, Traffic!Change

(* The counts at first.                                                     *)
LEMMA ZeroBytes ==
  /\ NoBytes \in Bytes /\ NoBytes \in [Dir -> Change] /\ NoBytes \in [Dir -> 0..(2 * MaxBytes)]
  /\ NoBytes["tx"] = 0 /\ NoBytes["rx"] = 0 /\ \A d \in Dir : NoBytes[d] >= 0
<1>1. 0 \in Count /\ 0 \in Change /\ 0 \in 0..(2 * MaxBytes) /\ 0 >= 0
  BY TrafficAssumption DEF Count, Change
<1>2. QED BY Zenon, <1>1 DEF NoBytes, Bytes, Dir

(* The invariant of the traffic holds at first.                             *)
LEMMA TrafficInit == Traffic!Init => TrafficInv
<1> SUFFICES ASSUME Traffic!Init PROVE TrafficInv
  BY Zenon
<1>0. /\ session = NoBytes /\ before = NoBytes /\ restarts = 0 /\ pipe = <<>>
      /\ msg = NoBytes /\ sock = "accept" /\ current = NoBytes /\ seen = NoBytes
      /\ monitor = "idle" /\ out = NoBytes /\ rate = NoBytes /\ listeners = <<NoBytes, NoBytes>>
      /\ dirty = FALSE /\ inSession = TRUE /\ remarked = FALSE /\ unseen = FALSE
      /\ late = FALSE /\ overtaken = FALSE /\ reset = FALSE
      /\ row = [edit |-> 0, sum |-> NoBytes] /\ fetched = row /\ persisted = <<>>
  BY Zenon DEF Traffic!Init, Traffic!Zero, Traffic!Dir, NoBytes, Dir
<1>1. Below(NoBytes, NoBytes)
  BY Zenon, ZeroBytes, BytesBelow
<1>2. Counting
  <2>1. 0 + 0 <= MaxBytes /\ 0 \in 0..MaxRestarts BY TrafficAssumption
  <2>2. Sent BY Zenon, <1>0, <1>1, <2>1, ZeroBytes DEF Sent
  <2>3. Taken BY Zenon, <1>0, ZeroBytes DEF Taken
  <2>4. Told BY Zenon, <1>0, ZeroBytes DEF Told
  <2>5. Flags BY Zenon, <1>0 DEF Flags
  <2>6. QED BY Zenon, <2>2, <2>3, <2>4, <2>5 DEF Counting
<1>3. Ledger
  <2>1. row \in [edit : {0, 1}, sum : [Dir -> 0..(2 * MaxBytes)]] /\ row.sum = NoBytes
    BY Zenon, <1>0, ZeroBytes
  <2>2. persisted \in Seq(Bytes) /\ Len(persisted) = 0 /\ Len(persisted) <= 1
        /\ Len(persisted) <= 2
    BY <1>0
  <2>3. QED BY Zenon, <1>0, <2>1, <2>2, ZeroBytes DEF Ledger
<1>4. Flagged
  BY Zenon, <1>0 DEF Flagged
<1>5. Stored
  BY Zenon, <1>0 DEF Stored
<1>6. Grown
  BY Zenon, <1>0, <1>1, ZeroBytes DEF Grown
<1>7. QED BY Zenon, <1>2, <1>3, <1>4, <1>5, <1>6 DEF TrafficInv

(* Bytes are transferred.                                                   *)
LEMMA TransferStep ==
  ASSUME NEW d \in Traffic!Dir
  PROVE  TrafficKept(Traffic!Transfer(d))
<1> SUFFICES ASSUME TrafficInv, Traffic!Transfer(d) PROVE TrafficInv'
  BY Zenon DEF TrafficKept
<1> USE DEF TrafficInv
<1>0. /\ session["tx"] + session["rx"] < MaxBytes
      /\ session' = [session EXCEPT ![d] = session[d] + 1]
      /\ UNCHANGED <<before, restarts, pipe, msg, sock, current, seen, dirty, monitor,
                     out, rate, listeners, remarked, unseen, inSession, row, fetched,
                     persisted, late, overtaken, reset>>
  BY Zenon DEF Traffic!Transfer, Traffic!sockVars, Traffic!outVars, Traffic!endVars
<1>1. /\ session' \in Bytes /\ session'["tx"] + session'["rx"] <= MaxBytes
      /\ Below(session, session')
  <2>1. d \in Dir /\ session \in Bytes /\ session["tx"] + session["rx"] < MaxBytes
        /\ session["tx"] \in 0..MaxBytes /\ session["rx"] \in 0..MaxBytes
        /\ DOMAIN session = Dir
    BY Zenon, <1>0, BytesWays DEF Counting, Sent, Traffic!Dir, Dir
  <2>2. session[d] + 1 \in 0..MaxBytes
    BY <2>1, TrafficAssumption DEF Dir
  <2>3. session' \in Bytes
    BY Zenon, <1>0, <2>1, <2>2, BytesWays
  <2>4. \/ session'["tx"] = session["tx"] + 1 /\ session'["rx"] = session["rx"]
        \/ session'["tx"] = session["tx"] /\ session'["rx"] = session["rx"] + 1
    BY Zenon, <1>0, <2>1 DEF Dir
  <2> HIDE DEF TrafficInv
  <2>5. QED BY <2>1, <2>3, <2>4, BelowWays, TrafficAssumption
<1>2. \A a \in Bytes : Below(a, session) => Below(a, session')
  BY Zenon, <1>1, BytesBelow DEF Counting, Sent
<1>3. Counting'
  <2>1. Below(before, session') BY Zenon, <1>2 DEF Counting, Sent
  <2>2. Sent' BY Zenon, <1>0, <1>1, <2>1 DEF Counting, Sent
  <2>3. Taken' /\ Told' /\ Flags' BY Zenon, <1>0, TakenSame, ToldSame, FlagsSame DEF Counting
  <2>4. QED BY Zenon, <2>2, <2>3 DEF Counting
<1>4. Ledger' /\ Flagged' /\ Stored'
  BY Zenon, <1>0, LedgerSame, FlaggedSame, StoredSame
<1>5. Grown'
  <2>1. pipe # <<>> => pipe[1].sum \in Bytes BY Zenon, PipeBytes
  <2>2. QED BY Zenon, <1>0, <1>2, <2>1 DEF Grown, Counting, Sent, Taken
<1>6. QED BY Zenon, <1>3, <1>4, <1>5

(* The process reports its counts.                                          *)
LEMMA ReportStep == TrafficKept(Traffic!Report)
<1> SUFFICES ASSUME TrafficInv, Traffic!Report PROVE TrafficInv'
  BY Zenon DEF TrafficKept
<1> USE DEF TrafficInv
<1> DEFINE sum == [d \in Dir |-> session[d] - before[d]]
<1>0. /\ pipe' = <<[sum |-> sum, all |-> session]>>
      /\ UNCHANGED <<session, before, restarts, msg, sock, current, seen, dirty, monitor,
                     out, rate, listeners, remarked, unseen, inSession, row, fetched,
                     persisted, late, overtaken, reset>>
  BY Zenon DEF Traffic!Report, Traffic!Dir, Dir, Traffic!genVars, Traffic!outVars, Traffic!endVars
<1>1. /\ sum \in Bytes
      /\ before = NoBytes => sum = session
  <2>1. /\ session["tx"] \in 0..MaxBytes /\ session["rx"] \in 0..MaxBytes
        /\ before["tx"] \in 0..MaxBytes /\ before["rx"] \in 0..MaxBytes
        /\ before["tx"] <= session["tx"] /\ before["rx"] <= session["rx"]
        /\ DOMAIN session = Dir /\ session \in Bytes
    BY Zenon, BytesWays, BelowWays DEF Counting, Sent
  <2> HIDE DEF TrafficInv
  <2>2. sum["tx"] \in 0..MaxBytes /\ sum["rx"] \in 0..MaxBytes
    BY <2>1, TrafficAssumption DEF Dir
  <2>3. sum \in Bytes
    BY Zenon, <2>2 DEF Bytes, Dir, Count
  <2>4. before = NoBytes => sum["tx"] = session["tx"] /\ sum["rx"] = session["rx"]
    BY <2>1 DEF NoBytes, Dir
  <2>5. QED BY Zenon, <2>1, <2>3, <2>4, BytesWays
<1> HIDE DEF sum
<1>2. Counting'
  <2>1. Sent' BY Zenon, <1>0, <1>1 DEF Counting, Sent
  <2>2. Taken' BY Zenon, <1>0, TakenSame DEF Counting
  <2>3. Told' BY Zenon, <1>0, ToldSame DEF Counting
  <2>4. Flags' BY Zenon, <1>0, FlagsSame DEF Counting
  <2>5. QED BY Zenon, <2>1, <2>2, <2>3, <2>4 DEF Counting
<1>3. Ledger' /\ Flagged' /\ Stored'
  BY Zenon, <1>0, LedgerSame, FlaggedSame, StoredSame
<1>4. Grown'
  <2>1. Below(session, session)
    BY Zenon, BytesBelow DEF Counting, Sent
  <2>2. pipe'[1].sum = sum /\ pipe'[1].all = session
    BY Zenon, <1>0
  <2>3. QED BY Zenon, <1>0, <1>1, <2>1, <2>2 DEF Grown
<1>5. QED BY Zenon, <1>2, <1>3, <1>4

(* The process is started again, with counts of zero.                       *)
LEMMA RestartStep == TrafficKept(Traffic!Restart)
<1> SUFFICES ASSUME TrafficInv, Traffic!Restart PROVE TrafficInv'
  BY Zenon DEF TrafficKept
<1> USE DEF TrafficInv
<1>0. /\ restarts < MaxRestarts /\ restarts' = restarts + 1 /\ before' = session /\ inSession
      /\ UNCHANGED <<session, pipe, msg, sock, current, seen, dirty, monitor,
                     out, rate, listeners, remarked, unseen, inSession, row, fetched,
                     persisted, late, overtaken, reset>>
  BY Zenon DEF Traffic!Restart, Traffic!sockVars, Traffic!outVars, Traffic!endVars
<1>1. restarts' \in 0..MaxRestarts /\ restarts' # 0
  BY <1>0, TrafficAssumption DEF Counting, Sent
<1>2. Below(session, session)
  BY Zenon, BytesBelow DEF Counting, Sent
<1>3. Counting'
  <2>1. Sent' BY Zenon, <1>0, <1>1, <1>2 DEF Counting, Sent
  <2>2. Taken' BY Zenon, <1>0, TakenSame DEF Counting
  <2>3. Told' BY Zenon, <1>0, ToldSame DEF Counting
  <2>4. Flags' BY Zenon, <1>0, FlagsSame DEF Counting
  <2>5. QED BY Zenon, <2>1, <2>2, <2>3, <2>4 DEF Counting
<1>4. Ledger' /\ Flagged' /\ Grown' /\ Stored'
  <2>1. Ledger' /\ Flagged' BY Zenon, <1>0, LedgerSame, FlaggedSame
  <2>2. Grown' /\ Stored' BY Zenon, <1>0, <1>1 DEF Grown, Stored
  <2>3. QED BY Zenon, <2>1, <2>2
<1>5. QED BY Zenon, <1>3, <1>4

(* The service receives a report.                                           *)
LEMMA TakenStep == TrafficKept(Traffic!Receive)
<1> SUFFICES ASSUME TrafficInv, Traffic!Receive PROVE TrafficInv'
  BY Zenon DEF TrafficKept
<1> USE DEF TrafficInv
<1>0. /\ sock = "accept" /\ inSession /\ pipe # <<>> /\ pipe' = <<>>
      /\ \/ msg' = Head(pipe).sum /\ seen' = Head(pipe).all /\ sock' = "tx"
         \/ UNCHANGED <<msg, seen, sock>>
      /\ UNCHANGED <<session, before, restarts, current, dirty, monitor,
                     out, rate, listeners, remarked, unseen, inSession, row, fetched,
                     persisted, late, overtaken, reset>>
  BY Zenon DEF Traffic!Receive, Traffic!genVars, Traffic!outVars, Traffic!endVars
<1>1. /\ Head(pipe) = pipe[1] /\ pipe[1].sum \in Bytes /\ pipe[1].all \in Bytes
  BY Zenon, <1>0, PipeBytes
<1>2. Counting'
  <2>1. Sent' BY Zenon, <1>0 DEF Counting, Sent
  <2>2. Taken' BY Zenon, <1>0, <1>1 DEF Counting, Taken
  <2>3. Told' BY Zenon, <1>0, ToldSame DEF Counting
  <2>4. Flags' BY Zenon, <1>0, FlagsSame DEF Counting
  <2>5. QED BY Zenon, <2>1, <2>2, <2>3, <2>4 DEF Counting
<1>3. Ledger' /\ Flagged' /\ Stored'
  <2>1. Ledger' BY Zenon, <1>0, LedgerSame
  <2>2. Flagged' BY Zenon, <1>0 DEF Flagged
  <2>3. Stored' BY Zenon, <1>0 DEF Stored
  <2>4. QED BY Zenon, <2>1, <2>2, <2>3
<1>4. Grown'
  <2>1. CASE UNCHANGED <<msg, seen, sock>>
    BY Zenon, <1>0, <2>1 DEF Grown
  <2>2. CASE msg' = Head(pipe).sum /\ seen' = Head(pipe).all /\ sock' = "tx"
    <3>1. current \in Bytes /\ msg \in Bytes BY Zenon DEF Counting, Taken
    <3>2. restarts = 0 => Below(current, msg) /\ Below(msg, pipe[1].sum)
      BY Zenon, <1>0 DEF Grown
    <3>3. restarts = 0 => Below(current, pipe[1].sum)
      <4>1. PICK b \in Bytes : b = pipe[1].sum BY Zenon, <1>1
      <4>2. Below(current, msg) /\ Below(msg, b) => Below(current, b)
        BY Zenon, <3>1, BytesBelow
      <4>3. QED BY Zenon, <3>2, <4>1, <4>2
    <3>4. QED BY Zenon, <1>0, <1>1, <2>2, <3>3 DEF Grown
  <2>3. QED BY Zenon, <1>0, <2>1, <2>2
<1>5. QED BY Zenon, <1>2, <1>3, <1>4

(* It stores a count in one direction.                                      *)
LEMMA StoreStep ==
  ASSUME NEW d \in Traffic!Dir
  PROVE  TrafficKept(Traffic!Store(d))
<1> SUFFICES ASSUME TrafficInv, Traffic!Store(d) PROVE TrafficInv'
  BY Zenon DEF TrafficKept
<1> USE DEF TrafficInv
<1>0. /\ d \in Dir /\ sock = d
      /\ IF current[d] # msg[d]
         THEN /\ current' = [current EXCEPT ![d] = msg[d]]
              /\ sock' = IF d = "tx" THEN "markTx" ELSE "markRx"
         ELSE current' = current /\ sock' = IF d = "tx" THEN "rx" ELSE "accept"
      /\ UNCHANGED <<session, before, restarts, pipe, msg, seen, dirty, monitor,
                     out, rate, listeners, remarked, unseen, inSession, row, fetched,
                     persisted, late, overtaken, reset>>
  BY Zenon DEF Traffic!Store, Traffic!After, Traffic!Marking, Traffic!Dir, Dir,
         Traffic!genVars, Traffic!outVars, Traffic!endVars
<1>1. /\ current \in Bytes /\ msg \in Bytes /\ d \in {"tx", "rx"}
      /\ current["tx"] \in 0..MaxBytes /\ current["rx"] \in 0..MaxBytes
      /\ msg["tx"] \in 0..MaxBytes /\ msg["rx"] \in 0..MaxBytes
      /\ DOMAIN current = Dir
  BY Zenon, <1>0, BytesWays DEF Counting, Taken, Dir
<1>2. /\ current' \in Bytes
      /\ d = "tx" => current'["tx"] = msg["tx"] /\ current'["rx"] = current["rx"]
      /\ d = "rx" => current'["tx"] = current["tx"] /\ current'["rx"] = msg["rx"]
  <2>1. CASE current[d] # msg[d]
    <3>1. msg[d] \in 0..MaxBytes BY Zenon, <1>0, <1>1 DEF Bytes, Count
    <3>2. current' \in Bytes
      <4>1. [current EXCEPT ![d] = msg[d]] \in Bytes BY Zenon, <1>0, <1>1, <3>1 DEF Bytes, Count
      <4>2. QED BY Zenon, <4>1, <1>0, <2>1
    <3>3. current'[d] = msg[d] /\ \A e \in Dir \ {d} : current'[e] = current[e]
      BY Zenon, <1>0, <1>1, <2>1
    <3>4. QED BY Zenon, <1>1, <3>2, <3>3 DEF Dir
  <2>2. CASE current[d] = msg[d]
    BY Zenon, <1>0, <1>1, <2>2
  <2>3. QED BY Zenon, <2>1, <2>2
<1>3. sock' \in {"rx", "accept", "markTx", "markRx"}
  BY Zenon, <1>0
<1>4. Counting'
  <2>1. Taken' BY Zenon, <1>0, <1>2, <1>3 DEF Counting, Taken
  <2>2. Sent' BY Zenon, <1>0, SentSame DEF Counting
  <2>3. Told' BY Zenon, <1>0, ToldSame DEF Counting
  <2>4. Flags' BY Zenon, <1>0, FlagsSame DEF Counting
  <2>5. QED BY Zenon, <2>1, <2>2, <2>3, <2>4 DEF Counting
<1>5. Ledger'
  BY Zenon, <1>0 DEF Ledger
<1>6. Flagged'
  BY Zenon, <1>0, <1>1 DEF Flagged
<1>7. Grown'
  <2>1. ASSUME restarts = 0 PROVE Below(out, current') /\ Below(current', msg)
    <3>1. Below(out, current) /\ Below(current, msg) /\ out \in Bytes
      BY Zenon, <2>1 DEF Grown, Counting, Told
    <3>2. out["tx"] \in 0..MaxBytes /\ out["rx"] \in 0..MaxBytes BY Zenon, <3>1, BytesWays
    <3> HIDE DEF TrafficInv
    <3>3. QED BY <1>1, <1>2, <3>1, <3>2, BelowWays, TrafficAssumption
  <2>2. QED BY Zenon, <1>0, <2>1 DEF Grown
<1>8. Stored'
  <2>1. ~(~inSession /\ monitor = "idle" /\ Len(persisted) = 1 /\ restarts = 0 /\ ~late /\ ~reset)
    BY Zenon, <1>0, <1>1 DEF Stored
  <2>2. QED BY Zenon, <1>0, <1>1, <1>2, <2>1 DEF Stored
<1>9. QED BY Zenon, <1>4, <1>5, <1>6, <1>7, <1>8

(* It sets dirty after a direction.                                         *)
LEMMA MarkStep ==
  ASSUME NEW d \in Traffic!Dir
  PROVE  TrafficKept(Traffic!Mark(d))
<1> SUFFICES ASSUME TrafficInv, Traffic!Mark(d) PROVE TrafficInv'
  BY Zenon DEF TrafficKept
<1> USE DEF TrafficInv
<1>0. /\ d \in {"tx", "rx"} /\ sock = IF d = "tx" THEN "markTx" ELSE "markRx"
      /\ sock' = IF d = "tx" THEN "rx" ELSE "accept"
      /\ dirty' = TRUE /\ remarked' = (remarked \/ monitor # "idle")
      /\ UNCHANGED <<session, before, restarts, pipe, msg, seen, current, monitor,
                     out, rate, listeners, unseen, inSession, row, fetched,
                     persisted, late, overtaken, reset>>
  BY Zenon DEF Traffic!Mark, Traffic!SetDirty, Traffic!After, Traffic!Marking, Traffic!Dir,
         Traffic!genVars, Traffic!endVars
<1>1. dirty' \in BOOLEAN /\ remarked' \in BOOLEAN
  BY <1>0, Zenon
<1>2. Counting'
  <2>1. Taken' BY Zenon, <1>0 DEF Counting, Taken
  <2>2. Flags' BY Zenon, <1>0, <1>1 DEF Counting, Flags
  <2>3. Sent' BY Zenon, <1>0, SentSame DEF Counting
  <2>4. Told' BY Zenon, <1>0, ToldSame DEF Counting
  <2>5. QED BY Zenon, <2>1, <2>2, <2>3, <2>4 DEF Counting
<1>3. Ledger' /\ Grown'
  BY Zenon, <1>0, LedgerSame, GrownSame
<1>4. Flagged' /\ Stored'
  BY Zenon, <1>0 DEF Flagged, Stored
<1>5. QED BY Zenon, <1>2, <1>3, <1>4

(* The thread that reads the reports ends.                                  *)
LEMMA ThreadEndsStep == TrafficKept(Traffic!ThreadEnds)
<1> SUFFICES ASSUME TrafficInv, Traffic!ThreadEnds PROVE TrafficInv'
  BY Zenon DEF TrafficKept
<1>1. /\ sock = "accept" /\ sock' = "ended"
      /\ UNCHANGED <<session, before, restarts, pipe, msg, seen, current, dirty, monitor,
                     out, rate, listeners, remarked, unseen, inSession, row, fetched,
                     persisted, late, overtaken, reset>>
  BY Zenon DEF Traffic!ThreadEnds, Traffic!genVars, Traffic!outVars, Traffic!endVars
<1>2. Counting'
  <2>1. Taken' BY Zenon, <1>1 DEF TrafficInv, Counting, Taken
  <2>2. Sent' BY Zenon, <1>1, SentSame DEF TrafficInv, Counting
  <2>3. Told' BY Zenon, <1>1, ToldSame DEF TrafficInv, Counting
  <2>4. Flags' BY Zenon, <1>1, FlagsSame DEF TrafficInv, Counting
  <2>5. QED BY Zenon, <2>1, <2>2, <2>3, <2>4 DEF Counting
<1>3. Ledger' /\ Grown'
  BY Zenon, <1>1, LedgerSame, GrownSame DEF TrafficInv
<1>4. Flagged' /\ Stored'
  BY Zenon, <1>1 DEF TrafficInv, Flagged, Stored
<1>5. QED BY Zenon, <1>2, <1>3, <1>4 DEF TrafficInv

(* The monitor is asked for the traffic.                                    *)
LEMMA RequestStep == TrafficKept(Traffic!Request)
<1> SUFFICES ASSUME TrafficInv, Traffic!Request PROVE TrafficInv'
  BY Zenon DEF TrafficKept
<1> USE DEF TrafficInv
<1>0. /\ monitor = "idle" /\ inSession
      /\ UNCHANGED <<session, before, restarts, pipe, msg, sock, current, seen, dirty, out,
                     unseen, inSession, row, fetched, persisted, late, overtaken, reset>>
  BY Zenon DEF Traffic!Request, Traffic!genVars, Traffic!sockVars, Traffic!endVars
<1>1. CASE /\ dirty /\ monitor' = "copyTx" /\ remarked' = FALSE
           /\ UNCHANGED <<rate, listeners>>
  <2>1. remarked' \in BOOLEAN BY <1>1, Zenon
  <2>2. Counting'
    <3>1. Told' BY Zenon, <1>0, <1>1 DEF Counting, Told
    <3>2. Flags' BY Zenon, <1>0, <2>1 DEF Counting, Flags
    <3>3. Sent' BY Zenon, <1>0, SentSame DEF Counting
    <3>4. Taken' BY Zenon, <1>0, TakenSame DEF Counting
    <3>5. QED BY Zenon, <3>1, <3>2, <3>3, <3>4 DEF Counting
  <2>3. Ledger' BY <1>0, <1>1 DEF Ledger
  <2>4. Flagged' BY Zenon, <1>0, <1>1 DEF Flagged
  <2>5. Grown' BY Zenon, <1>0, <1>1, GrownSame
  <2>6. Stored' BY Zenon, <1>0, <1>1 DEF Stored
  <2>7. QED BY Zenon, <2>2, <2>3, <2>4, <2>5, <2>6
<1>2. CASE /\ ~dirty /\ rate' = NoBytes /\ UNCHANGED <<monitor, remarked>>
           /\ listeners' = IF rate # NoBytes THEN <<out, NoBytes>> ELSE listeners
  <2>1. NoBytes \in [Dir -> Change] /\ \A d \in Dir : NoBytes[d] >= 0
    BY Zenon, ZeroBytes
  <2>2. listeners' = <<out, NoBytes>>
    BY Zenon, <1>0, <1>2 DEF Flagged
  <2>3. Counting'
    <3>1. Told' BY <1>0, <1>2, <2>1, <2>2 DEF Counting, Told
    <3>2. Sent' BY Zenon, <1>0, SentSame DEF Counting
    <3>3. Taken' BY Zenon, <1>0, TakenSame DEF Counting
    <3>4. Flags' BY Zenon, <1>0, <1>2, FlagsSame DEF Counting
    <3>5. QED BY Zenon, <3>1, <3>2, <3>3, <3>4 DEF Counting
  <2>4. Ledger' BY Zenon, <1>0, <1>2, LedgerSame
  <2>5. Flagged' BY Zenon, <1>0, <1>2, <2>2 DEF Flagged
  <2>6. Grown' BY Zenon, <1>0, <1>2, <2>1 DEF Grown
  <2>7. Stored' BY Zenon, <1>0, <1>2, StoredSame
  <2>8. QED BY Zenon, <2>3, <2>4, <2>5, <2>6, <2>7
<1>3. QED
  <2>1. Traffic!Zero = NoBytes BY Zenon DEF NoBytes, Dir, Traffic!Zero, Traffic!Dir
  <2>2. QED BY Zenon, <1>1, <1>2, <2>1 DEF Traffic!Request, Traffic!RatesChange

(* The monitor copies the count of a direction.                             *)
LEMMA CopyStep ==
  ASSUME NEW d \in Traffic!Dir
  PROVE  TrafficKept(Traffic!Copy(d))
<1> SUFFICES ASSUME TrafficInv, Traffic!Copy(d) PROVE TrafficInv'
  BY Zenon DEF TrafficKept
<1> USE DEF TrafficInv
<1>0. /\ d \in {"tx", "rx"} /\ d \in Dir
      /\ monitor = IF d = "tx" THEN "copyTx" ELSE "copyRx"
      /\ monitor' = IF d = "tx" THEN "copyRx" ELSE "clear"
      /\ rate' = [rate EXCEPT ![d] = current[d] - out[d]]
      /\ out' = [out EXCEPT ![d] = current[d]]
      /\ UNCHANGED <<session, before, restarts, pipe, msg, sock, current, seen, dirty,
                     listeners, remarked, unseen, inSession, row, fetched, persisted,
                     late, overtaken, reset>>
  BY Zenon DEF Traffic!Copy, Traffic!Growth, Traffic!Copying, Traffic!Dir, Dir,
         Traffic!genVars, Traffic!sockVars, Traffic!endVars
<1>1. /\ current \in Bytes /\ out \in Bytes
      /\ current["tx"] \in 0..MaxBytes /\ current["rx"] \in 0..MaxBytes
      /\ out["tx"] \in 0..MaxBytes /\ out["rx"] \in 0..MaxBytes
      /\ current[d] \in 0..MaxBytes /\ out[d] \in 0..MaxBytes
      /\ DOMAIN out = Dir
  BY Zenon, <1>0, BytesWays DEF Counting, Taken, Told
<1>2. /\ out' \in Bytes /\ out'[d] = current[d]
      /\ \A e \in Dir \ {d} : out'[e] = out[e]
  <2>1. [out EXCEPT ![d] = current[d]] \in Bytes BY Zenon, <1>0, <1>1 DEF Bytes, Count
  <2>2. QED BY Zenon, <2>1, <1>0, <1>1
<1>3. /\ rate' \in [Dir -> Change] /\ rate'[d] = current[d] - out[d]
      /\ \A e \in Dir \ {d} : rate'[e] = rate[e]
  <2>1. rate \in [Dir -> Change] BY Zenon DEF Counting, Told
  <2>2. current[d] - out[d] \in Change BY <1>1, TrafficAssumption DEF Change
  <2> HIDE DEF TrafficInv
  <2>3. QED BY Zenon, <1>0, <2>1, <2>2
<1>4. Counting'
  <2>1. Told' BY Zenon, <1>0, <1>2, <1>3 DEF Counting, Told
  <2>2. Sent' BY Zenon, <1>0, SentSame DEF Counting
  <2>3. Taken' BY Zenon, <1>0, TakenSame DEF Counting
  <2>4. Flags' BY Zenon, <1>0, FlagsSame DEF Counting
  <2>5. QED BY Zenon, <2>1, <2>2, <2>3, <2>4 DEF Counting
<1>5. Ledger' /\ Stored'
  BY <1>0 DEF Ledger, Stored
<1>6. Flagged'
  <2>1. d = "tx" => out'["tx"] = current["tx"]
    BY Zenon, <1>2
  <2>2. d = "rx" => out'["rx"] = current["rx"] /\ out'["tx"] = out["tx"]
    BY Zenon, <1>2 DEF Dir
  <2>3. d = "rx" /\ out["tx"] = current["tx"] => out' = current
    BY Zenon, <1>1, <1>2, <2>2, BytesWays
  <2>4. QED BY Zenon, <1>0, <2>1, <2>3 DEF Flagged
<1>7. Grown'
  <2>1. ASSUME restarts = 0
        PROVE  Below(out', current) /\ \A e \in Dir : rate'[e] >= 0
    <3>1. out[d] <= current[d] /\ Below(out, current) /\ \A e \in Dir : rate[e] >= 0
      BY Zenon, <1>0, <2>1 DEF Grown, Below
    <3>2. rate'[d] >= 0 BY <1>1, <1>3, <3>1
    <3>3. \A e \in Dir : out'[e] <= current[e]
      BY <1>1, <1>2, <3>1 DEF Below
    <3>4. \A e \in Dir : rate'[e] >= 0 BY Zenon, <1>3, <3>1, <3>2
    <3>5. QED BY Zenon, <3>3, <3>4 DEF Below
  <2>2. QED BY Zenon, <1>0, <2>1 DEF Grown
<1>8. QED BY Zenon, <1>4, <1>5, <1>6, <1>7

(* The monitor clears the mark.                                             *)
LEMMA ClearStep == TrafficKept(Traffic!Clear)
<1> SUFFICES ASSUME TrafficInv, Traffic!Clear PROVE TrafficInv'
  BY Zenon DEF TrafficKept
<1> USE DEF TrafficInv
<1>0. /\ monitor = "clear" /\ monitor' = "idle" /\ dirty' = FALSE
      /\ unseen' = (remarked /\ current # out) /\ listeners' = <<out, rate>>
      /\ UNCHANGED <<session, before, restarts, pipe, msg, sock, current, seen,
                     out, rate, remarked, inSession, row, fetched, persisted,
                     late, overtaken, reset>>
  BY Zenon DEF Traffic!Clear, Traffic!genVars, Traffic!sockVars, Traffic!endVars
<1>1. dirty' \in BOOLEAN /\ unseen' \in BOOLEAN
  BY <1>0, Zenon
<1>2. inSession
  BY Zenon, <1>0 DEF Ledger
<1>3. Counting'
  <2>1. Told' BY <1>0 DEF Counting, Told
  <2>2. Flags' BY Zenon, <1>0, <1>1 DEF Counting, Flags
  <2>3. Sent' BY Zenon, <1>0, SentSame DEF Counting
  <2>4. Taken' BY Zenon, <1>0, TakenSame DEF Counting
  <2>5. QED BY Zenon, <2>1, <2>2, <2>3, <2>4 DEF Counting
<1>4. Ledger' /\ Grown' /\ Stored'
  BY Zenon, <1>0, <1>2 DEF Ledger, Grown, Stored
<1>5. Flagged'
  BY Zenon, <1>0 DEF Flagged
<1>6. QED BY Zenon, <1>3, <1>4, <1>5

(* persistStats fetches the profile, or finds none.                         *)
LEMMA PersistStep ==
  ASSUME NEW stop \in BOOLEAN
  PROVE  TrafficKept(Traffic!PersistStats(stop))
<1> SUFFICES ASSUME TrafficInv, Traffic!PersistStats(stop) PROVE TrafficInv'
  BY Zenon DEF TrafficKept
<1> USE DEF TrafficInv
<1>0. /\ monitor = "idle" /\ inSession /\ (stop \/ persisted = <<>>)
      /\ inSession' = ~stop
      /\ \/ fetched' = row /\ monitor' = "fetched" /\ late' = late
         \/ fetched' = fetched /\ monitor' = monitor /\ late' = TRUE
      /\ UNCHANGED <<session, before, restarts, pipe, msg, sock, current, seen, dirty,
                     out, rate, listeners, remarked, unseen, row, persisted,
                     overtaken, reset>>
  BY Zenon DEF Traffic!PersistStats, Traffic!Fetched, Traffic!genVars, Traffic!sockVars,
         Traffic!outVars
<1>1. inSession' \in BOOLEAN /\ late' \in BOOLEAN /\ monitor' \in {"idle", "fetched"}
  BY <1>0, Zenon DEF Counting, Flags
<1>2. Counting'
  <2>1. Told' BY Zenon, <1>0, <1>1 DEF Counting, Told
  <2>2. Flags' BY Zenon, <1>0, <1>1 DEF Counting, Flags
  <2>3. Sent' BY Zenon, <1>0, SentSame DEF Counting
  <2>4. Taken' BY Zenon, <1>0, TakenSame DEF Counting
  <2>5. QED BY Zenon, <2>1, <2>2, <2>3, <2>4 DEF Counting
<1>3. CASE monitor' = "fetched"
  <2>0. fetched' = row /\ late' = late
    BY Zenon, <1>0, <1>3
  <2>1. NoBytes \in Bytes
    BY Zenon, ZeroBytes
  <2>2. persisted = <<>> => Len(persisted) = 0 OBVIOUS
  <2>3. Len(persisted) <= 1 BY <1>0, Zenon DEF Ledger
  <2>4. Len(persisted) = 0 \/ Len(persisted) = 1
    <3>1. persisted \in Seq(Bytes) BY Zenon DEF Ledger
    <3>2. Len(persisted) \in Nat BY <3>1
    <3>3. \A n \in Nat : n <= 1 => n = 0 \/ n = 1 OBVIOUS
    <3>4. QED BY <2>3, <3>2, <3>3, Zenon
  <2>5. Ledger' BY Zenon, <1>0, <1>3, <2>0, <2>1, <2>2, <2>4 DEF Ledger
  <2>6. Flagged' /\ Grown' /\ Stored'
    BY Zenon, <1>0, <1>3, <2>0 DEF Flagged, Grown, Stored
  <2>7. QED BY Zenon, <1>2, <2>5, <2>6
<1>4. CASE monitor' = "idle"
  <2>1. fetched' = fetched /\ late' = TRUE
    BY Zenon, <1>0, <1>4
  <2>2. Ledger' BY Zenon, <1>0, <1>4, <2>1 DEF Ledger
  <2>3. Flagged' /\ Grown' /\ Stored'
    BY Zenon, <1>0, <1>4, <2>1 DEF Flagged, Grown, Stored
  <2>4. QED BY Zenon, <1>2, <2>2, <2>3
<1>5. QED BY Zenon, <1>1, <1>3, <1>4

(* It adds the current counts to the profile and updates it.                *)
LEMMA UpdateStep == TrafficKept(Traffic!Update)
<1> SUFFICES ASSUME TrafficInv, Traffic!Update PROVE TrafficInv'
  BY Zenon DEF TrafficKept
<1> USE DEF TrafficInv
<1> DEFINE sum == [d \in Dir |-> fetched.sum[d] + current[d]]
<1>0. /\ monitor = "fetched" /\ monitor' = "idle"
      /\ row' = [fetched EXCEPT !.sum = sum]
      /\ persisted' = Append(persisted, current)
      /\ late' = (sock \notin {"accept", "ended"})
      /\ UNCHANGED <<session, before, restarts, pipe, msg, sock, current, seen, dirty,
                     out, rate, listeners, remarked, unseen, inSession, fetched,
                     overtaken, reset>>
  BY Zenon DEF Traffic!Update, Traffic!Amount, Traffic!Plus, Traffic!Dir, Dir,
         Traffic!genVars, Traffic!sockVars, Traffic!outVars
<1>1. /\ fetched.sum \in Bytes /\ current \in Bytes
      /\ fetched.sum["tx"] \in 0..MaxBytes /\ fetched.sum["rx"] \in 0..MaxBytes
      /\ current["tx"] \in 0..MaxBytes /\ current["rx"] \in 0..MaxBytes
      /\ DOMAIN current = Dir
  BY Zenon, <1>0, BytesWays DEF Counting, Taken, Ledger
<1>2. /\ sum \in [Dir -> 0..(2 * MaxBytes)]
      /\ fetched.sum = NoBytes => sum = current
  <2> HIDE DEF TrafficInv
  <2>1. sum["tx"] \in 0..(2 * MaxBytes) /\ sum["rx"] \in 0..(2 * MaxBytes)
    BY <1>1, TrafficAssumption DEF Dir
  <2>2. sum \in [Dir -> 0..(2 * MaxBytes)]
    BY Zenon, <2>1 DEF Dir
  <2>3. ASSUME fetched.sum = NoBytes PROVE sum = current
    <3>1. sum["tx"] = current["tx"] /\ sum["rx"] = current["rx"]
      BY <1>1, <2>3 DEF NoBytes, Dir
    <3>2. sum \in Bytes BY Zenon, <1>1, <3>1 DEF Bytes, Dir, Count
    <3>3. QED BY Zenon, <1>1, <3>1, <3>2, BytesWays
  <2>4. QED BY Zenon, <2>2, <2>3
<1> HIDE DEF sum
<1>3. /\ row'.sum = sum /\ row'.edit = fetched.edit
      /\ row' \in [edit : {0, 1}, sum : [Dir -> 0..(2 * MaxBytes)]]
  BY Zenon, <1>0, <1>2 DEF Ledger
<1>4. /\ persisted' \in Seq(Bytes) /\ Len(persisted') = Len(persisted) + 1
      /\ Len(persisted) \in Nat /\ Len(persisted) <= 1
      /\ inSession => Len(persisted) = 0
      /\ Len(persisted') = 1 => Len(persisted) = 0
      /\ Len(persisted') # 0 /\ Len(persisted') > 0 /\ Len(persisted') <= 2
      /\ inSession => Len(persisted') <= 1
  <2>1. /\ persisted \in Seq(Bytes) /\ Len(persisted) <= 1
        /\ inSession => Len(persisted) = 0
    BY Zenon, <1>0 DEF Ledger
  <2>2. persisted' \in Seq(Bytes) /\ Len(persisted') = Len(persisted) + 1
    BY <1>0, <1>1, <2>1
  <2> HIDE DEF TrafficInv
  <2>3. QED BY <2>1, <2>2
<1>5. Len(persisted) = 0 => row'.sum = current
  BY Zenon, <1>0, <1>2, <1>3 DEF Ledger
<1>6. late' \in BOOLEAN
  BY <1>0, Zenon
<1>7. Counting'
  <2>1. Told' BY Zenon, <1>0 DEF Counting, Told
  <2>2. Flags' BY Zenon, <1>0, <1>6 DEF Counting, Flags
  <2>3. Sent' BY Zenon, <1>0, SentSame DEF Counting
  <2>4. Taken' BY Zenon, <1>0, TakenSame DEF Counting
  <2>5. QED BY Zenon, <2>1, <2>2, <2>3, <2>4 DEF Counting
<1>8. Ledger'
  BY Zenon, <1>0, <1>1, <1>3, <1>4, <1>5 DEF Ledger
<1>9. Flagged' /\ Grown'
  BY Zenon, <1>0 DEF Flagged, Grown
<1>10. Stored'
  <2>1. ASSUME sock \in {"accept", "ended"}, restarts = 0, Len(persisted) = 0
        PROVE  row'.sum = seen
    <3>1. current["tx"] = msg["tx"] /\ current["rx"] = msg["rx"] BY Zenon, <2>1 DEF Stored
    <3>2. msg \in Bytes BY Zenon DEF Counting, Taken
    <3>3. current = msg BY Zenon, <1>1, <3>1, <3>2, BytesWays
    <3>4. QED BY Zenon, <1>5, <2>1, <3>3 DEF Grown
  <2>2. QED BY Zenon, <1>0, <1>4, <2>1 DEF Stored
<1>11. QED BY Zenon, <1>7, <1>8, <1>9, <1>10

(* The app writes the profile with new settings and counts of zero.         *)
LEMMA WriteStep == TrafficKept(Traffic!WriteToDatabase)
<1> SUFFICES ASSUME TrafficInv, Traffic!WriteToDatabase PROVE TrafficInv'
  BY Zenon DEF TrafficKept
<1> USE DEF TrafficInv
<1>0. /\ row' = [edit |-> 1, sum |-> NoBytes]
      /\ overtaken' = (monitor = "fetched") /\ reset' = (persisted # <<>>)
      /\ UNCHANGED <<session, before, restarts, pipe, msg, sock, current, seen, dirty,
                     monitor, out, rate, listeners, remarked, unseen, inSession, fetched,
                     persisted, late>>
  BY Zenon DEF Traffic!WriteToDatabase, Traffic!Zero, Traffic!Dir, NoBytes, Dir,
         Traffic!genVars, Traffic!sockVars, Traffic!outVars
<1>1. NoBytes \in Bytes /\ NoBytes \in [Dir -> 0..(2 * MaxBytes)]
  BY Zenon, ZeroBytes
<1>2. overtaken' \in BOOLEAN /\ reset' \in BOOLEAN
  BY <1>0, Zenon
<1>3. Counting'
  <2>1. Flags' BY Zenon, <1>0, <1>2 DEF Counting, Flags
  <2>2. Sent' BY Zenon, <1>0, SentSame DEF Counting
  <2>3. Taken' BY Zenon, <1>0, TakenSame DEF Counting
  <2>4. Told' BY Zenon, <1>0, ToldSame DEF Counting
  <2>5. QED BY Zenon, <2>1, <2>2, <2>3, <2>4 DEF Counting
<1>4. Ledger'
  BY Zenon, <1>0, <1>1 DEF Ledger
<1>5. Flagged' /\ Grown'
  BY Zenon, <1>0 DEF Flagged, Grown
<1>6. Stored'
  <2>1. persisted = <<>> => Len(persisted) # 1 OBVIOUS
  <2>2. QED BY Zenon, <1>0, <2>1 DEF Stored
<1>7. QED BY Zenon, <1>3, <1>4, <1>5, <1>6

(* Every step keeps the invariant of the traffic.                           *)
LEMMA TrafficStep == TrafficInv /\ [Traffic!Next]_trafficVars => TrafficInv'
<1> SUFFICES ASSUME TrafficInv, [Traffic!Next]_trafficVars PROVE TrafficInv'
  BY Zenon
<1>1. UNCHANGED trafficVars => TrafficInv'
  BY Zenon, SentSame, TakenSame, ToldSame, FlagsSame, LedgerSame, FlaggedSame, GrownSame,
     StoredSame
  DEF trafficVars, TrafficInv, Counting
<1>2. Traffic!Over => UNCHANGED trafficVars
  BY Zenon DEF Traffic!Over, Traffic!vars, Traffic!genVars, Traffic!sockVars, Traffic!outVars,
         Traffic!endVars, trafficVars
<1>3. ASSUME NEW d \in Traffic!Dir,
             Traffic!Transfer(d) \/ Traffic!Store(d) \/ Traffic!Mark(d) \/ Traffic!Copy(d)
      PROVE  TrafficInv'
  <2>1. CASE Traffic!Transfer(d) BY Zenon, <2>1, TransferStep DEF TrafficKept
  <2>2. CASE Traffic!Store(d) BY Zenon, <2>2, StoreStep DEF TrafficKept
  <2>3. CASE Traffic!Mark(d) BY Zenon, <2>3, MarkStep DEF TrafficKept
  <2>4. CASE Traffic!Copy(d) BY Zenon, <2>4, CopyStep DEF TrafficKept
  <2>5. QED BY Zenon, <1>3, <2>1, <2>2, <2>3, <2>4
<1>4. ASSUME NEW stop \in BOOLEAN, Traffic!PersistStats(stop) PROVE TrafficInv'
  BY Zenon, <1>4, PersistStep DEF TrafficKept
<1>5. QED
  BY Zenon, <1>1, <1>2, <1>3, <1>4, ReportStep, RestartStep, TakenStep, ThreadEndsStep,
     RequestStep, ClearStep, UpdateStep, WriteStep
  DEF Traffic!Next, TrafficKept

(* TrafficInv is inductive: whatever sslocal, the thread of the socket, the *)
(* main thread and the app do to the traffic's numbers, in any order.       *)
THEOREM TrafficInvariant == MCSpec => []TrafficInv
<1>1. MCInit => TrafficInv
  BY Zenon, TrafficInit DEF MCInit
<1>2. TrafficInv /\ [MCNext]_all => TrafficInv'
  <2>1. [MCNext]_all => [Traffic!Next]_trafficVars
    BY Zenon DEF MCNext, all
  <2>2. QED BY Zenon, <2>1, TrafficStep
<1>3. QED BY <1>1, <1>2, PTL DEF MCSpec

(* At rest out is what the socket delivered, but for a flag set between     *)
(* requestUpdate's test and its reset, and the listeners were told it;      *)
(* without a restart no rate is negative and no total is more than the      *)
(* traffic: however much is transferred.                                    *)
THEOREM Current == MCSpec => []MonitorCurrent
<1>1. TrafficInv => MonitorCurrent
  <2> SUFFICES ASSUME TrafficInv PROVE MonitorCurrent
    BY Zenon
  <2> USE DEF TrafficInv
  <2>1. Traffic!OutIsCurrent /\ Traffic!ListenersTold
    BY Zenon DEF Flagged, Traffic!OutIsCurrent, Traffic!ListenersTold
  <2>2. Traffic!RatesPlausible
    <3>1. restarts = 0 => Below(out, session)
      <4>1. restarts = 0 => Below(out, msg)
        BY Zenon, BytesBelow DEF Grown, Counting, Sent, Taken, Told, Flags
      <4>2. QED BY Zenon, <4>1, BytesBelow DEF Grown, Counting, Sent, Taken, Told, Flags
    <3>2. QED BY Zenon, <3>1 DEF Grown, Below, Dir, Traffic!RatesPlausible, Traffic!Dir
  <2>3. QED BY Zenon, <2>1, <2>2, CountedKinds DEF MonitorCurrent
<1>2. QED BY <1>1, TrafficInvariant, PTL

(* The profile grows by what the reports accounted for, with the exceptions *)
(* that TrafficMonitor names.                                               *)
THEOREM Counted == MCSpec => []CountedOnce
<1>1. TrafficInv => CountedOnce
  BY Zenon DEF TrafficInv, Stored, CountedOnce, Traffic!CountedOnce
<1>2. QED BY <1>1, TrafficInvariant, PTL

(* persistStats keeps the settings the app has written, unless they were    *)
(* written between its fetch and its update.                                *)
THEOREM Survives == MCSpec => EditSurvives
<1>1. TrafficInv /\ [MCNext]_all
        => (row.edit = 1 /\ ~overtaken => row'.edit = 1)
  <2> SUFFICES ASSUME TrafficInv, [MCNext]_all, row.edit = 1, ~overtaken
               PROVE  row'.edit = 1
    BY Zenon
  <2>1. CASE Traffic!Update
    <3>1. fetched.edit = 1 /\ fetched \in [edit : {0, 1}, sum : [Dir -> 0..(2 * MaxBytes)]]
      BY Zenon, <2>1 DEF TrafficInv, Ledger, Traffic!Update
    <3>2. QED BY Zenon, <2>1, <3>1 DEF Traffic!Update
  <2>2. CASE Traffic!WriteToDatabase
    BY Zenon, <2>2 DEF Traffic!WriteToDatabase
  <2>3. CASE row' = row
    BY Zenon, <2>3
  <2>4. QED
    BY Zenon, <2>1, <2>2, <2>3 DEF MCNext, all, trafficVars, Traffic!Next, Traffic!Transfer,
      Traffic!Store, Traffic!Mark, Traffic!Copy, Traffic!Report, Traffic!Restart,
      Traffic!Receive, Traffic!ThreadEnds, Traffic!Request, Traffic!Clear, Traffic!Over,
      Traffic!PersistStats, Traffic!endVars, Traffic!vars
<1>2. QED BY <1>1, TrafficInvariant, PTL DEF MCSpec, EditSurvives, Traffic!EditSurvives

=============================================================================
