---------------------------- MODULE WaitsProofs ----------------------------
(***************************************************************************)
(* The ads of one space, for every number of screens, ads and pending      *)
(* requests and every length of the list to try: one load at most is under *)
(* way, and no screen is given a destroyed or an expired ad.               *)
(***************************************************************************)
EXTENDS MCWaits, TLAPS

(* Ads delivered so far, or none.                                           *)
Given == 0..loaded

AdTyped ==
  /\ isOpen \in BOOLEAN /\ limited \in BOOLEAN
  /\ mIsLoading \in BOOLEAN /\ expired \in BOOLEAN
  /\ current \in Screen /\ gone \subseteq Screen
  /\ mCallbacks \in Seq(Screen) /\ Len(mCallbacks) <= MaxPending
  /\ loaded \in 0..MaxAds
  /\ mCachedResult \in Given \/ mCachedResult = Failed
  /\ asks \in Seq((1..2) \X (1..Params))
  /\ held \in [Screen -> Given] /\ posted \in [Screen -> Given]
  /\ shown \in [Screen -> Given]
  /\ destroyed \subseteq 1..loaded
  /\ again \subseteq Screen /\ spoilt \subseteq Screen

(* A screen that is still to come has nothing.                              *)
Coming == \A s \in Screen \ (gone \cup {current}) :
            posted[s] = NoAd /\ s \notin Range(mCallbacks)

(* While no screen asked again: a registered screen has no ad on its way,   *)
(* and is registered once; the cached ad is alive, and who holds it has it  *)
(* still on its way; the ad on its way to the present screen is alive, and  *)
(* no registered screen, which would destroy it, holds it.                  *)
FreshFor(callbacks, cache, post) ==
  /\ \A s \in Range(callbacks) : post[s] = NoAd
  /\ IsInjective(callbacks)
  /\ cache \notin destroyed
  /\ \A s \in Screen : IsAd(cache) /\ held[s] = cache => post[s] = cache
  /\ post[current] \notin destroyed
  /\ \A s \in Range(callbacks) : held[s] # NoAd => post[current] # held[s]

Fresh == FreshFor(mCallbacks, mCachedResult, posted) /\ spoilt = {}

AdInv == AdTyped /\ OneLoad /\ Coming /\ (again = {} => Fresh)

-----------------------------------------------------------------------------
(* The callbacks with one more.                                             *)
LEMMA CallbackAdded ==
  ASSUME NEW q \in Seq(Screen), NEW s \in Screen
  PROVE  /\ Append(q, s) \in Seq(Screen) /\ Len(Append(q, s)) = Len(q) + 1
         /\ Len(q) \in Nat
         /\ Range(Append(q, s)) = Range(q) \cup {s}
         /\ Range(q) \subseteq Screen
         /\ IsInjective(q) /\ s \notin Range(q) => IsInjective(Append(q, s))
<1> DEFINE r == Append(q, s)
<1>1. /\ r \in Seq(Screen) /\ Len(r) = Len(q) + 1 /\ Len(q) \in Nat
      /\ DOMAIN r = 1..Len(r) /\ DOMAIN q = 1..Len(q)
      /\ r[Len(q) + 1] = s /\ \A i \in 1..Len(q) : r[i] = q[i]
      /\ \A i \in 1..Len(q) : q[i] \in Screen
  OBVIOUS
<1> HIDE DEF r
<1>2. /\ \A i \in 1..Len(r) : i \in 1..Len(q) \/ i = Len(q) + 1
      /\ \A i \in 1..Len(q) : i \in 1..Len(r)
      /\ Len(q) + 1 \in 1..Len(r)
  BY <1>1
<1>3. Range(r) = Range(q) \cup {s} /\ Range(q) \subseteq Screen
  BY Zenon, <1>1, <1>2 DEF Range
<1>4. IsInjective(q) /\ s \notin Range(q) => IsInjective(r)
  BY Zenon, <1>1, <1>2 DEF Range, IsInjective
<1>5. QED BY Zenon, <1>1, <1>3, <1>4 DEF r

(* No screen is among no callbacks.                                         *)
LEMMA NoCallback == Range(<<>>) = {} /\ IsInjective(<<>>)
BY DEF Range, IsInjective

(* What all registered callbacks do with a result.                          *)
LEMMA Notified ==
  ASSUME AdTyped, NEW cb \in Seq(Screen), NEW L \in 0..MaxAds, loaded <= L,
         NEW r, IsAd(r) => r \in 1..L, NEW post \in [Screen -> 0..L],
         NotifyResult(cb, r, post)
  PROVE  /\ mCallbacks' = <<>>
         /\ held' \in [Screen -> 0..L] /\ posted' \in [Screen -> 0..L]
         /\ destroyed' \subseteq 1..L
         /\ \A s \in Range(cb) : /\ held'[s] = Result(r)
                                 /\ IsAd(r) => posted'[s] = r
                                 /\ ~IsAd(r) => posted'[s] = post[s]
         /\ \A s \in Screen \ Range(cb) : held'[s] = held[s] /\ posted'[s] = post[s]
         /\ IsInjective(cb)
              => \A a \in destroyed' : \/ a \in destroyed
                                       \/ \E s \in Range(cb) : a = held[s] /\ a # NoAd
<1>0. /\ held \in [Screen -> Given] /\ destroyed \subseteq 1..loaded /\ loaded \in Nat
      /\ MaxAds \in Nat
      /\ Range(cb) \subseteq Screen
  BY BoundsAssumption DEF AdTyped, Range
<1>1. /\ mCallbacks' = <<>>
      /\ destroyed' = destroyed \cup GivenUp(cb, r)
      /\ held' = [s \in Screen |-> IF s \in Range(cb) THEN Result(r) ELSE held[s]]
      /\ posted' = [s \in Screen |-> IF s \in Range(cb) /\ IsAd(r) THEN r ELSE post[s]]
  BY Zenon DEF NotifyResult
<1>2. Result(r) \in 0..L BY <1>0 DEF Result, NoAd
<1>3. \A s \in Screen : held[s] \in 0..L BY <1>0 DEF Given
<1>4. held' \in [Screen -> 0..L] BY Zenon, <1>1, <1>2, <1>3
<1>5. posted' \in [Screen -> 0..L]
  <2>1. \A s \in Screen : (IF s \in Range(cb) /\ IsAd(r) THEN r ELSE post[s]) \in 0..L
    BY <1>0
  <2>2. QED BY Zenon, <1>1, <2>1
<1>6. GivenUp(cb, r) \subseteq 1..L
  <2>1. \A a \in GivenUp(cb, r) : a # 0 /\ (a = Result(r) \/ \E s \in Screen : a = held[s])
    BY Zenon, <1>0 DEF GivenUp, NoAd
  <2>2. \A a \in GivenUp(cb, r) : a \in 0..L /\ a # 0
    BY Zenon, <1>2, <1>3, <2>1
  <2>3. \A a \in GivenUp(cb, r) : a \in 1..L
    BY <2>2
  <2>4. QED BY Zenon, <2>3
<1>7. destroyed' \subseteq 1..L
  <2>1. 1..loaded \subseteq 1..L BY <1>0
  <2>2. QED BY Zenon, <1>0, <1>1, <1>6, <2>1
<1>8. IsInjective(cb) => \A a \in destroyed' : \/ a \in destroyed
                                               \/ \E s \in Range(cb) : a = held[s] /\ a # NoAd
  BY Zenon, <1>1 DEF GivenUp
<1>9. QED BY Zenon, <1>0, <1>1, <1>4, <1>5, <1>7, <1>8

(* The screens are fresh after all callbacks ran, if the result is alive    *)
(* and who is called has nothing on its way.                                *)
LEMMA FreshNotified ==
  ASSUME AdTyped, NEW cb \in Seq(Screen), NEW L \in 0..MaxAds, loaded <= L,
         NEW r, IsAd(r) => r \in 1..L, NEW post \in [Screen -> 0..L],
         NotifyResult(cb, r, post),
         IsInjective(cb),
         mCachedResult' \notin destroyed,
         \A s \in Range(cb) : held[s] # NoAd => held[s] # mCachedResult',
         \A s \in Screen \ Range(cb) :
           IsAd(mCachedResult') /\ held[s] = mCachedResult' => post[s] = mCachedResult',
         IsAd(r) => r \notin destroyed /\ \A s \in Range(cb) : held[s] # r,
         post[current] \notin destroyed,
         \A s \in Range(cb) : held[s] # NoAd => post[current] # held[s],
         spoilt' = {}, current' = current
  PROVE  Fresh'
<1>0. current \in Screen BY Zenon DEF AdTyped
<1>1. /\ mCallbacks' = <<>>
      /\ \A s \in Range(cb) : /\ held'[s] = Result(r)
                              /\ IsAd(r) => posted'[s] = r
                              /\ ~IsAd(r) => posted'[s] = post[s]
      /\ \A s \in Screen \ Range(cb) : held'[s] = held[s] /\ posted'[s] = post[s]
      /\ \A a \in destroyed' : \/ a \in destroyed
                               \/ \E s \in Range(cb) : a = held[s] /\ a # NoAd
  BY Notified
<1>2. mCachedResult' \notin destroyed' BY <1>1
<1>3. posted'[current] \notin destroyed'
  <2>1. posted'[current] = post[current] \/ (IsAd(r) /\ posted'[current] = r)
    BY Zenon, <1>0, <1>1
  <2>2. QED BY <1>1, <2>1
<1>4. ASSUME NEW s \in Screen, IsAd(mCachedResult'), held'[s] = mCachedResult'
      PROVE  posted'[s] = mCachedResult'
  <2>1. CASE s \in Range(cb)
    <3>1. Result(r) = mCachedResult' /\ (IsAd(r) => posted'[s] = r)
      BY Zenon, <1>1, <1>4, <2>1
    <3>2. mCachedResult' # NoAd BY <1>4 DEF IsAd, Ad, NoAd
    <3>3. QED BY Zenon, <3>1, <3>2 DEF Result
  <2>2. CASE s \notin Range(cb)
    BY Zenon, <1>1, <1>4, <2>2
  <2>3. QED BY Zenon, <2>1, <2>2
<1>5. QED BY Zenon, <1>1, <1>2, <1>3, <1>4, NoCallback DEF Fresh, FreshFor

(* transmit, whoever calls it.                                              *)
LEMMA TransmitKeeps ==
  ASSUME AdInv, NEW cb \in Seq(Screen), Len(cb) <= MaxPending,
         NEW cache, cache \in Given \/ cache = Failed,
         NEW post \in [Screen -> Given], Transmit(cb, cache, post),
         \A t \in Screen \ (gone \cup {current}) : post[t] = NoAd /\ t \notin Range(cb),
         UNCHANGED <<isOpen, current, gone, limited, expired, loaded>>,
         shown' \in [Screen -> Given], again' \subseteq Screen, spoilt' \subseteq Screen,
         again' = {} => FreshFor(cb, cache, post) /\ spoilt' = {}
  PROVE  AdInv'
<1>0. /\ AdTyped /\ OneLoad /\ loaded \in 0..MaxAds /\ loaded \in Nat /\ MaxAds \in Nat
      /\ Given = 0..loaded /\ Given' = Given
      /\ loaded <= loaded
  <2>1. AdTyped /\ OneLoad BY Zenon DEF AdInv
  <2>2. loaded \in 0..MaxAds BY Zenon, <2>1 DEF AdTyped
  <2>3. loaded \in Nat /\ MaxAds \in Nat /\ loaded <= loaded BY <2>2, BoundsAssumption
  <2>4. QED BY Zenon, <2>1, <2>2, <2>3 DEF Given
<1>1. cache = Failed => ~IsAd(cache)
  BY <1>0 DEF Failed, IsAd, Ad
<1>2. ~IsAd(Limit) /\ ~IsAd(NoAd)
  BY <1>0 DEF Limit, IsAd, Ad, NoAd
<1>3. IsAd(cache) => cache \in 1..loaded
  BY <1>0, <1>1 DEF IsAd, Ad
<1>4. NoAd \in Given /\ NoAd \notin destroyed
  <2>1. destroyed \subseteq 1..loaded BY Zenon, <1>0 DEF AdTyped
  <2>2. 0 \in 0..loaded /\ 0 \notin 1..loaded BY <1>0
  <2>3. QED BY Zenon, <1>0, <2>1, <2>2 DEF NoAd
<1>5. ASSUME NEW r, NotifyResult(cb, r, post), r = Limit \/ (r = cache /\ IsAd(cache)),
             mCachedResult' = cache, UNCHANGED <<mIsLoading, asks>>
      PROVE  AdInv'
  <2>0. IsAd(r) => r \in 1..loaded /\ r = cache BY Zenon, <1>2, <1>3, <1>5
  <2>1. /\ mCallbacks' = <<>>
        /\ held' \in [Screen -> 0..loaded] /\ posted' \in [Screen -> 0..loaded]
        /\ destroyed' \subseteq 1..loaded
        /\ \A s \in Screen \ Range(cb) : posted'[s] = post[s]
    BY <1>0, <1>5, <2>0, Notified
  <2>2. AdTyped'
    <3>1. mCallbacks' \in Seq(Screen) /\ Len(mCallbacks') <= MaxPending
      BY <2>1, BoundsAssumption
    <3>2. QED BY Zenon, <1>0, <1>5, <2>1, <3>1 DEF AdTyped
  <2>3. OneLoad' BY Zenon, <1>0, <1>5, <2>1 DEF OneLoad
  <2>4. Coming' BY Zenon, <2>1, NoCallback DEF Coming
  <2>5. ASSUME again' = {} PROVE Fresh'
    <3>1. FreshFor(cb, cache, post) /\ spoilt' = {} BY Zenon, <2>5
    <3>2. \A s \in Range(cb) : held[s] # NoAd => held[s] # cache
      <4>1. Range(cb) \subseteq Screen BY DEF Range
      <4>2. SUFFICES ASSUME NEW s \in Range(cb), held[s] # NoAd, held[s] = cache
                     PROVE  FALSE
        BY Zenon
      <4>3. s \in Screen /\ post[s] = NoAd BY Zenon, <3>1, <4>1 DEF FreshFor
      <4>4. cache \in 1..MaxAds
        <5>1. held[s] \in Given BY Zenon, <4>3 DEF AdInv, AdTyped
        <5>2. QED BY <1>0, <4>2, <5>1 DEF NoAd
      <4>5. post[s] = cache BY Zenon, <3>1, <4>2, <4>3, <4>4 DEF FreshFor, IsAd, Ad
      <4>6. QED BY Zenon, <4>2, <4>3, <4>5
    <3>3. IsAd(r) => r \notin destroyed /\ \A s \in Range(cb) : held[s] # r
      <4>1. IsAd(r) => r # NoAd BY Zenon, <1>2
      <4>2. QED BY Zenon, <2>0, <3>1, <3>2, <4>1 DEF FreshFor
    <3>4. QED
      BY Zenon, <1>0, <1>5, <2>0, <3>1, <3>2, <3>3, FreshNotified DEF FreshFor
  <2>6. QED BY Zenon, <2>2, <2>3, <2>4, <2>5 DEF AdInv
<1>6. CASE limited /\ NotifyResult(cb, Limit, post) /\ mCachedResult' = cache
           /\ UNCHANGED <<mIsLoading, asks>>
  BY Zenon, <1>5, <1>6
<1>7. CASE Usable(cache) /\ NotifyResult(cb, cache, post) /\ mCachedResult' = cache
           /\ UNCHANGED <<mIsLoading, asks>>
  BY Zenon, <1>5, <1>7 DEF Usable
<1>8. CASE /\ mIsLoading /\ mCallbacks' = cb /\ mCachedResult' = cache /\ posted' = post
           /\ UNCHANGED <<mIsLoading, asks, held, destroyed>>
  <2>1. AdTyped' BY Zenon, <1>0, <1>8 DEF AdTyped
  <2>2. OneLoad' BY Zenon, <1>0, <1>8 DEF OneLoad
  <2>3. Coming' BY Zenon, <1>8 DEF Coming
  <2>4. again' = {} => Fresh' BY Zenon, <1>8 DEF Fresh, FreshFor
  <2>5. QED BY Zenon, <2>1, <2>2, <2>3, <2>4 DEF AdInv
<1>9. CASE /\ ~mIsLoading /\ mCallbacks' = cb
           /\ mCachedResult' = IF IsAd(cache) THEN NoAd ELSE cache
           /\ mIsLoading' = TRUE /\ asks' = Append(asks, <<1, 1>>) /\ posted' = post
           /\ UNCHANGED <<held, destroyed>>
  <2>0. mIsLoading' \in BOOLEAN /\ mIsLoading' BY Zenon, <1>9
  <2>1. asks' \in Seq((1..2) \X (1..Params)) /\ Len(asks') = 1
    <3>1. asks \in Seq((1..2) \X (1..Params)) /\ Len(asks) = 0
      BY Zenon, <1>0, <1>9 DEF AdTyped, OneLoad
    <3>2. <<1, 1>> \in (1..2) \X (1..Params) BY BoundsAssumption
    <3>3. QED BY <1>9, <3>1, <3>2
  <2>2. mCachedResult' \in Given \/ mCachedResult' = Failed BY Zenon, <1>4, <1>9
  <2>3. AdTyped' BY Zenon, <1>0, <1>9, <2>0, <2>1, <2>2 DEF AdTyped
  <2>4. OneLoad' BY Zenon, <2>0, <2>1 DEF OneLoad
  <2>5. Coming' BY Zenon, <1>9 DEF Coming
  <2>6. ASSUME again' = {} PROVE Fresh'
    <3>1. FreshFor(cb, cache, post) /\ spoilt' = {} BY Zenon, <2>6
    <3>2. ~IsAd(mCachedResult') BY Zenon, <1>2, <1>9
    <3>3. mCachedResult' \notin destroyed BY Zenon, <1>4, <1>9, <3>1 DEF FreshFor
    <3>4. QED BY Zenon, <1>9, <3>1, <3>2, <3>3 DEF Fresh, FreshFor
  <2>7. QED BY Zenon, <2>3, <2>4, <2>5, <2>6 DEF AdInv
<1>10. QED BY Zenon, <1>6, <1>7, <1>8, <1>9 DEF Transmit, IsLoading

(* A screen asks for an ad.                                                 *)
LEMMA RequestKeeps ==
  ASSUME AdInv, NEW s \in Screen, Request(s)
  PROVE  AdInv'
<1> DEFINE cb == Append(mCallbacks, s)
<1>0. /\ s = current /\ Len(mCallbacks) < MaxPending
      /\ Transmit(cb, mCachedResult, posted)
      /\ again' = IF s \in Range(mCallbacks) \/ posted[s] # NoAd THEN again \cup {s} ELSE again
      /\ UNCHANGED <<isOpen, current, gone, limited, expired, loaded, shown, spoilt>>
  BY Zenon DEF Request, appVars
<1>1. /\ mCallbacks \in Seq(Screen) /\ again \subseteq Screen /\ spoilt \subseteq Screen
      /\ posted \in [Screen -> Given] /\ shown \in [Screen -> Given]
      /\ mCachedResult \in Given \/ mCachedResult = Failed
  BY Zenon DEF AdInv, AdTyped
<1>2. /\ cb \in Seq(Screen) /\ Len(cb) = Len(mCallbacks) + 1 /\ Len(mCallbacks) \in Nat
      /\ Range(cb) = Range(mCallbacks) \cup {s}
      /\ IsInjective(mCallbacks) /\ s \notin Range(mCallbacks) => IsInjective(cb)
  BY Zenon, <1>1, CallbackAdded
<1> HIDE DEF cb
<1>3. Len(cb) <= MaxPending BY <1>0, <1>2, BoundsAssumption
<1>4. \A t \in Screen \ (gone \cup {current}) : posted[t] = NoAd /\ t \notin Range(cb)
  BY Zenon, <1>0, <1>2 DEF AdInv, Coming
<1>5. again' = {} => FreshFor(cb, mCachedResult, posted) /\ spoilt' = {}
  <2>1. SUFFICES ASSUME again' = {}
                 PROVE  FreshFor(cb, mCachedResult, posted) /\ spoilt' = {}
    BY Zenon
  <2>2. again = {} /\ s \notin Range(mCallbacks) /\ posted[s] = NoAd BY Zenon, <1>0, <2>1
  <2>3. Fresh BY Zenon, <2>2 DEF AdInv
  <2>4. QED BY Zenon, <1>0, <1>2, <2>2, <2>3 DEF Fresh, FreshFor
<1>6. again' \subseteq Screen BY Zenon, <1>0, <1>1
<1>7. QED BY Zenon, <1>0, <1>1, <1>2, <1>3, <1>4, <1>5, <1>6, TransmitKeeps

(* The ad that is shown leaves the cache, and is no longer on its way.      *)
LEMMA ShowKeeps ==
  ASSUME AdInv, NEW s \in Screen, ShowNative(s)
  PROVE  AdInv'
<1> DEFINE post == [posted EXCEPT ![s] = NoAd]
<1>0. /\ s = current /\ shown' = [shown EXCEPT ![s] = posted[s]]
      /\ spoilt' = IF posted[s] \in destroyed THEN spoilt \cup {s} ELSE spoilt
      /\ Transmit(mCallbacks, NoAd, post)
      /\ UNCHANGED <<isOpen, current, gone, limited, expired, loaded, again>>
  BY Zenon DEF ShowNative, appVars, ClearCache
<1>1. /\ mCallbacks \in Seq(Screen) /\ Len(mCallbacks) <= MaxPending
      /\ again \subseteq Screen /\ spoilt \subseteq Screen
      /\ posted \in [Screen -> Given] /\ shown \in [Screen -> Given]
      /\ destroyed \subseteq 1..loaded /\ loaded \in Nat /\ MaxAds \in Nat
  BY BoundsAssumption DEF AdInv, AdTyped
<1>2. NoAd \in Given /\ NoAd \notin destroyed /\ ~IsAd(NoAd)
  BY <1>1 DEF Given, NoAd, IsAd, Ad
<1>3. /\ post \in [Screen -> Given] /\ shown' \in [Screen -> Given]
      /\ post[s] = NoAd /\ \A t \in Screen : t # s => post[t] = posted[t]
  BY Zenon, <1>0, <1>1, <1>2
<1> HIDE DEF post
<1>4. \A t \in Screen \ (gone \cup {current}) : post[t] = NoAd /\ t \notin Range(mCallbacks)
  BY Zenon, <1>0, <1>3 DEF AdInv, Coming
<1>5. again' = {} => FreshFor(mCallbacks, NoAd, post) /\ spoilt' = {}
  <2>1. SUFFICES ASSUME again' = {}
                 PROVE  FreshFor(mCallbacks, NoAd, post) /\ spoilt' = {}
    BY Zenon
  <2>2. Fresh BY Zenon, <1>0, <2>1 DEF AdInv
  <2>3. posted[s] \notin destroyed BY Zenon, <1>0, <2>2 DEF Fresh, FreshFor
  <2>4. \A t \in Range(mCallbacks) : post[t] = NoAd
    <3>1. Range(mCallbacks) \subseteq Screen BY <1>1 DEF Range
    <3>2. QED BY Zenon, <1>3, <2>2, <3>1 DEF Fresh, FreshFor
  <2>5. QED BY Zenon, <1>0, <1>2, <1>3, <2>2, <2>3, <2>4 DEF Fresh, FreshFor
<1>6. spoilt' \subseteq Screen BY Zenon, <1>0, <1>1
<1>7. QED BY Zenon, <1>0, <1>1, <1>2, <1>3, <1>4, <1>5, <1>6, TransmitKeeps

(* A load under way is the only one: when it ends, none is left.            *)
LEMMA LastLoad ==
  ASSUME AdTyped, OneLoad, NEW i \in DOMAIN asks
  PROVE  mIsLoading /\ i = 1 /\ Len(asks) = 1
         /\ SubSeq(asks, 1, i - 1) \o SubSeq(asks, i + 1, Len(asks)) = <<>>
<1> DEFINE A == (1..2) \X (1..Params)
<1>1. asks \in Seq(A) BY Zenon DEF AdTyped
<1> HIDE DEF A
<1>2. i \in 1..Len(asks) /\ Len(asks) \in Nat BY <1>1
<1>3. mIsLoading /\ Len(asks) = 1 BY <1>2 DEF OneLoad
<1>4. i = 1 BY <1>2, <1>3
<1>5. SubSeq(asks, 1, 0) = <<>> /\ SubSeq(asks, 2, 1) = <<>> BY <1>1, <1>3
<1>6. SubSeq(asks, 1, i - 1) = <<>> /\ SubSeq(asks, i + 1, Len(asks)) = <<>>
  BY <1>3, <1>4, <1>5
<1>7. <<>> \o <<>> = <<>> OBVIOUS
<1>8. QED BY Zenon, <1>3, <1>4, <1>6, <1>7

(* finalResult, with an ad that is new or with a failure.                   *)
LEMMA FinalKeeps ==
  ASSUME AdInv, NEW i \in DOMAIN asks, NEW r \in Nat, r > loaded,
         loaded' \in 0..MaxAds, loaded <= loaded',
         r = Failed \/ r \in 1..loaded', FinalResult(i, r)
  PROVE  AdInv'
<1>0. /\ mCachedResult' = r /\ NotifyResult(mCallbacks, r, posted)
      /\ mIsLoading' = FALSE /\ expired' = FALSE
      /\ asks' = SubSeq(asks, 1, i - 1) \o SubSeq(asks, i + 1, Len(asks))
      /\ UNCHANGED <<isOpen, current, gone, limited, shown, again, spoilt>>
  BY Zenon DEF FinalResult, EndLoad, appVars, histVars
<1>1. /\ AdTyped /\ OneLoad /\ loaded \in Nat /\ MaxAds \in Nat /\ loaded' \in Nat
      /\ mCallbacks \in Seq(Screen) /\ destroyed \subseteq 1..loaded
      /\ current \in Screen
      /\ \A s \in Screen : held[s] \in 0..loaded /\ posted[s] \in 0..loaded
      /\ Given = 0..loaded /\ Given' = 0..loaded'
      /\ posted \in [Screen -> 0..loaded] /\ shown \in [Screen -> 0..loaded]
  <2>1. /\ AdTyped /\ OneLoad /\ loaded \in 0..MaxAds /\ mCallbacks \in Seq(Screen)
        /\ destroyed \subseteq 1..loaded /\ current \in Screen
        /\ held \in [Screen -> 0..loaded] /\ posted \in [Screen -> 0..loaded]
        /\ shown \in [Screen -> 0..loaded]
    BY Zenon DEF AdInv, AdTyped, Given
  <2>2. loaded \in Nat /\ MaxAds \in Nat /\ loaded' \in Nat BY <2>1, BoundsAssumption
  <2>3. QED BY Zenon, <2>1, <2>2 DEF Given
<1>2. IsAd(r) => r \in 1..loaded' BY <1>1 DEF IsAd, Ad, Failed
<1>3. 0..loaded \subseteq 0..loaded' BY <1>1
<1>4. posted \in [Screen -> 0..loaded'] /\ shown' \in [Screen -> 0..loaded']
  BY Zenon, <1>0, <1>1, <1>3
<1>5. /\ mCallbacks' = <<>>
      /\ held' \in [Screen -> 0..loaded'] /\ posted' \in [Screen -> 0..loaded']
      /\ destroyed' \subseteq 1..loaded'
      /\ \A s \in Screen \ Range(mCallbacks) : posted'[s] = posted[s]
  <2>1. PICK L \in 0..MaxAds : L = loaded' BY Zenon
  <2>2. PICK cb \in Seq(Screen) : cb = mCallbacks BY Zenon, <1>1
  <2>3. PICK post \in [Screen -> 0..L] : post = posted BY Zenon, <1>4, <2>1
  <2>4. NotifyResult(cb, r, post) BY Zenon, <1>0, <2>2, <2>3 DEF NotifyResult, GivenUp
  <2>5. AdTyped /\ loaded <= L /\ (IsAd(r) => r \in 1..L) BY Zenon, <1>1, <1>2, <2>1
  <2>6. /\ mCallbacks' = <<>>
        /\ held' \in [Screen -> 0..L] /\ posted' \in [Screen -> 0..L]
        /\ destroyed' \subseteq 1..L
    BY Zenon, <2>4, <2>5, Notified
  <2>7. \A s \in Screen \ Range(cb) : posted'[s] = post[s]
    BY Zenon, <2>4 DEF NotifyResult
  <2>8. QED BY Zenon, <2>1, <2>2, <2>3, <2>6, <2>7
<1>6. asks' = <<>> BY Zenon, <1>0, <1>1, LastLoad
<1>7. AdTyped'
  <2>1. mCallbacks' \in Seq(Screen) /\ Len(mCallbacks') <= MaxPending
    BY <1>5, BoundsAssumption
  <2>2. asks' \in Seq((1..2) \X (1..Params)) BY <1>6
  <2>3. mIsLoading' \in BOOLEAN /\ expired' \in BOOLEAN BY <1>0, Zenon
  <2>4. r \in 0..loaded' \/ r = Failed BY <1>1
  <2>5. /\ isOpen \in BOOLEAN /\ limited \in BOOLEAN /\ gone \subseteq Screen
        /\ again \subseteq Screen /\ spoilt \subseteq Screen
    BY Zenon, <1>1 DEF AdTyped
  <2>6. QED BY Zenon, <1>0, <1>1, <1>4, <1>5, <2>1, <2>2, <2>3, <2>4, <2>5 DEF AdTyped
<1>8. OneLoad' BY Zenon, <1>0, <1>5, <1>6 DEF OneLoad
<1>9. Coming'
  <2>1. Coming BY Zenon DEF AdInv
  <2>2. QED BY Zenon, <1>0, <1>5, <2>1, NoCallback DEF Coming
<1>10. ASSUME again' = {} PROVE Fresh'
  <2>1. FreshFor(mCallbacks, mCachedResult, posted) /\ spoilt' = {}
    BY Zenon, <1>0, <1>10 DEF AdInv, Fresh
  <2>2. r \notin destroyed /\ \A s \in Screen : held[s] # r
    <3>1. r \notin 1..loaded /\ r \notin 0..loaded BY <1>1
    <3>2. QED BY Zenon, <1>1, <3>1
  <2>3. Range(mCallbacks) \subseteq Screen BY <1>1 DEF Range
  <2>4. /\ IsInjective(mCallbacks) /\ posted[current] \notin destroyed
        /\ \A s \in Range(mCallbacks) : held[s] # NoAd => posted[current] # held[s]
    BY Zenon, <2>1 DEF FreshFor
  <2>5. QED
    BY Zenon, <1>0, <1>1, <1>2, <1>4, <2>1, <2>2, <2>3, <2>4, FreshNotified
<1>11. QED BY Zenon, <1>7, <1>8, <1>9, <1>10 DEF AdInv

(* An ad is loaded.                                                         *)
LEMMA LoadKeeps ==
  ASSUME AdInv, NEW i \in DOMAIN asks, Load(i)
  PROVE  AdInv'
<1>1. /\ loaded \in Nat /\ MaxAds \in Nat /\ loaded < MaxAds /\ loaded' = loaded + 1
      /\ FinalResult(i, loaded + 1)
  BY BoundsAssumption DEF AdInv, AdTyped, Load
<1>2. /\ loaded + 1 \in Nat /\ loaded + 1 > loaded /\ loaded' \in 0..MaxAds
      /\ loaded <= loaded' /\ loaded + 1 \in 1..loaded'
  BY <1>1
<1>3. QED BY Zenon, <1>1, <1>2, FinalKeeps

(* An ad fails to load.                                                     *)
LEMMA FailKeeps ==
  ASSUME AdInv, NEW i \in DOMAIN asks, Fail(i)
  PROVE  AdInv'
<1>1. /\ loaded \in Nat /\ MaxAds \in Nat /\ loaded \in 0..MaxAds /\ loaded' = loaded
      /\ Params \in Nat \ {0} /\ asks \in Seq((1..2) \X (1..Params))
  BY BoundsAssumption DEF AdInv, AdTyped, Fail
<1>2. CASE Retry(asks[i]) # <<>>
  <2>1. /\ asks' = [asks EXCEPT ![i] = Retry(asks[i])]
        /\ UNCHANGED <<isOpen, current, gone, limited, mCallbacks, mIsLoading,
                       mCachedResult, expired, held, posted, destroyed, shown,
                       again, spoilt>>
    BY Zenon, <1>2 DEF Fail, appVars, screenVars, histVars
  <2>2. Retry(asks[i]) \in (1..2) \X (1..Params)
    <3>1. asks[i] \in (1..2) \X (1..Params) BY <1>1
    <3>2. asks[i][1] \in 1..2 /\ asks[i][2] \in 1..Params BY Zenon, <3>1
    <3>3. asks[i][2] < Params => asks[i][2] + 1 \in 1..Params BY <1>1, <3>2
    <3>4. 1 \in 1..Params /\ 2 \in 1..2 BY <1>1
    <3>5. QED BY Zenon, <1>2, <3>2, <3>3, <3>4 DEF Retry
  <2>3. asks' \in Seq((1..2) \X (1..Params)) /\ Len(asks') = Len(asks)
    BY <1>1, <2>1, <2>2
  <2>4. AdTyped' BY Zenon, <1>1, <2>1, <2>3 DEF AdInv, AdTyped, Given
  <2>5. OneLoad' BY Zenon, <2>1, <2>3 DEF AdInv, OneLoad
  <2>6. Coming' BY Zenon, <2>1 DEF AdInv, Coming
  <2>7. again' = {} => Fresh' BY Zenon, <2>1 DEF AdInv, Fresh, FreshFor
  <2>8. QED BY Zenon, <2>4, <2>5, <2>6, <2>7 DEF AdInv
<1>3. CASE Retry(asks[i]) = <<>>
  <2>1. FinalResult(i, Failed) BY Zenon, <1>3 DEF Fail
  <2>2. Failed \in Nat /\ Failed > loaded /\ loaded' \in 0..MaxAds /\ loaded <= loaded'
    BY <1>1 DEF Failed
  <2>3. QED BY Zenon, <2>1, <2>2, FinalKeeps
<1>4. QED BY Zenon, <1>2, <1>3

(* The cached ad expires.                                                   *)
LEMMA ExpireKeeps == AdInv /\ Expire => AdInv'
<1> SUFFICES ASSUME AdInv, Expire PROVE AdInv'
  BY Zenon
<1>1. /\ expired' = TRUE
      /\ UNCHANGED <<isOpen, current, gone, limited, mCallbacks, mIsLoading,
                     mCachedResult, asks, loaded, held, posted, destroyed, shown,
                     again, spoilt>>
  BY Zenon DEF Expire, appVars, screenVars, histVars
<1>2. expired' \in BOOLEAN BY <1>1, Zenon
<1>3. AdTyped' BY Zenon, <1>1, <1>2 DEF AdInv, AdTyped, Given
<1>4. OneLoad' /\ Coming' BY Zenon, <1>1 DEF AdInv, OneLoad, Coming
<1>5. again' = {} => Fresh' BY Zenon, <1>1 DEF AdInv, Fresh, FreshFor
<1>6. QED BY Zenon, <1>3, <1>4, <1>5 DEF AdInv

(* The limit on the ads is reached, or lifted.                              *)
LEMMA LimitKeeps == AdInv /\ LimitChanges => AdInv'
<1> SUFFICES ASSUME AdInv, LimitChanges PROVE AdInv'
  BY Zenon
<1>1. /\ limited' = ~limited
      /\ UNCHANGED <<isOpen, current, gone, mCallbacks, mIsLoading, mCachedResult,
                     expired, asks, loaded, held, posted, destroyed, shown, again,
                     spoilt>>
  BY Zenon DEF LimitChanges, appVars, screenVars, histVars
<1>2. limited' \in BOOLEAN BY <1>1, Zenon
<1>3. AdTyped' BY Zenon, <1>1, <1>2 DEF AdInv, AdTyped, Given
<1>4. OneLoad' /\ Coming' BY Zenon, <1>1 DEF AdInv, OneLoad, Coming
<1>5. again' = {} => Fresh' BY Zenon, <1>1 DEF AdInv, Fresh, FreshFor
<1>6. QED BY Zenon, <1>3, <1>4, <1>5 DEF AdInv

(* The new screen has nothing yet.                                          *)
LEMMA RecreateKeeps ==
  ASSUME AdInv, NEW s \in Screen, Recreate(s)
  PROVE  AdInv'
<1>1. /\ s \notin gone \cup {current} /\ gone' = gone \cup {current} /\ current' = s
      /\ UNCHANGED <<isOpen, limited, mCallbacks, mIsLoading, mCachedResult, expired,
                     asks, loaded, held, posted, destroyed, shown, again, spoilt>>
  BY Zenon DEF Recreate, screenVars, histVars
<1>2. AdTyped' BY Zenon, <1>1 DEF AdInv, AdTyped, Given
<1>3. OneLoad' BY Zenon, <1>1 DEF AdInv, OneLoad
<1>4. Coming' BY Zenon, <1>1 DEF AdInv, Coming
<1>5. posted[s] = NoAd BY Zenon, <1>1 DEF AdInv, Coming
<1>6. NoAd \notin destroyed
  <2>1. destroyed \subseteq 1..loaded /\ loaded \in Nat
    BY BoundsAssumption DEF AdInv, AdTyped
  <2>2. 0 \notin 1..loaded BY <2>1
  <2>3. QED BY Zenon, <2>1, <2>2 DEF NoAd
<1>7. again' = {} => Fresh' BY Zenon, <1>1, <1>5, <1>6 DEF AdInv, Fresh, FreshFor
<1>8. QED BY Zenon, <1>2, <1>3, <1>4, <1>7 DEF AdInv

(* The invariant of the ads holds at first.                                 *)
LEMMA AdInit == Init => AdInv
<1> SUFFICES ASSUME Init PROVE AdInv
  BY Zenon
<1>0. /\ isOpen \in BOOLEAN /\ current \in Screen /\ gone = {}
      /\ limited = FALSE /\ mCallbacks = <<>> /\ mIsLoading = FALSE
      /\ mCachedResult = NoAd /\ expired = FALSE /\ asks = <<>> /\ loaded = 0
      /\ held = [s \in Screen |-> NoAd] /\ posted = [s \in Screen |-> NoAd]
      /\ shown = [s \in Screen |-> NoAd]
      /\ destroyed = {} /\ again = {} /\ spoilt = {}
  BY Zenon DEF Init
<1>1. NoAd \in Given /\ loaded \in 0..MaxAds /\ Len(mCallbacks) <= MaxPending
  BY <1>0, BoundsAssumption DEF Given, NoAd
<1>2. limited \in BOOLEAN /\ mIsLoading \in BOOLEAN /\ expired \in BOOLEAN
  BY <1>0, Zenon
<1>3. mCallbacks \in Seq(Screen) /\ asks \in Seq((1..2) \X (1..Params)) BY <1>0
<1>4. /\ held \in [Screen -> Given] /\ posted \in [Screen -> Given]
      /\ shown \in [Screen -> Given]
  BY Zenon, <1>0, <1>1
<1>5. AdTyped BY Zenon, <1>0, <1>1, <1>2, <1>3, <1>4 DEF AdTyped
<1>6. OneLoad BY Zenon, <1>0 DEF OneLoad
<1>7. Coming BY Zenon, <1>0, NoCallback DEF Coming
<1>8. ~IsAd(NoAd) BY BoundsAssumption DEF IsAd, Ad, NoAd
<1>9. Fresh BY Zenon, <1>0, <1>8, NoCallback DEF Fresh, FreshFor
<1>10. QED BY Zenon, <1>5, <1>6, <1>7, <1>9 DEF AdInv

(* Every step keeps the invariant of the ads.                               *)
LEMMA AdStep == AdInv /\ [Next]_vars => AdInv'
<1> SUFFICES ASSUME AdInv, [Next]_vars PROVE AdInv'
  BY Zenon
<1>1. ASSUME NEW s \in Screen, Request(s) PROVE AdInv' BY Zenon, <1>1, RequestKeeps
<1>2. ASSUME NEW s \in Screen, ShowNative(s) PROVE AdInv' BY Zenon, <1>2, ShowKeeps
<1>3. ASSUME NEW s \in Screen, Recreate(s) PROVE AdInv' BY Zenon, <1>3, RecreateKeeps
<1>4. ASSUME NEW i \in DOMAIN asks, Load(i) PROVE AdInv' BY Zenon, <1>4, LoadKeeps
<1>5. ASSUME NEW i \in DOMAIN asks, Fail(i) PROVE AdInv' BY Zenon, <1>5, FailKeeps
<1>6. CASE Expire BY Zenon, <1>6, ExpireKeeps
<1>7. CASE LimitChanges BY Zenon, <1>7, LimitKeeps
<1>8. CASE UNCHANGED vars
  <2>1. UNCHANGED <<isOpen, limited, mCallbacks, mIsLoading, mCachedResult, expired,
                    asks, loaded, current, gone, held, posted, destroyed, shown,
                    again, spoilt>>
    BY Zenon, <1>8 DEF vars, appVars, screenVars, histVars
  <2>2. AdTyped' /\ OneLoad' /\ Coming'
    BY Zenon, <2>1 DEF AdInv, AdTyped, Given, OneLoad, Coming
  <2>3. again' = {} => Fresh' BY Zenon, <2>1 DEF AdInv, Fresh, FreshFor
  <2>4. QED BY Zenon, <2>2, <2>3 DEF AdInv
<1>9. QED BY Zenon, <1>1, <1>2, <1>3, <1>4, <1>5, <1>6, <1>7, <1>8 DEF Next

(* The ads are fresh, whatever the requests, the answers of the SDK, the    *)
(* limit of the day and the recreations of the activity: transmit starts no *)
(* second load, no callback waits for none, and no screen is given a        *)
(* destroyed ad unless a screen asked again while an answer was on its way. *)
THEOREM AdsAreFresh == Spec => []AdsFresh
<1>1. AdInv => AdsFresh
  <2> SUFFICES ASSUME AdInv PROVE AdsFresh
    BY Zenon
  <2>1. /\ loaded \in Nat /\ MaxAds \in Nat /\ loaded \in 0..MaxAds
        /\ AdTyped /\ OneLoad /\ (again = {} => spoilt = {})
    BY BoundsAssumption DEF AdInv, AdTyped, Fresh
  <2>2. Given \subseteq Ad \cup {NoAd} /\ 1..loaded \subseteq Ad
    BY <2>1 DEF Given, Ad, NoAd
  <2>3. {isOpen, limited, mIsLoading, expired} \subseteq BOOLEAN
    BY <2>1, Zenon DEF AdTyped
  <2>4. IsAd(mCachedResult) \/ mCachedResult \in {NoAd, Failed}
    BY Zenon, <2>1, <2>2 DEF AdTyped, IsAd
  <2>5. \A i \in DOMAIN asks : asks[i] \in (1..2) \X (1..Params)
    <3>1. asks \in Seq((1..2) \X (1..Params)) BY Zenon, <2>1 DEF AdTyped
    <3>2. QED BY <3>1
  <2>6. /\ held \in [Screen -> Ad \cup {NoAd}] /\ posted \in [Screen -> Ad \cup {NoAd}]
        /\ shown \in [Screen -> Ad \cup {NoAd}] /\ destroyed \subseteq Ad
    BY Zenon, <2>1, <2>2 DEF AdTyped
  <2>7. TypeOK BY Zenon, <2>1, <2>3, <2>4, <2>5, <2>6 DEF AdTyped, TypeOK
  <2>8. QED BY Zenon, <2>1, <2>7 DEF AdsFresh, FreshUnlessAskedAgain
<1>2. QED BY AdInit, AdStep, <1>1, PTL DEF Spec

(* An ad that is an hour old is posted to no screen: transmit drops it from *)
(* the cache and loads another, and a result that arrives is never it.      *)
THEOREM ExpiredNotPosted == Spec => NoneExpired
<1>1. AdInv /\ [Next]_vars => [ExpiredUntold]_vars
  <2> SUFFICES ASSUME AdInv, Next, expired, NEW s \in Screen,
                      posted'[s] \notin {posted[s], NoAd}
               PROVE  posted'[s] # mCachedResult
    BY Zenon DEF ExpiredUntold
  <2>0. /\ posted \in [Screen -> Given] /\ loaded \in Nat /\ MaxAds \in Nat
        /\ loaded \in 0..MaxAds
        /\ mCachedResult \in Given \/ mCachedResult = Failed
    BY BoundsAssumption DEF AdInv, AdTyped
  <2>1. ASSUME NEW cb, NEW r, NEW post, NotifyResult(cb, r, post),
               post[s] \in {posted[s], NoAd}
        PROVE  IsAd(r) /\ posted'[s] = r
    BY Zenon, <2>1 DEF NotifyResult
  <2>2. ASSUME NEW cb, NEW cache, NEW post, Transmit(cb, cache, post),
               post[s] \in {posted[s], NoAd}
        PROVE  FALSE
    <3>1. ~IsAd(Limit) BY <2>0 DEF Limit, IsAd, Ad
    <3>2. \/ NotifyResult(cb, Limit, post) \/ posted' = post
          \/ Usable(cache) /\ NotifyResult(cb, cache, post)
      BY Zenon, <2>2 DEF Transmit
    <3>3. ~Usable(cache) BY Zenon DEF Usable
    <3>4. QED BY Zenon, <2>1, <2>2, <3>1, <3>2, <3>3
  <2>3. ASSUME NEW t \in Screen, Request(t) PROVE FALSE
    BY Zenon, <2>2, <2>3 DEF Request
  <2>4. ASSUME NEW t \in Screen, ShowNative(t) PROVE FALSE
    <3>1. [posted EXCEPT ![t] = NoAd][s] \in {posted[s], NoAd} BY Zenon, <2>0
    <3>2. QED BY Zenon, <2>2, <2>4, <3>1 DEF ShowNative
  <2>5. ASSUME NEW i \in DOMAIN asks, Load(i) PROVE posted'[s] # mCachedResult
    <3>1. NotifyResult(mCallbacks, loaded + 1, posted) /\ loaded < MaxAds
      BY Zenon, <2>5 DEF Load, FinalResult
    <3>2. posted'[s] = loaded + 1 BY Zenon, <2>1, <3>1
    <3>3. mCachedResult # loaded + 1 BY <2>0, <3>1 DEF Given, Failed
    <3>4. QED BY Zenon, <3>2, <3>3
  <2>6. ASSUME NEW i \in DOMAIN asks, Fail(i) PROVE FALSE
    <3>1. ~IsAd(Failed) BY <2>0 DEF Failed, IsAd, Ad
    <3>2. NotifyResult(mCallbacks, Failed, posted) \/ posted' = posted
      BY Zenon, <2>6 DEF Fail, FinalResult, screenVars
    <3>3. QED BY Zenon, <2>1, <3>1, <3>2
  <2>7. ASSUME (\E t \in Screen : Recreate(t)) \/ Expire \/ LimitChanges PROVE FALSE
    BY Zenon, <2>7 DEF Recreate, Expire, LimitChanges, screenVars
  <2>8. QED BY Zenon, <2>3, <2>4, <2>5, <2>6, <2>7 DEF Next
<1>2. QED BY AdInit, AdStep, <1>1, PTL DEF Spec, NoneExpired
=============================================================================
