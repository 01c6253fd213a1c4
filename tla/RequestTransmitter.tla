------------------------- MODULE RequestTransmitter -------------------------
(***************************************************************************)
(* Advertisements of one space: ad/request/RequestTransmitter.kt, asked by *)
(* screens that show a native ad (MainViewModel.kt, ResultViewModel.kt)    *)
(* and show it with ad/admob/AdmobShower.kt.  Everything runs on the main  *)
(* thread; the ad SDK answers later, and what a view model posts reaches   *)
(* its screen later still.                                                 *)
(***************************************************************************)
EXTENDS Naturals, Sequences, Functions

CONSTANTS Screen,     \* view models, one for each instance of the activity
          Params,     \* length of the list of ads to try
          MaxAds,     \* bound: ads that the SDK delivers
          MaxPending  \* bound: registered callbacks

ASSUME BoundsAssumption ==
  Params \in Nat \ {0} /\ MaxAds \in Nat /\ MaxPending \in Nat

Ad == 1..MaxAds
NoAd == 0
Failed == MaxAds + 1
Limit == MaxAds + 2

VARIABLES
  isOpen,    \* the space is SPACE_OPEN, whose list is tried twice
  limited,   \* AdvertiseManager.isLimited()
  mCallbacks, mIsLoading, mCachedResult,
  expired,   \* the cached result is an hour old
  asks,      \* requests the SDK has not answered: <<pass, index>>
  loaded,    \* ads delivered so far
  current,   \* the view model of the present activity
  gone,      \* those of past ones: nothing calls their onCleared
  held,      \* of each screen: the ad of the last result
  posted,    \* of each screen: the ad posted to it and not shown yet
  shown,     \* of each screen: the ad it shows
  destroyed, \* ads that were destroyed
  again,     \* history: screens that asked while an answer was on its way
  spoilt     \* history: screens that were given a destroyed ad to show

screenVars == <<held, posted, destroyed>>
histVars == <<again, spoilt>>
appVars == <<isOpen, current, gone>>
vars == <<appVars, limited, mCallbacks, mIsLoading, mCachedResult, expired, asks,
          loaded, screenVars, shown, histVars>>

Init ==
  /\ isOpen \in BOOLEAN /\ current \in Screen /\ gone = {}
  /\ limited = FALSE
  /\ mCallbacks = <<>> /\ mIsLoading = FALSE /\ mCachedResult = NoAd
  /\ expired = FALSE /\ asks = <<>> /\ loaded = 0
  /\ held = [s \in Screen |-> NoAd] /\ posted = held /\ shown = held
  /\ destroyed = {} /\ again = {} /\ spoilt = {}

IsAd(r) == r \in Ad

-----------------------------------------------------------------------------
(* The callback of a native screen destroys the ad its screen holds and     *)
(* holds the result instead.  A screen that is listed twice destroys the    *)
(* second time what it was given the first time.                            *)
Result(r) == IF IsAd(r) THEN r ELSE NoAd

GivenUp(callbacks, r) ==
  ({held[s] : s \in Range(callbacks)}
     \cup (IF IsInjective(callbacks) THEN {} ELSE {Result(r)})) \ {NoAd}

(* notifyResult: every callback runs, which unregisters it, and an ad is    *)
(* posted to its screen.                                                    *)
NotifyResult(callbacks, r, post) ==
  LET called == Range(callbacks)
  IN /\ mCallbacks' = <<>>
     /\ destroyed' = destroyed \cup GivenUp(callbacks, r)
     /\ held' = [s \in Screen |-> IF s \in called THEN Result(r) ELSE held[s]]
     /\ posted' = [s \in Screen |-> IF s \in called /\ IsAd(r) THEN r ELSE post[s]]

(* transmit, with the callbacks after the new one was added, and the cache  *)
(* and the posted ads as they are then.                                     *)
IsLoading == mIsLoading

Usable(cache) == IsAd(cache) /\ ~expired

Transmit(callbacks, cache, post) ==
  \/ /\ limited
     /\ NotifyResult(callbacks, Limit, post)
     /\ mCachedResult' = cache
     /\ UNCHANGED <<mIsLoading, asks>>
  \/ /\ ~limited /\ IsLoading
     /\ mCallbacks' = callbacks /\ mCachedResult' = cache
     /\ posted' = post
     /\ UNCHANGED <<mIsLoading, asks, held, destroyed>>
  \/ /\ ~limited /\ ~IsLoading /\ Usable(cache)
     /\ NotifyResult(callbacks, cache, post)
     /\ mCachedResult' = cache
     /\ UNCHANGED <<mIsLoading, asks>>
  \/ /\ ~limited /\ ~IsLoading /\ ~Usable(cache)
     /\ mCallbacks' = callbacks
     /\ mCachedResult' = IF IsAd(cache) THEN NoAd ELSE cache
     /\ mIsLoading' = TRUE
     /\ asks' = Append(asks, <<1, 1>>)
     /\ posted' = post
     /\ UNCHANGED <<held, destroyed>>

Request(s) ==
  /\ s = current
  /\ Len(mCallbacks) < MaxPending
  /\ Transmit(Append(mCallbacks, s), mCachedResult, posted)
  /\ again' = IF s \in Range(mCallbacks) \/ posted[s] # NoAd
              THEN again \cup {s} ELSE again
  /\ UNCHANGED <<appVars, limited, expired, loaded, shown, spoilt>>

-----------------------------------------------------------------------------
(* finalResult: the result is cached and told, then the load is over.       *)
BugStaysLoading(r) == mIsLoading' = IsAd(r)
EndLoad(r) == mIsLoading' = FALSE

FinalResult(i, r) ==
  /\ mCachedResult' = r
  /\ NotifyResult(mCallbacks, r, posted)
  /\ EndLoad(r)
  /\ expired' = FALSE
  /\ asks' = SubSeq(asks, 1, i - 1) \o SubSeq(asks, i + 1, Len(asks))
  /\ UNCHANGED <<appVars, limited, shown, histVars>>

(* onRequest answers with an ad.                                            *)
Load(i) ==
  /\ i \in DOMAIN asks /\ loaded < MaxAds
  /\ loaded' = loaded + 1
  /\ FinalResult(i, loaded + 1)

(* ... or fails: the next of the list is tried, then, for SPACE_OPEN, the   *)
(* whole list once more.                                                    *)
Retry(ask) ==
  IF ask[2] < Params THEN <<ask[1], ask[2] + 1>>
  ELSE IF isOpen /\ ask[1] = 1 THEN <<2, 1>> ELSE <<>>

Fail(i) ==
  /\ i \in DOMAIN asks
  /\ UNCHANGED loaded
  /\ IF Retry(asks[i]) # <<>>
     THEN /\ asks' = [asks EXCEPT ![i] = Retry(asks[i])]
          /\ UNCHANGED <<appVars, limited, mCallbacks, mIsLoading, mCachedResult,
                         expired, screenVars, shown, histVars>>
     ELSE FinalResult(i, Failed)

-----------------------------------------------------------------------------
(* The screen gets what was posted: showNative, which clears the cache and  *)
(* goes on to a request without a callback.                                 *)
BugKeepsCache == mCachedResult
ClearCache == NoAd

ShowNative(s) ==
  /\ s = current /\ posted[s] # NoAd
  /\ shown' = [shown EXCEPT ![s] = posted[s]]
  /\ spoilt' = IF posted[s] \in destroyed THEN spoilt \cup {s} ELSE spoilt
  /\ Transmit(mCallbacks, ClearCache, [posted EXCEPT ![s] = NoAd])
  /\ UNCHANGED <<appVars, limited, expired, loaded, again>>

(* An hour passes; the counters reach the limit of the day, or the day ends. *)
Expire ==
  /\ IsAd(mCachedResult) /\ ~expired
  /\ expired' = TRUE
  /\ UNCHANGED <<appVars, limited, mCallbacks, mIsLoading, mCachedResult, asks,
                 loaded, screenVars, shown, histVars>>

LimitChanges ==
  /\ limited' = ~limited
  /\ UNCHANGED <<appVars, mCallbacks, mIsLoading, mCachedResult, expired, asks,
                 loaded, screenVars, shown, histVars>>

Recreate(s) ==
  /\ s \notin gone \cup {current}
  /\ gone' = gone \cup {current}
  /\ current' = s
  /\ UNCHANGED <<isOpen, limited, mCallbacks, mIsLoading, mCachedResult, expired,
                 asks, loaded, screenVars, shown, histVars>>

Next ==
  \/ \E s \in Screen : Request(s) \/ ShowNative(s) \/ Recreate(s)
  \/ \E i \in DOMAIN asks : Load(i) \/ Fail(i)
  \/ Expire \/ LimitChanges

(* The SDK answers every request, one way or the other.                     *)
Spec == Init /\ [][Next]_vars
FairSpec == Spec /\ WF_vars(\E i \in DOMAIN asks : Load(i) \/ Fail(i))

-----------------------------------------------------------------------------
(* Every variable keeps its kind.                                           *)
TypeOK ==
  /\ {isOpen, limited, mIsLoading, expired} \subseteq BOOLEAN
  /\ current \in Screen /\ gone \subseteq Screen
  /\ mCallbacks \in Seq(Screen) /\ Len(mCallbacks) <= MaxPending
  /\ IsAd(mCachedResult) \/ mCachedResult \in {NoAd, Failed}
  /\ \A i \in DOMAIN asks : asks[i] \in (1..2) \X (1..Params)
  /\ loaded \in 0..MaxAds
  /\ held \in [Screen -> Ad \cup {NoAd}] /\ posted \in [Screen -> Ad \cup {NoAd}]
  /\ shown \in [Screen -> Ad \cup {NoAd}]
  /\ destroyed \subseteq Ad /\ again \subseteq Screen /\ spoilt \subseteq Screen

(* The space has one load under way while mIsLoading says so, and none      *)
(* otherwise: callbacks never start a second one, and never wait for none.  *)
OneLoad ==
  /\ Len(asks) = IF mIsLoading THEN 1 ELSE 0
  /\ mCallbacks # <<>> => mIsLoading

(* A screen is never given a destroyed ad to show, unless a screen asked    *)
(* again while it was registered or an ad was on its way to it: its         *)
(* callback then runs twice for one ad and destroys it the second time.     *)
FreshUnlessAskedAgain == again = {} => spoilt = {}

(* An ad that expired is not told to anybody: a posted ad was cached less   *)
(* than an hour before.                                                     *)
ExpiredUntold ==
  expired => \A s \in Screen : \/ posted'[s] \in {posted[s], NoAd}
                              \/ posted'[s] # mCachedResult

NoneExpired == [][ExpiredUntold]_vars

(* Every screen that asks is answered, with an ad, a failure or the limit.  *)
RequestAnswered ==
  \A s \in Screen : s \in Range(mCallbacks) ~> s \notin Range(mCallbacks)
=============================================================================
