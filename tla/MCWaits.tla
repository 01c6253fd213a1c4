------------------------------ MODULE MCWaits ------------------------------
(* What the app waits for: ads (two screens, of which one may belong to an  *)
(* activity that is gone, and a list of two ads), and the end of a tap on   *)
(* the button (two activities in a row, one tap, one fault of the service). *)
(*                                                                          *)
(* The two share no state, so they need not be interleaved: part says which *)
(* of them moves in this behaviour; the other stays as it is.               *)
EXTENDS RequestTransmitter

CONSTANTS Models, NoModel, MaxFlows, MaxFaults

VARIABLES
  part,
  svc, starting, starts, closes, ioStarts, bound, linked, lost, dead, news,
  mSsState, mState, clock, activity, phase, wasConnected, forConnect,
  mConnectAdResult, asked, flows, faults, late, orphaned, upset

Button == INSTANCE ServerManager WITH gone <- lost

buttonVars == <<svc, starting, starts, closes, ioStarts, bound, linked, lost,
                dead, news, mSsState, mState, clock, activity, phase,
                wasConnected, forConnect, mConnectAdResult, asked, flows,
                faults, late, orphaned, upset>>
all == <<part, vars, buttonVars>>

MCInit ==
  /\ part \in {"ads", "button"}
  /\ Init /\ (part # "ads" => isOpen /\ current = CHOOSE s \in Screen : TRUE)
  /\ Button!Init

MCNext ==
  /\ UNCHANGED part
  /\ \/ part = "ads" /\ Next /\ UNCHANGED buttonVars
     \/ part = "button" /\ Button!Next /\ UNCHANGED vars

(* The fairness of each component, for the one that moves.                  *)
MCSpec ==
  /\ MCInit /\ [][MCNext]_all
  /\ WF_vars(part = "ads" /\ \E i \in DOMAIN asks : Load(i) \/ Fail(i))
  /\ \A m \in Models : /\ WF_buttonVars(part = "button" /\ Button!timeOut(m))
                       /\ WF_buttonVars(part = "button" /\ Button!startResult(m))

-----------------------------------------------------------------------------
(* An ad is fresh: no screen is given a destroyed ad to show, unless it     *)
(* asked again, and one load at most is under way.                          *)
AdsFresh == TypeOK /\ FreshUnlessAskedAgain /\ OneLoad

(* Every screen that asks is answered, with an ad, a failure or the limit,  *)
(* and never with an ad that has expired.                                   *)
AdsAnswered == RequestAnswered /\ NoneExpired

(* The button comes back: a wait ends in an enabled button or in an ad,     *)
(* whether or not the service and the ad ever answer.                       *)
ButtonReturns == Button!ButtonReturns
=============================================================================
