------------------------------- MODULE MCApp -------------------------------
(* The two screens of the app: the button that connects (two activities in  *)
(* a row, two taps, one fault of the service), and the tabs of the browser  *)
(* (two tabs, two activities, one load in each order with the others).      *)
(*                                                                          *)
(* The two share no state, so they need not be interleaved: part says which *)
(* of them moves in this behaviour; the other stays as it is.               *)
(*                                                                          *)
(* What follows the end of an activity in the middle of a flow is excepted  *)
(* from all that is asked of the button here, so the behaviour ends there;  *)
(* MCWaits goes on.                                                         *)
EXTENDS TabManager, TLC

CONSTANTS Models, NoModel, MaxFlows, MaxFaults

ASSUME ButtonAssumption ==
  NoModel \notin Models /\ MaxFlows \in Nat /\ MaxFaults \in Nat

VARIABLES
  part,
  svc, starting, starts, closes, ioStarts, bound, linked, gone, dead, news,
  mSsState, mState, clock, activity, phase, wasConnected, forConnect,
  mConnectAdResult, asked, flows, faults, late, orphaned, upset

Button == INSTANCE ServerManager

buttonVars == <<svc, starting, starts, closes, ioStarts, bound, linked, gone,
                dead, news, mSsState, mState, clock, activity, phase,
                wasConnected, forConnect, mConnectAdResult, asked, flows,
                faults, late, orphaned, upset>>
all == <<part, vars, buttonVars>>

MCInit == part \in {"button", "tabs"} /\ Init /\ Button!Init

MCNext ==
  /\ UNCHANGED part
  /\ \/ part = "button" /\ ~orphaned /\ Button!Next /\ UNCHANGED vars
     \/ part = "tabs" /\ Next /\ UNCHANGED buttonVars

MCSpec == MCInit /\ [][MCNext]_all

Symmetry == Permutations(Models)

-----------------------------------------------------------------------------
(* PrivateUnlogged is that of TabManager.                                   *)

(* Between flows the button is as it should be: it shows no transition, and *)
(* the clock runs just when it shows CONNECTED, unless an activity was      *)
(* destroyed in the middle of a flow or, for the clock, the flows were      *)
(* upset.                                                                   *)
ButtonAtRest ==
  Button!TypeOK /\ Button!NoTransitionLeft /\ Button!ClockAsShown

(* Between flows, when nothing is on its way any more, a service that runs  *)
(* is shown as CONNECTED, with the exceptions ServerManager names.          *)
NoHiddenConnection == Button!NoHiddenConnection

(* While a host is attached the foreground tab is one of the tabs, none of  *)
(* which is destroyed or listed twice; a host in use is the one attached    *)
(* and has a tab to show, unless it was made before the last one was        *)
(* destroyed.                                                               *)
TabsServed == TypeOK /\ ForegroundListed /\ HostServed

(* The screen is right: a started host shows the view its foreground tab    *)
(* stands at, once posted views have come, unless the tab was changed with  *)
(* one on its way; and a tab stands at its home page if its page is the     *)
(* placeholder, and only there or at a page it cannot go back from, unless  *)
(* a page report came to the wrong tab.                                     *)
ScreenRight == ShowsForeground /\ HomeAsPage
=============================================================================
