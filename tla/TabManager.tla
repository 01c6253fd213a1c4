----------------------------- MODULE TabManager -----------------------------
(***************************************************************************)
(* The tabs of the browser: browser/tab/manager/TabManager.kt with its     *)
(* tabs (WebTabImpl.kt), their web engines (AndroidWebEngine.kt,           *)
(* WebEngineViewModel.kt) and their host (BrowserActivity.kt).             *)
(*                                                                         *)
(* Everything is on the main thread, but in pieces: a page reports its     *)
(* start and its end when it likes, a load is delayed by 100 ms, the host  *)
(* gets a posted view later and nothing while it is stopped, and Android   *)
(* may destroy a host after its successor was created.                     *)
(***************************************************************************)
EXTENDS Naturals, Sequences, FiniteSets, Functions

CONSTANTS MaxTabs,    \* bound: tabs made
          MaxHosts,   \* bound: hosts made
          MaxLoads    \* bound: loads and steps back or forth

ASSUME TabsAssumption == {MaxTabs, MaxHosts, MaxLoads} \subseteq Nat

Tab == 1..MaxTabs
None == 0
Home == "home"                       \* HOME_PLACEHOLDER_URL
Address == {"plain", "private"}      \* private: chosen for an incognito tab
Page == Address \cup {Home}
NoPage == "none"
NoView == <<None, TRUE>>

VARIABLES
  mHost, mWebTabs, mForegroundTab,
  made,       \* tabs made so far
  tab,        \* mTabHost, mIsHomePos, isIncognitoMode, and of the web view
              \* the pages it took up, the one last reported and
              \* the reports it will make
  loads,      \* loads so far
  delayed,    \* loads that wait for their 100 ms
  history,    \* the addresses browserHistoryDao holds
  first,      \* the oldest page each web view can go back to: the first one
              \* it reported, NoPage before
  hosts,      \* hosts made so far: the newest one is the one in use
  alive,      \* hosts not destroyed yet
  active,     \* the newest host is started, so that its LiveData delivers
  finishing,  \* the newest host is finishing
  manager,    \* the tabs the tab manager lists, {} when it is closed
  curTab, tabDirty,     \* LiveData curTab, and whether it has to be shown
  viewPost, viewDirty,  \* LiveData curTabView: posted, and set but not shown
  content,    \* what the newest host shows: a tab and whether its home page
  moved,      \* history: a delayed load met another tab than its own
  crossed,    \* history: a page turned, or failed to turn, the wrong tab
  overtaken,  \* history: the tab was changed while a view was on its way
  overlap     \* history: this host was made before the last was destroyed

tabVars  == <<mHost, mWebTabs, mForegroundTab, made, tab>>
loadVars == <<loads, delayed, history, first>>
hostVars == <<hosts, alive, active, finishing>>
viewVars == <<curTab, tabDirty, viewPost, viewDirty, content>>
histVars == <<moved, crossed, overtaken, overlap>>
turnFrame == <<mHost, mWebTabs, mForegroundTab, made, hostVars, manager, curTab, tabDirty,
               viewDirty, content, overtaken, overlap>>
vars == <<tabVars, loadVars, hostVars, manager, viewVars, histVars>>

NoTab == [host |-> None, home |-> TRUE, incognito |-> FALSE, seen |-> {}, page |-> Home, reports |-> <<>>]

Reports(p) == <<[page |-> p, start |-> TRUE], [page |-> p, start |-> FALSE]>>

Init ==
  /\ mHost = None /\ mWebTabs = <<>> /\ mForegroundTab = None /\ made = 0
  /\ tab = [t \in Tab |-> NoTab]
  /\ loads = 0 /\ delayed = {} /\ history = {} /\ first = [t \in Tab |-> NoPage]
  /\ hosts = 0 /\ alive = {} /\ active = FALSE /\ finishing = FALSE
  /\ manager = {}
  /\ curTab = None /\ tabDirty = FALSE
  /\ viewPost = NoView /\ viewDirty = NoView /\ content = NoView
  /\ moved = FALSE /\ crossed = FALSE /\ overtaken = FALSE /\ overlap = FALSE

InUse == hosts \in alive /\ ~finishing

-----------------------------------------------------------------------------
(* changeToTab, with onTabChanged of the host: the observer of curTab shows *)
(* the view that the tab has at that moment.                                *)
ChangeToTab(t) ==
  /\ mForegroundTab' = t
  /\ IF mHost = None THEN UNCHANGED <<curTab, tabDirty, content, overtaken>>
     ELSE /\ curTab' = t
          /\ overtaken' = (overtaken \/ viewPost # NoView \/ viewDirty # NoView)
          /\ tabDirty' = ~active
          /\ content' = IF active THEN <<t, tab'[t].home>> ELSE content

(* A tab made and attached: its engine loads the placeholder.               *)
Attached(host, inc) ==
  [host |-> host, home |-> TRUE, incognito |-> inc, seen |-> {Home}, page |-> Home,
   reports |-> Reports(Home)]

(* addTab and addIncognitoTab: nothing without a host.                      *)
Add(inc) ==
  IF mHost = None THEN UNCHANGED <<tabVars, curTab, tabDirty, content, overtaken>>
  ELSE LET t == made + 1
       IN /\ made < MaxTabs
          /\ made' = t
          /\ tab' = [tab EXCEPT ![t] = Attached(mHost, inc)]
          /\ mWebTabs' = Append(mWebTabs, t)
          /\ ChangeToTab(t)
          /\ UNCHANGED mHost

(* From the menu of the host or from the tab manager, which closes.         *)
AddTab(inc) ==
  /\ InUse
  /\ Add(inc)
  /\ manager' = {}
  /\ UNCHANGED <<loadVars, hostVars, viewPost, viewDirty, moved, crossed, overlap>>

(* addTabAndLoadTagUrl and its incognito form.                              *)
AddTabAndLoad(a) ==
  /\ InUse /\ manager = {} /\ loads < MaxLoads
  /\ Add(a = "private")
  /\ loads' = loads + 1
  /\ delayed' = delayed \cup {[tab |-> IF mHost = None THEN None ELSE made', address |-> a]}
  /\ UNCHANGED <<history, first, hostVars, manager, viewPost, viewDirty, moved, crossed, overlap>>

-----------------------------------------------------------------------------
(* changeViewTo of tab t in `tabs`: its host gets the new view posted.      *)
Turn(t, home, tabs) ==
  /\ tab' = [tabs EXCEPT ![t].home = home]
  /\ viewPost' = IF tabs[t].home # home /\ tabs[t].host = hosts /\ hosts \in alive
                 THEN <<t, home>> ELSE viewPost

(* The web view of t takes up page p.  Reports of the page it leaves may    *)
(* still come; a destroyed web view does and reports nothing.               *)
Taken(t, p, keep) ==
  IF tab[t].host = None THEN tab
  ELSE [tab EXCEPT ![t].seen = @ \cup {p},
                   ![t].reports = (IF keep THEN @ ELSE <<>>) \o Reports(p)]

(* After 100 ms the foreground tab, whichever it is by then, loads the      *)
(* address; ensureWebResult turns it first.                                 *)
DelayedLoad(d) ==
  /\ delayed' = delayed \ {d}
  /\ IF mForegroundTab = None THEN UNCHANGED <<tab, viewPost>>
     ELSE \E keep \in BOOLEAN : Turn(mForegroundTab, FALSE, Taken(mForegroundTab, d.address, keep))
  /\ moved' = (moved \/ mForegroundTab # d.tab)
  /\ UNCHANGED <<turnFrame, loads, history, first, crossed>>

(* An address or a search for the foreground tab (loadUrl, searchContent).  *)
Load ==
  /\ InUse /\ manager = {} /\ mForegroundTab # None /\ loads < MaxLoads
  /\ loads' = loads + 1
  /\ \E keep \in BOOLEAN : Turn(mForegroundTab, FALSE, Taken(mForegroundTab, "plain", keep))
  /\ UNCHANGED <<turnFrame, delayed, history, first, moved, crossed>>

(* goHome: the load of the placeholder turns the tab, goHome turns it back; *)
(* the last posted view counts.                                             *)
GoHome(t) ==
  /\ InUse /\ active /\ t \in {curTab, mForegroundTab} \ {None} /\ loads < MaxLoads
  /\ loads' = loads + 1
  /\ \E keep \in BOOLEAN : tab' = [Taken(t, Home, keep) EXCEPT ![t].home = TRUE]
  /\ viewPost' = IF tab[t].host = hosts THEN <<t, TRUE>> ELSE viewPost
  /\ UNCHANGED <<turnFrame, delayed, history, first, moved, crossed>>

(* goBack, goForward and refreshWeb of the engine go to a page it has seen; *)
(* goForward from the home page turns the tab as well.                      *)
Navigate(t) ==
  /\ InUse /\ active /\ t \in {curTab, mForegroundTab} \ {None} /\ loads < MaxLoads
  /\ loads' = loads + 1
  /\ \E p \in tab[t].seen, keep, turn \in BOOLEAN :
       Turn(t, tab[t].home /\ ~turn, Taken(t, p, keep))
  /\ UNCHANGED <<turnFrame, delayed, history, first, moved, crossed>>

(* The web view of t surely has a page to go back to: it is at another page *)
(* than its first, and so is what it has still to report.  The first is the *)
(* placeholder, unless loadUrl stopped that before it began.  A destroyed   *)
(* web view goes nowhere.                                                   *)
canGoBack(t) ==
  /\ tab[t].host # None
  /\ first[t] \notin {NoPage, tab[t].page} \cup {r.page : r \in Range(tab[t].reports)}

(* onBackPressed without a page to go back to (with one it is Navigate):    *)
(* the home page first, then the end of the host.                           *)
BackPressed ==
  /\ InUse /\ active /\ manager = {} /\ mForegroundTab # None
  /\ ~canGoBack(mForegroundTab)
  /\ IF tab[mForegroundTab].home
     THEN finishing' = TRUE /\ UNCHANGED <<tab, viewPost>>
     ELSE Turn(mForegroundTab, TRUE, tab) /\ UNCHANGED finishing
  /\ UNCHANGED <<mHost, mWebTabs, mForegroundTab, made, loadVars, hosts, alive, active,
                 manager, curTab, tabDirty, viewDirty, content, histVars>>

(* What a page report makes of the tab: its home page or the web result.    *)
TurnsHome(p) == p = Home

(* onPageStarted adds a page other than the placeholder to the history.     *)
BugLogsIncognito(t, r) == r.start /\ r.page # Home
Logs(t, r) == r.start /\ r.page # Home /\ ~tab[t].incognito

(* onPageStarted and onPageFinished of the engine of t: setCurWebUrl turns  *)
(* the tab in the foreground, which need not be t.                          *)
PageReport(t) ==
  /\ tab[t].reports # <<>>
  /\ LET r == Head(tab[t].reports)
         home == TurnsHome(r.page)
     IN /\ Turn(mForegroundTab, home, [tab EXCEPT ![t].reports = Tail(@), ![t].page = r.page])
        /\ history' = history \cup (IF Logs(t, r) THEN {r.page} ELSE {})
        /\ crossed' = (crossed \/ (t # mForegroundTab
                                    /\ \E u \in {t, mForegroundTab} : tab[u].home # home))
        /\ first' = [first EXCEPT ![t] = IF @ = NoPage THEN r.page ELSE @]
  /\ UNCHANGED <<turnFrame, loads, delayed, moved>>

-----------------------------------------------------------------------------
(* The tab manager lists the tabs there are when it opens.                  *)
OpenManager ==
  /\ InUse /\ active /\ manager = {} /\ curTab # None /\ tab[curTab].host # None
  /\ manager' = Range(mWebTabs)
  /\ UNCHANGED <<tabVars, loadVars, hostVars, viewVars, histVars>>

LeaveManager ==
  /\ manager # {} /\ manager' = {}
  /\ UNCHANGED <<tabVars, loadVars, hostVars, viewVars, histVars>>

Select(t) ==
  /\ t \in manager /\ manager' = {}
  /\ UNCHANGED <<mHost, mWebTabs, made, tab>>
  /\ ChangeToTab(t)
  /\ UNCHANGED <<loadVars, hostVars, viewPost, viewDirty, moved, crossed, overlap>>

(* detach of a tab destroys its web view.                                   *)
Detached(tabs, ts) ==
  [t \in Tab |-> IF t \in ts THEN [tabs[t] EXCEPT !.host = None, !.reports = <<>>] ELSE tabs[t]]

(* The list without the first t in it.                                      *)
Without(t) ==
  LET i == CHOOSE i \in DOMAIN mWebTabs :
             mWebTabs[i] = t /\ \A j \in 1..(i - 1) : mWebTabs[j] # t
  IN SubSeq(mWebTabs, 1, i - 1) \o SubSeq(mWebTabs, i + 1, Len(mWebTabs))

(* removeTab of a tab in the list: the foreground passes to the first tab   *)
(* left, or to a new one (ensureTab).                                       *)
BugRemoveOnly(t) ==
  /\ mWebTabs' = Without(t)
  /\ tab' = Detached(tab, {t})
  /\ UNCHANGED <<mForegroundTab, made, curTab, tabDirty, content, overtaken>>

Removed(t) ==
  LET rest == Without(t)
      n == made + 1
  IN IF t # mForegroundTab
     THEN /\ mWebTabs' = rest /\ tab' = Detached(tab, {t})
          /\ UNCHANGED <<mForegroundTab, made, curTab, tabDirty, content, overtaken>>
     ELSE IF rest # <<>>
     THEN /\ mWebTabs' = rest /\ tab' = Detached(tab, {t})
          /\ ChangeToTab(Head(rest))
          /\ UNCHANGED made
     ELSE /\ made < MaxTabs /\ made' = n /\ mWebTabs' = <<n>>
          /\ tab' = [Detached(tab, {t}) EXCEPT ![n] = Attached(mHost, FALSE)]
          /\ ChangeToTab(n)

RemoveTab(t) ==
  /\ t \in manager /\ manager' = manager \ {t}
  /\ IF t \in Range(mWebTabs) THEN Removed(t)
     ELSE UNCHANGED <<mWebTabs, mForegroundTab, made, tab, curTab, tabDirty, content, overtaken>>
  /\ UNCHANGED <<mHost, loadVars, hostVars, viewPost, viewDirty, moved, crossed, overlap>>

-----------------------------------------------------------------------------
(* onCreate of a host: attach, with ensureTab, before its observers exist.  *)
Attach(h) ==
  LET t == made + 1
  IN /\ mHost' = h
     /\ IF mWebTabs = <<>>
        THEN /\ made < MaxTabs /\ made' = t
             /\ tab' = [tab EXCEPT ![t] = Attached(h, FALSE)]
             /\ mWebTabs' = <<t>> /\ mForegroundTab' = t
             /\ curTab' = t /\ tabDirty' = TRUE
        ELSE /\ curTab' = None /\ tabDirty' = FALSE
             /\ UNCHANGED <<mWebTabs, mForegroundTab, made, tab>>

Create ==
  /\ hosts < MaxHosts /\ ~InUse
  /\ hosts' = hosts + 1 /\ alive' = alive \cup {hosts + 1}
  /\ active' = FALSE /\ finishing' = FALSE /\ manager' = {}
  /\ overlap' = (alive # {})
  /\ Attach(hosts + 1)
  /\ viewPost' = NoView /\ viewDirty' = NoView /\ content' = NoView
  /\ UNCHANGED <<loadVars, moved, crossed, overtaken>>

(* onDestroy of any host detaches the manager from the one attached.        *)
Destroy(h) ==
  /\ h = hosts => ~active
  /\ alive' = alive \ {h}
  /\ mHost' = None /\ tab' = Detached(tab, Range(mWebTabs)) /\ mWebTabs' = <<>>
  /\ viewPost' = IF h = hosts THEN NoView ELSE viewPost
  /\ UNCHANGED <<mForegroundTab, made, loadVars, hosts, active, finishing, manager,
                 curTab, tabDirty, viewDirty, content, histVars>>

Stop ==
  /\ active /\ active' = FALSE
  /\ UNCHANGED <<tabVars, loadVars, hosts, alive, finishing, manager, viewVars, histVars>>

(* What changed while the host was stopped is shown now: curTab first, then *)
(* curTabView, the order in which they are observed.                        *)
Start ==
  /\ InUse /\ ~active /\ manager = {}
  /\ active' = TRUE /\ tabDirty' = FALSE /\ viewDirty' = NoView
  /\ content' = IF viewDirty # NoView THEN viewDirty
                ELSE IF tabDirty THEN <<curTab, tab[curTab].home>> ELSE content
  /\ UNCHANGED <<tabVars, loadVars, hosts, alive, finishing, manager, curTab, viewPost, histVars>>

(* The posted value is set; a stopped host shows it later.                  *)
BugRunPost ==
  /\ viewPost # NoView /\ viewPost' = NoView
  /\ content' = IF active THEN viewPost ELSE content
  /\ UNCHANGED <<tabVars, loadVars, hostVars, manager, curTab, tabDirty, viewDirty, histVars>>

RunPost ==
  /\ viewPost # NoView /\ viewPost' = NoView
  /\ IF active THEN content' = viewPost /\ UNCHANGED viewDirty
     ELSE viewDirty' = viewPost /\ UNCHANGED content
  /\ UNCHANGED <<tabVars, loadVars, hostVars, manager, curTab, tabDirty, histVars>>

Next ==
  \/ \E inc \in BOOLEAN : AddTab(inc)
  \/ \E a \in Address : AddTabAndLoad(a)
  \/ \E d \in delayed : DelayedLoad(d)
  \/ \E t \in Tab : \/ GoHome(t) \/ Navigate(t) \/ PageReport(t) \/ Select(t) \/ RemoveTab(t)
  \/ \E h \in alive : Destroy(h)
  \/ Load \/ BackPressed \/ OpenManager \/ LeaveManager
  \/ Create \/ Stop \/ Start \/ RunPost

Spec == Init /\ [][Next]_vars

-----------------------------------------------------------------------------
(* Every variable keeps its kind, and a tab that was detached has no web    *)
(* view that still reports pages.                                           *)
TypeOK ==
  /\ mHost \in 0..MaxHosts /\ mForegroundTab \in Tab \cup {None} /\ made \in 0..MaxTabs
  /\ mWebTabs \in Seq(Tab) /\ manager \subseteq Tab /\ curTab \in Tab \cup {None}
  /\ \A t \in Tab : /\ tab[t].host \in 0..MaxHosts /\ tab[t].home \in BOOLEAN
                    /\ tab[t].seen \subseteq Page /\ tab[t].page \in Page
                    /\ tab[t].host = None => tab[t].reports = <<>>
  /\ loads \in 0..MaxLoads /\ delayed \subseteq [tab : Tab \cup {None}, address : Address]
  /\ history \subseteq Address /\ first \in [Tab -> Page \cup {NoPage}]
  /\ hosts \in 0..MaxHosts /\ alive \subseteq 1..hosts
  /\ {content, viewPost, viewDirty} \subseteq (Tab \cup {None}) \X BOOLEAN
  /\ {active, finishing, tabDirty, moved, crossed, overtaken, overlap} \subseteq BOOLEAN

(* While a host is attached the foreground tab is one of the tabs (see      *)
(* changeToTab, removeTab), none of which is destroyed or listed twice.     *)
ForegroundListed ==
  mHost # None /\ ~overlap =>
    /\ mForegroundTab \in Range(mWebTabs)
    /\ \A t \in Range(mWebTabs) : tab[t].host = mHost
    /\ IsInjective(mWebTabs)

(* A host in use is the one attached and has a tab to show, unless it was   *)
(* made before the last one was destroyed: the detach of the old one, which *)
(* does not look whom it detaches, then takes its tabs.                     *)
HostServed == InUse /\ ~overlap => mHost = hosts /\ mWebTabs # <<>>

(* A started host shows the view its foreground tab stands at, once posted  *)
(* views have come, unless the tab was changed with one on its way.         *)
ShowsForeground ==
  InUse /\ active /\ viewPost = NoView /\ ~overtaken /\ ~overlap
    => content = <<mForegroundTab, tab[mForegroundTab].home>>

(* A tab whose pages have all been reported stands at its home page if its  *)
(* page is the placeholder, and at the web result if it is an address that  *)
(* Back has a page behind; at its first page it may stand at either (goHome *)
(* in onBackPressed loads nothing).  Excepted is a page report that came to *)
(* the wrong tab (setCurWebUrl turns the foreground tab).                   *)
HomeAsPage ==
  mHost # None /\ ~crossed /\ ~overlap =>
    \A t \in Range(mWebTabs) : tab[t].reports = <<>> =>
      IF tab[t].page = Home THEN tab[t].home ELSE tab[t].home => ~canGoBack(t)

(* An address opened in an incognito tab does not come into the history,    *)
(* unless another tab took the foreground before the delayed load.          *)
PrivateUnlogged == ~moved => "private" \notin history
=============================================================================
