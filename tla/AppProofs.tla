----------------------------- MODULE AppProofs -----------------------------
(***************************************************************************)
(* The two screens of the app, for any number of tabs, hosts, loads, flows *)
(* and faults.                                                             *)
(*                                                                         *)
(* Tabs.  What Logs tests is the tab that reports, so Secret has to say    *)
(* where a private address can be: only in what an incognito tab has seen  *)
(* or has still to report, and in delayed loads made for an incognito tab, *)
(* which nobody turns into an ordinary one.  DelayedLoad breaks this when  *)
(* it finds another tab in the foreground, which is what moved records.    *)
(* TabInv says whose the tabs are and which view is the last one on its    *)
(* way to the screen, in whichever of the three places it waits.           *)
(*                                                                         *)
(* Button.  ButtonInv says what the app was last told of the service and   *)
(* has still to be told, and which flow each request belongs to.           *)
(***************************************************************************)
EXTENDS MCApp, TLAPS

(* What a tab is, and what is known of where private addresses are.         *)
Report == [page : Page, start : BOOLEAN]

TabRecord ==
  [host : Nat, home : BOOLEAN, incognito : BOOLEAN, seen : SUBSET Page,
   page : Page, reports : Seq(Report)]

Types ==
  /\ tab \in [Tab -> TabRecord]
  /\ made \in Nat
  /\ mHost \in Nat /\ hosts \in Nat
  /\ \A d \in delayed : d.address \in Address

NoPrivate(reports) == \A i \in 1 .. Len(reports) : reports[i].page # "private"

(* An ordinary tab knows no private address.                                *)
Kept(r) == ~r.incognito => "private" \notin r.seen /\ NoPrivate(r.reports)

(* A delayed load of a private address is for an incognito tab.             *)
ForIncognito(d) ==
  d.address = "private" =>
    d.tab = None \/ (d.tab \in Tab /\ d.tab <= made /\ tab[d.tab].incognito)

Secret ==
  ~moved => /\ \A t \in Tab : Kept(tab[t])
            /\ \A d \in delayed : ForIncognito(d)
            /\ "private" \notin history

IInv == Types /\ Secret

-----------------------------------------------------------------------------
(* What a web view will report of a page it takes up.                       *)
LEMMA ReportsType ==
  ASSUME NEW p \in Page
  PROVE  /\ Reports(p) \in Seq(Report)
         /\ p # "private" => NoPrivate(Reports(p))
<1>1. [page |-> p, start |-> TRUE] \in Report /\ [page |-> p, start |-> FALSE] \in Report
  BY Zenon DEF Report
<1>2. Reports(p) \in Seq(Report) /\ Len(Reports(p)) = 2
  BY <1>1 DEF Reports
<1>3. Reports(p)[1].page = p /\ Reports(p)[2].page = p BY Zenon DEF Reports
<1>4. QED BY <1>2, <1>3 DEF NoPrivate

(* Reports come one after the other.                                        *)
LEMMA Appended ==
  ASSUME NEW r \in Seq(Report), NEW s \in Seq(Report)
  PROVE  /\ r \o s \in Seq(Report)
         /\ NoPrivate(r) /\ NoPrivate(s) => NoPrivate(r \o s)
<1>1. r \o s \in Seq(Report) /\ Len(r \o s) = Len(r) + Len(s) OBVIOUS
<1>2. ASSUME NoPrivate(r), NoPrivate(s), NEW i \in 1 .. Len(r \o s)
      PROVE  (r \o s)[i].page # "private"
  <2>1. CASE i <= Len(r)
    <3>1. (r \o s)[i] = r[i] /\ i \in 1 .. Len(r) BY <1>1, <2>1
    <3>2. QED BY Zenon, <1>2, <3>1 DEF NoPrivate
  <2>2. CASE i > Len(r)
    <3>1. (r \o s)[i] = s[i - Len(r)] /\ i - Len(r) \in 1 .. Len(s) BY <1>1, <2>2
    <3>2. QED BY Zenon, <1>2, <3>1 DEF NoPrivate
  <2>3. QED BY <1>1, <2>1, <2>2
<1>3. QED BY Zenon, <1>1, <1>2 DEF NoPrivate

(* What is left when the first report is made.                              *)
LEMMA TailKept ==
  ASSUME NEW r \in Seq(Report), r # <<>>
  PROVE  /\ Tail(r) \in Seq(Report) /\ Head(r) \in Report
         /\ NoPrivate(r) => NoPrivate(Tail(r)) /\ Head(r).page # "private"
<1>1. /\ Tail(r) \in Seq(Report) /\ Head(r) = r[1] /\ Head(r) \in Report
      /\ Len(r) \in Nat /\ Len(r) > 0 /\ Len(Tail(r)) = Len(r) - 1
      /\ \A i \in 1 .. Len(Tail(r)) : Tail(r)[i] = r[i + 1]
  OBVIOUS
<1>2. 1 \in 1 .. Len(r) /\ \A i \in 1 .. Len(Tail(r)) : i + 1 \in 1 .. Len(r) BY <1>1
<1>3. QED BY Zenon, <1>1, <1>2 DEF NoPrivate

-----------------------------------------------------------------------------
(* tabs becomes tabs1 without anything private coming into an ordinary tab. *)
Calm(tabs, tabs1) ==
  /\ tabs1 \in [Tab -> TabRecord]
  /\ \A t \in Tab : /\ tabs1[t].incognito = tabs[t].incognito
                    /\ Kept(tabs[t]) => Kept(tabs1[t])

(* Two calm steps are one.                                                  *)
LEMMA CalmTwice ==
  ASSUME NEW a, NEW b, NEW c, Calm(a, b), Calm(b, c)
  PROVE  Calm(a, c)
  BY Zenon DEF Calm

(* The provers do better with the fields whose sets they need not know.     *)
LEMMA Fields ==
  \E S, Q : /\ S = SUBSET Page /\ Q = Seq(Report)
            /\ TabRecord = [host : Nat, home : BOOLEAN, incognito : BOOLEAN,
                            seen : S, page : Page, reports : Q]
  BY Zenon DEF TabRecord

(* Turning a tab to its home page or to the web result (changeViewTo) is    *)
(* calm.                                                                    *)
LEMMA CalmHome ==
  ASSUME NEW tabs \in [Tab -> TabRecord], NEW t, NEW home \in BOOLEAN
  PROVE  Calm(tabs, [tabs EXCEPT ![t].home = home])
<1> DEFINE tabs1 == [tabs EXCEPT ![t].home = home]
<1>1. ASSUME NEW u \in Tab
      PROVE  /\ tabs1[u] \in TabRecord /\ tabs1[u].incognito = tabs[u].incognito
             /\ tabs1[u].seen = tabs[u].seen /\ tabs1[u].reports = tabs[u].reports
  <2>1. tabs[u] \in TabRecord BY Zenon
  <2>2. CASE u = t
    <3>1. tabs1[u] = [tabs[u] EXCEPT !.home = home] BY Zenon, <2>2
    <3>2. QED BY Zenon, <2>1, <3>1 DEF TabRecord
  <2>3. CASE u # t
    <3>1. tabs1[u] = tabs[u] BY Zenon, <2>3
    <3>2. QED BY Zenon, <2>1, <3>1
  <2>4. QED BY Zenon, <2>2, <2>3
<1>2. tabs1 \in [Tab -> TabRecord] BY Zenon, <1>1
<1>3. QED BY Zenon, <1>1, <1>2 DEF Calm, Kept

(* Detaching tabs is calm.                                                  *)
LEMMA CalmDetached ==
  ASSUME NEW tabs \in [Tab -> TabRecord], NEW ts
  PROVE  Calm(tabs, Detached(tabs, ts))
<1> DEFINE tabs1 == Detached(tabs, ts)
<1>0. NoPrivate(<<>>) /\ <<>> \in Seq(Report) BY DEF NoPrivate
<1>1. ASSUME NEW u \in Tab
      PROVE  /\ tabs1[u] \in TabRecord /\ tabs1[u].incognito = tabs[u].incognito
             /\ tabs1[u].seen = tabs[u].seen
             /\ tabs1[u].reports = tabs[u].reports \/ tabs1[u].reports = <<>>
  <2>1. tabs[u] \in TabRecord BY Zenon
  <2>2. CASE u \in ts
    <3>1. tabs1[u] = [tabs[u] EXCEPT !.host = None, !.reports = <<>>]
      BY Zenon, <2>2 DEF Detached
    <3>2. PICK S, Q : /\ S = SUBSET Page /\ Q = Seq(Report)
                      /\ TabRecord = [host : Nat, home : BOOLEAN, incognito : BOOLEAN,
                                      seen : S, page : Page, reports : Q]
      BY Zenon, Fields
    <3>3. PICK r \in TabRecord : r = tabs[u] BY Zenon, <2>1
    <3>4. PICK q \in Q, h \in Nat : q = <<>> /\ h = None BY Zenon, <1>0, <3>2 DEF None
    <3>5. tabs1[u] = [r EXCEPT !.host = h, !.reports = q]
      BY Zenon, <3>1, <3>3, <3>4
    <3> HIDE DEF tabs1
    <3>6. /\ tabs1[u] \in TabRecord /\ tabs1[u].incognito = r.incognito
          /\ tabs1[u].seen = r.seen /\ tabs1[u].reports = q
      <4> TabRecord = [host : Nat, home : BOOLEAN, incognito : BOOLEAN,
                       seen : S, page : Page, reports : Q]
        BY Zenon, <3>2
      <4> QED BY Zenon, <3>5
    <3>7. QED BY Zenon, <3>3, <3>4, <3>6
  <2>3. CASE u \notin ts
    <3>1. tabs1[u] = tabs[u] BY Zenon, <2>3 DEF Detached
    <3>2. QED BY Zenon, <2>1, <3>1
  <2>4. QED BY Zenon, <2>2, <2>3
<1>2. tabs1 \in [Tab -> TabRecord] BY Zenon, <1>1 DEF Detached
<1>3. QED BY Zenon, <1>0, <1>1, <1>2 DEF Calm, Kept

(* What the tabs are when the web view of one takes up a page: only that    *)
(* tab may come to know a private address, and only if that is the page.    *)
LEMMA TakenType ==
  ASSUME Types, NEW t, NEW p \in Page, NEW keep \in BOOLEAN
  PROVE  /\ Taken(t, p, keep) \in [Tab -> TabRecord]
         /\ \A u \in Tab :
              /\ Taken(t, p, keep)[u].incognito = tab[u].incognito
              /\ Kept(tab[u]) /\ (u = t => p # "private" \/ tab[u].incognito)
                   => Kept(Taken(t, p, keep)[u])
<1>1. CASE tab[t].host = None BY Zenon, <1>1 DEF Taken, Types
<1>2. CASE tab[t].host # None
  <2> DEFINE old(u) == IF keep THEN tab[u].reports ELSE <<>>
             tabs1  == Taken(t, p, keep)
  <2>0. NoPrivate(<<>>) /\ <<>> \in Seq(Report) BY DEF NoPrivate
  <2>1. ASSUME NEW u \in Tab
        PROVE  /\ tabs1[u] \in TabRecord /\ tabs1[u].incognito = tab[u].incognito
               /\ Kept(tab[u]) /\ (u = t => p # "private" \/ tab[u].incognito)
                    => Kept(tabs1[u])
    <3>1. /\ tab[u] \in TabRecord /\ tab[u].reports \in Seq(Report)
          /\ tab[u].seen \in SUBSET Page /\ tab \in [Tab -> TabRecord]
      BY Zenon DEF Types, TabRecord
    <3>2. CASE u = t
      <4> DEFINE rs == old(u) \o Reports(p)
      <4>1. old(u) \in Seq(Report) /\ (NoPrivate(tab[u].reports) => NoPrivate(old(u)))
        BY Zenon, <2>0, <3>1
      <4>2. /\ rs \in Seq(Report)
            /\ NoPrivate(tab[u].reports) /\ p # "private" => NoPrivate(rs)
        BY Zenon, <4>1, ReportsType, Appended
      <4>3. tabs1[u] = [tab[u] EXCEPT !.seen = @ \cup {p}, !.reports = rs]
        BY Zenon, <1>2, <3>1, <3>2 DEF Taken
      <4> HIDE DEF rs, tabs1
      <4>4. /\ tabs1[u] \in TabRecord /\ tabs1[u].incognito = tab[u].incognito
            /\ tabs1[u].seen = tab[u].seen \cup {p} /\ tabs1[u].reports = rs
        <5>1. PICK S, Q : /\ S = SUBSET Page /\ Q = Seq(Report)
                          /\ TabRecord = [host : Nat, home : BOOLEAN, incognito : BOOLEAN,
                                          seen : S, page : Page, reports : Q]
          BY Zenon, Fields
        <5>2. PICK r \in TabRecord : r = tab[u] BY Zenon, <3>1
        <5>3. PICK q \in Q : q = rs BY Zenon, <4>2, <5>1
        <5>4. PICK s \in S : s = tab[u].seen \cup {p} BY Zenon, <3>1, <5>1
        <5>5. tabs1[u] = [r EXCEPT !.seen = s, !.reports = q]
          BY Zenon, <4>3, <5>2, <5>3, <5>4
        <5>6. /\ tabs1[u] \in TabRecord /\ tabs1[u].incognito = r.incognito
              /\ tabs1[u].seen = s /\ tabs1[u].reports = q
          <6> TabRecord = [host : Nat, home : BOOLEAN, incognito : BOOLEAN,
                           seen : S, page : Page, reports : Q]
            BY Zenon, <5>1
          <6> QED BY Zenon, <5>5
        <5>7. QED BY Zenon, <5>2, <5>3, <5>4, <5>6
      <4>5. Kept(tab[u]) /\ (p # "private" \/ tab[u].incognito) => Kept(tabs1[u])
        BY Zenon, <4>2, <4>4 DEF Kept
      <4>6. QED BY Zenon, <3>2, <4>4, <4>5
    <3>3. CASE u # t
      <4>1. tabs1[u] = tab[u] BY Zenon, <1>2, <3>1, <3>3 DEF Taken
      <4>2. QED BY Zenon, <3>1, <4>1
    <3>4. QED BY Zenon, <3>2, <3>3
  <2>2. tabs1 \in [Tab -> TabRecord]
    <3>1. tab \in [Tab -> TabRecord] BY Zenon DEF Types
    <3>2. tabs1 = [tab EXCEPT ![t].seen = @ \cup {p},
                              ![t].reports = (IF keep THEN @ ELSE <<>>) \o Reports(p)]
      BY Zenon, <1>2 DEF Taken
    <3>3. QED BY Zenon, <2>1, <3>1, <3>2
  <2>3. QED BY Zenon, <2>1, <2>2
<1>3. QED BY Zenon, <1>1, <1>2

(* Taking up a page is calm if the page is not private or the tab is        *)
(* incognito.                                                               *)
LEMMA CalmTaken ==
  ASSUME Types, NEW t, NEW p \in Page, NEW keep \in BOOLEAN,
         t \in Tab /\ ~tab[t].incognito /\ Kept(tab[t]) => p # "private"
  PROVE  Calm(tab, Taken(t, p, keep))
  BY Zenon, TakenType DEF Calm

(* A page report is calm for the tab that makes it.                         *)
LEMMA CalmReported ==
  ASSUME Types, NEW t \in Tab, tab[t].reports # <<>>, NEW p \in Page
  PROVE  Calm(tab, [tab EXCEPT ![t].reports = Tail(@), ![t].page = p])
<1> DEFINE tabs1 == [tab EXCEPT ![t].reports = Tail(@), ![t].page = p]
<1>1. ASSUME NEW u \in Tab
      PROVE  /\ tabs1[u] \in TabRecord /\ tabs1[u].incognito = tab[u].incognito
             /\ Kept(tab[u]) => Kept(tabs1[u])
  <2>1. /\ tab[u] \in TabRecord /\ tab[u].reports \in Seq(Report)
        /\ tab \in [Tab -> TabRecord]
    BY Zenon DEF Types, TabRecord
  <2>2. CASE u = t
    <3> DEFINE rs == Tail(tab[u].reports)
    <3>1. rs \in Seq(Report) /\ (NoPrivate(tab[u].reports) => NoPrivate(rs))
      BY Zenon, <2>1, <2>2, TailKept
    <3>2. tabs1[u] = [tab[u] EXCEPT !.reports = rs, !.page = p] BY Zenon, <2>1, <2>2
    <3> HIDE DEF rs, tabs1
    <3>3. PICK S, Q : /\ S = SUBSET Page /\ Q = Seq(Report)
                      /\ TabRecord = [host : Nat, home : BOOLEAN, incognito : BOOLEAN,
                                      seen : S, page : Page, reports : Q]
      BY Zenon, Fields
    <3>4. PICK r \in TabRecord, q \in Q : r = tab[u] /\ q = rs BY Zenon, <2>1, <3>1, <3>3
    <3>5. tabs1[u] = [r EXCEPT !.reports = q, !.page = p] BY Zenon, <3>2, <3>4
    <3>6. /\ tabs1[u] \in TabRecord /\ tabs1[u].incognito = r.incognito
          /\ tabs1[u].seen = r.seen /\ tabs1[u].reports = q
      <4> TabRecord = [host : Nat, home : BOOLEAN, incognito : BOOLEAN,
                       seen : S, page : Page, reports : Q]
        BY Zenon, <3>3
      <4> QED BY Zenon, <3>5
    <3>7. QED BY Zenon, <3>1, <3>4, <3>6 DEF Kept
  <2>3. CASE u # t
    <3>1. tabs1[u] = tab[u] BY Zenon, <2>1, <2>3
    <3>2. QED BY Zenon, <2>1, <3>1
  <2>4. QED BY Zenon, <2>2, <2>3
<1>2. tabs1 \in [Tab -> TabRecord] BY Zenon, <1>1 DEF Types
<1>3. QED BY Zenon, <1>1, <1>2 DEF Calm

-----------------------------------------------------------------------------
(* A step that makes no tab.                                                *)
LEMMA CalmKeeps ==
  ASSUME IInv, Calm(tab, tab'), made' = made, mHost' \in Nat, hosts' \in Nat,
         delayed' \subseteq delayed, ~moved' => ~moved,
         ~moved' => "private" \notin history'
  PROVE  IInv'
<1>1. Types' BY Zenon DEF IInv, Types, Calm
<1>2. Secret'
  <2> SUFFICES ASSUME ~moved' PROVE Secret'
    BY Zenon DEF Secret
  <2>1. \A t \in Tab : Kept(tab'[t]) BY Zenon DEF IInv, Secret, Calm
  <2>2. \A d \in delayed' : ForIncognito(d)' BY Zenon DEF IInv, Secret, Calm, ForIncognito
  <2>3. QED BY Zenon, <2>1, <2>2 DEF Secret, Kept, NoPrivate
<1>3. QED BY Zenon, <1>1, <1>2 DEF IInv

(* A step that makes a tab, and perhaps asks for a load in it.              *)
LEMMA NewTabKeeps ==
  ASSUME IInv, NEW tabs, Calm(tab, tabs), NEW host \in Nat, NEW inc \in BOOLEAN,
         made < MaxTabs, made' = made + 1,
         tab' = [tabs EXCEPT ![made + 1] = Attached(host, inc)],
         mHost' \in Nat, hosts' \in Nat, ~moved' => ~moved, history' = history,
         \A d \in delayed' :
            \/ d \in delayed
            \/ /\ d.tab = made + 1 /\ d.address \in Address
               /\ d.address = "private" => inc
  PROVE  IInv'
<1> DEFINE n == made + 1
<1>1. n \in Tab /\ made \in Nat /\ n \in Nat
  <2>1. MaxTabs \in Nat BY Zenon, TabsAssumption
  <2>2. QED BY <2>1 DEF IInv, Types, Tab
<1>2. /\ Attached(host, inc) \in TabRecord /\ Attached(host, inc).incognito = inc
      /\ Kept(Attached(host, inc))
  <2>1. Home \in Page /\ Home # "private" /\ {Home} \in SUBSET Page BY Zenon DEF Home, Page
  <2>2. Reports(Home) \in Seq(Report) /\ NoPrivate(Reports(Home)) BY Zenon, <2>1, ReportsType
  <2>3. QED BY Zenon, <2>1, <2>2 DEF Attached, TabRecord, Kept
<1>3. tabs \in [Tab -> TabRecord] BY Zenon DEF Calm
<1> HIDE DEF n
<1>4. /\ tab' = [tabs EXCEPT ![n] = Attached(host, inc)] /\ made' = n
      /\ \A d \in delayed' : d \in delayed \/ (d.tab = n /\ (d.address = "private" => inc))
      /\ \A k \in Nat : k <= made => k <= n /\ k # n
  BY DEF n, IInv, Types
<1>5. tab' \in [Tab -> TabRecord] /\ tab'[n] = Attached(host, inc)
      /\ \A t \in Tab : t # n => tab'[t] = tabs[t]
  BY Zenon, <1>1, <1>2, <1>3, <1>4
<1>6. Types'
  <2>1. \A d \in delayed' : d.address \in Address BY Zenon DEF IInv, Types
  <2>2. QED BY Zenon, <1>1, <1>4, <1>5, <2>1 DEF Types
<1>7. Secret'
  <2> SUFFICES ASSUME ~moved' PROVE Secret'
    BY Zenon DEF Secret
  <2>1. ASSUME NEW t \in Tab PROVE Kept(tab'[t])
    <3>1. CASE t = n BY Zenon, <1>2, <1>5, <3>1
    <3>2. CASE t # n BY Zenon, <1>5, <3>2 DEF IInv, Secret, Calm
    <3>3. QED BY Zenon, <3>1, <3>2
  <2>2. ASSUME NEW d \in delayed' PROVE ForIncognito(d)'
    <3>1. CASE d \in delayed /\ d.address = "private" /\ d.tab # None
      <4>1. /\ d.tab \in Tab /\ d.tab \in Nat /\ d.tab <= made /\ tab[d.tab].incognito
        BY <3>1 DEF IInv, Secret, ForIncognito, Tab
      <4>2. d.tab <= made' /\ d.tab # n BY Zenon, <1>4, <4>1
      <4>3. tab'[d.tab].incognito BY Zenon, <1>5, <4>1, <4>2 DEF Calm
      <4>4. QED BY Zenon, <4>1, <4>2, <4>3 DEF ForIncognito
    <3>2. CASE d.tab = n /\ (d.address = "private" => inc)
      <4>1. d.tab \in Tab /\ d.tab <= made' BY <1>1, <1>4, <3>2
      <4>2. d.address = "private" => tab'[d.tab].incognito BY <1>2, <1>5, <3>2, Zenon
      <4>3. QED BY <4>1, <4>2, Zenon DEF ForIncognito
    <3>3. QED BY Zenon, <1>4, <3>1, <3>2 DEF ForIncognito
  <2>3. "private" \notin history' BY Zenon DEF IInv, Secret
  <2>4. QED BY Zenon, <2>1, <2>2, <2>3 DEF Secret, Kept, NoPrivate
<1>8. QED BY Zenon, <1>6, <1>7 DEF IInv

(* So is doing nothing.                                                     *)
LEMMA CalmSame == Types => Calm(tab, tab)
  BY Zenon DEF Types, Calm

(* A calm step followed by a turn is calm.                                  *)
LEMMA TurnCalm ==
  ASSUME Types, NEW tabs, Calm(tab, tabs), NEW t, NEW home \in BOOLEAN,
         Turn(t, home, tabs)
  PROVE  Calm(tab, tab')
<1>1. tabs \in [Tab -> TabRecord] BY Zenon DEF Calm
<1>2. Calm(tabs, [tabs EXCEPT ![t].home = home]) BY Zenon, <1>1, CalmHome
<1>3. QED BY Zenon, <1>2, CalmTwice DEF Turn

-----------------------------------------------------------------------------
(* addTab, addIncognitoTab and the two that load an address in the new tab: *)
(* a load of a private address is for the incognito tab just made, or for   *)
(* none.                                                                    *)
LEMMA AddKeeps ==
  ASSUME IInv, NEW inc \in BOOLEAN, Add(inc), hosts' = hosts,
         moved' = moved, history' = history,
         \A d \in delayed' :
            \/ d \in delayed
            \/ /\ d.tab = IF mHost = None THEN None ELSE made'
               /\ d.address \in Address
               /\ d.address = "private" => inc
  PROVE  IInv'
<1>1. CASE mHost = None
  <2>1. UNCHANGED <<tab, made, mHost>> BY Zenon, <1>1 DEF Add, tabVars
  <2>2. Types' BY Zenon, <2>1 DEF IInv, Types
  <2>3. \A d \in delayed' : d \in delayed \/ d.tab = None BY Zenon, <1>1
  <2>4. Secret' BY Zenon, <2>1, <2>3 DEF IInv, Secret, Kept, NoPrivate, ForIncognito
  <2>5. QED BY Zenon, <2>2, <2>4 DEF IInv
<1>2. CASE mHost # None
  <2>1. /\ made < MaxTabs /\ made' = made + 1 /\ mHost' = mHost
        /\ tab' = [tab EXCEPT ![made + 1] = Attached(mHost, inc)]
    BY Zenon, <1>2 DEF Add
  <2>2. \A d \in delayed' :
          \/ d \in delayed
          \/ /\ d.tab = made + 1 /\ d.address \in Address
             /\ d.address = "private" => inc
    BY Zenon, <1>2, <2>1
  <2>3. Calm(tab, tab) /\ mHost \in Nat /\ hosts \in Nat BY Zenon, CalmSame DEF IInv, Types
  <2>4. QED BY Zenon, <2>1, <2>2, <2>3, NewTabKeeps
<1>3. QED BY Zenon, <1>1, <1>2

(* The delayed load: it meets the tab it was for, or moved is set.          *)
LEMMA DelayedLoadKeeps ==
  ASSUME IInv, NEW d \in delayed, DelayedLoad(d)
  PROVE  IInv'
<1>1. /\ UNCHANGED <<made, mHost, hosts, history>> /\ delayed' \subseteq delayed
  BY Zenon DEF DelayedLoad, turnFrame, hostVars
<1>2. ~moved' => ~moved /\ mForegroundTab = d.tab BY Zenon DEF DelayedLoad
<1>3. mHost' \in Nat /\ hosts' \in Nat /\ (~moved' => "private" \notin history')
  BY Zenon, <1>1, <1>2 DEF IInv, Types, Secret
<1>4. CASE mForegroundTab = None
  <2>1. tab' = tab BY Zenon, <1>4 DEF DelayedLoad
  <2>2. Calm(tab, tab') BY Zenon, <2>1, CalmSame DEF IInv
  <2>3. QED BY Zenon, <1>1, <1>2, <1>3, <2>2, CalmKeeps
<1>5. CASE mForegroundTab # None /\ ~moved'
  <2>1. PICK keep \in BOOLEAN :
          Turn(mForegroundTab, FALSE, Taken(mForegroundTab, d.address, keep))
    BY Zenon, <1>5 DEF DelayedLoad
  <2>2. mForegroundTab \in Tab /\ ~tab[mForegroundTab].incognito => d.address # "private"
    BY Zenon, <1>2, <1>5 DEF IInv, Secret, ForIncognito
  <2>3. d.address \in Page BY Zenon DEF Page, IInv, Types
  <2>4. Calm(tab, Taken(mForegroundTab, d.address, keep))
    BY Zenon, <2>2, <2>3, CalmTaken DEF IInv
  <2>5. Calm(tab, tab') BY Zenon, <2>1, <2>4, TurnCalm DEF IInv
  <2>6. QED BY Zenon, <1>1, <1>2, <1>3, <2>5, CalmKeeps
<1>6. CASE mForegroundTab # None /\ moved'
  <2>1. PICK keep \in BOOLEAN :
          Turn(mForegroundTab, FALSE, Taken(mForegroundTab, d.address, keep))
    BY Zenon, <1>6 DEF DelayedLoad
  <2>2. d.address \in Page BY Zenon DEF Page, IInv, Types
  <2>3. Taken(mForegroundTab, d.address, keep) \in [Tab -> TabRecord]
    BY Zenon, <2>2, TakenType DEF IInv
  <2>4. tab' \in [Tab -> TabRecord]
    BY Zenon, <2>1, <2>3, CalmHome DEF Turn, Calm
  <2>5. Types' BY Zenon, <1>1, <2>4 DEF IInv, Types
  <2>6. QED BY Zenon, <1>6, <2>5 DEF IInv, Secret
<1>7. QED BY Zenon, <1>4, <1>5, <1>6

(* onPageStarted and onPageFinished: what Logs lets into the history is     *)
(* what an ordinary tab reports.                                            *)
LEMMA PageReportKeeps ==
  ASSUME IInv, NEW t \in Tab, PageReport(t)
  PROVE  IInv'
<1> DEFINE r == Head(tab[t].reports)
           tabs == [tab EXCEPT ![t].reports = Tail(@), ![t].page = r.page]
<1>1. tab[t].reports \in Seq(Report) /\ tab[t].reports # <<>>
  BY Zenon DEF PageReport, IInv, Types, TabRecord
<1>2. /\ r \in Report
      /\ NoPrivate(tab[t].reports) => r.page # "private"
  BY Zenon, <1>1, TailKept
<1>3. r.page \in Page /\ r.start \in BOOLEAN BY Zenon, <1>2 DEF Report
<1>4. /\ UNCHANGED <<made, mHost, hosts, delayed, moved>>
      /\ Turn(mForegroundTab, TurnsHome(r.page), tabs)
      /\ history' = history \cup (IF Logs(t, r) THEN {r.page} ELSE {})
  BY Zenon DEF PageReport, turnFrame, hostVars
<1> HIDE DEF r
<1>5. Calm(tab, tabs) BY Zenon, <1>1, <1>3, CalmReported DEF IInv
<1> HIDE DEF tabs
<1>6. TurnsHome(r.page) \in BOOLEAN BY Zenon DEF TurnsHome
<1>7. Calm(tab, tab') BY Zenon, <1>4, <1>5, <1>6, TurnCalm DEF IInv
<1>8. ~moved' => "private" \notin history'
  <2> SUFFICES ASSUME ~moved PROVE "private" \notin history'
    BY Zenon, <1>4
  <2>1. Logs(t, r) => r.page # "private"
    BY Zenon, <1>2 DEF Logs, IInv, Secret, Kept
  <2>2. QED BY Zenon, <1>4, <2>1 DEF IInv, Secret
<1>9. mHost' \in Nat /\ hosts' \in Nat BY Zenon, <1>4 DEF IInv, Types
<1>10. QED BY Zenon, <1>4, <1>7, <1>8, <1>9, CalmKeeps

(* The steps that load or turn a page in a tab.                             *)
LEMMA PageKeeps ==
  ASSUME IInv, Load \/ BackPressed \/ \E t \in Tab : GoHome(t) \/ Navigate(t)
  PROVE  IInv'
<1>1. UNCHANGED <<made, mHost, hosts, delayed, moved, history>>
  BY Zenon DEF Load, BackPressed, GoHome, Navigate, turnFrame, hostVars, loadVars, histVars
<1>2. /\ mHost' \in Nat /\ hosts' \in Nat /\ (~moved' => "private" \notin history')
      /\ Types
  BY Zenon, <1>1 DEF IInv, Types, Secret
<1>3. "plain" \in Page /\ Home \in Page /\ Home # "private" BY Zenon DEF Page, Address, Home
<1>4. Calm(tab, tab) BY Zenon, <1>2, CalmSame
<1>5. CASE Load
  <2>1. PICK keep \in BOOLEAN :
          Turn(mForegroundTab, FALSE, Taken(mForegroundTab, "plain", keep))
    BY Zenon, <1>5 DEF Load
  <2>2. Calm(tab, Taken(mForegroundTab, "plain", keep)) BY Zenon, <1>2, <1>3, CalmTaken
  <2>3. Calm(tab, tab') BY Zenon, <1>2, <2>1, <2>2, TurnCalm
  <2>4. QED BY Zenon, <1>1, <1>2, <2>3, CalmKeeps
<1>6. CASE BackPressed
  <2>1. tab' = tab \/ Turn(mForegroundTab, TRUE, tab) BY Zenon, <1>6 DEF BackPressed
  <2>2. Calm(tab, tab') BY Zenon, <1>2, <1>4, <2>1, TurnCalm
  <2>3. QED BY Zenon, <1>1, <1>2, <2>2, CalmKeeps
<1>7. ASSUME NEW t \in Tab, GoHome(t) PROVE IInv'
  <2>1. PICK keep \in BOOLEAN : tab' = [Taken(t, Home, keep) EXCEPT ![t].home = TRUE]
    BY Zenon, <1>7 DEF GoHome
  <2>2. Calm(tab, Taken(t, Home, keep)) BY Zenon, <1>2, <1>3, CalmTaken
  <2>3. Calm(Taken(t, Home, keep), tab') BY Zenon, <2>1, <2>2, CalmHome DEF Calm
  <2>4. Calm(tab, tab') BY Zenon, <2>2, <2>3, CalmTwice
  <2>5. QED BY Zenon, <1>1, <1>2, <2>4, CalmKeeps
<1>8. ASSUME NEW t \in Tab, Navigate(t) PROVE IInv'
  <2>1. PICK p \in tab[t].seen, keep \in BOOLEAN, turn \in BOOLEAN :
          Turn(t, tab[t].home /\ ~turn, Taken(t, p, keep))
    BY Zenon, <1>8 DEF Navigate
  <2>2. tab[t].seen \in SUBSET Page /\ tab[t].home \in BOOLEAN
    BY Zenon, <1>2 DEF Types, TabRecord
  <2>3. p \in Page /\ (~tab[t].incognito /\ Kept(tab[t]) => p # "private")
    BY Zenon, <2>1, <2>2 DEF Kept
  <2>4. Calm(tab, Taken(t, p, keep)) BY Zenon, <1>2, <2>3, CalmTaken
  <2>5. (tab[t].home /\ ~turn) \in BOOLEAN BY Zenon
  <2>6. Calm(tab, tab') BY Zenon, <1>2, <2>1, <2>4, <2>5, TurnCalm
  <2>7. QED BY Zenon, <1>1, <1>2, <2>6, CalmKeeps
<1>9. QED BY Zenon, <1>5, <1>6, <1>7, <1>8

(* The steps that remove tabs, and those that attach a host.                *)
LEMMA TabsKeep ==
  ASSUME IInv,
         Create \/ (\E h \in alive : Destroy(h)) \/ \E t \in Tab : RemoveTab(t)
  PROVE  IInv'
<1>1. /\ UNCHANGED <<delayed, moved, history>> /\ hosts' \in Nat /\ mHost' \in Nat
  <2>0. hosts \in Nat /\ mHost \in Nat /\ hosts + 1 \in Nat /\ None \in Nat
    BY DEF IInv, Types, None
  <2>1. CASE Create BY Zenon, <2>0, <2>1 DEF Create, Attach, loadVars
  <2>2. ASSUME NEW h \in alive, Destroy(h)
        PROVE  /\ UNCHANGED <<delayed, moved, history>>
               /\ hosts' \in Nat /\ mHost' \in Nat
    BY Zenon, <2>0, <2>2 DEF Destroy, loadVars, histVars
  <2>3. ASSUME NEW t \in Tab, RemoveTab(t)
        PROVE  /\ UNCHANGED <<delayed, moved, history>>
               /\ hosts' \in Nat /\ mHost' \in Nat
    BY Zenon, <2>0, <2>3 DEF RemoveTab, loadVars, hostVars
  <2>4. QED BY Zenon, <2>1, <2>2, <2>3
<1>2. /\ tab \in [Tab -> TabRecord] /\ Calm(tab, tab) /\ mHost \in Nat
      /\ (~moved' => "private" \notin history')
      /\ (\A d \in delayed' : d \in delayed) /\ delayed' \subseteq delayed
      /\ (~moved' => ~moved) /\ FALSE \in BOOLEAN
  BY Zenon, <1>1, CalmSame DEF IInv, Types, Secret
<1>3. CASE Create
  <2>1. CASE mWebTabs = <<>>
    <3>1. /\ made < MaxTabs /\ made' = made + 1
          /\ tab' = [tab EXCEPT ![made + 1] = Attached(hosts + 1, FALSE)]
      BY Zenon, <1>3, <2>1 DEF Create, Attach
    <3>2. hosts + 1 \in Nat BY DEF IInv, Types
    <3>3. QED BY Zenon, <1>1, <1>2, <3>1, <3>2, NewTabKeeps
  <2>2. CASE mWebTabs # <<>>
    <3>1. tab' = tab /\ made' = made BY Zenon, <1>3, <2>2 DEF Create, Attach
    <3>2. QED BY Zenon, <1>1, <1>2, <3>1, CalmKeeps
  <2>3. QED BY Zenon, <2>1, <2>2
<1>4. ASSUME NEW h \in alive, Destroy(h) PROVE IInv'
  <2>1. tab' = Detached(tab, Range(mWebTabs)) /\ made' = made BY Zenon, <1>4 DEF Destroy
  <2>2. Calm(tab, tab') BY Zenon, <1>2, <2>1, CalmDetached
  <2>3. QED BY Zenon, <1>1, <1>2, <2>1, <2>2, CalmKeeps
<1>5. ASSUME NEW t \in Tab, RemoveTab(t) PROVE IInv'
  <2>1. \/ tab' = tab /\ made' = made
        \/ tab' = Detached(tab, {t}) /\ made' = made
        \/ /\ made < MaxTabs /\ made' = made + 1
           /\ tab' = [Detached(tab, {t}) EXCEPT ![made + 1] = Attached(mHost, FALSE)]
    BY Zenon, <1>5 DEF RemoveTab, Removed
  <2>2. Calm(tab, Detached(tab, {t})) BY Zenon, <1>2, CalmDetached
  <2>3. CASE made' = made /\ (tab' = tab \/ tab' = Detached(tab, {t}))
    BY Zenon, <1>1, <1>2, <2>2, <2>3, CalmKeeps
  <2>4. CASE /\ made < MaxTabs /\ made' = made + 1
             /\ tab' = [Detached(tab, {t}) EXCEPT ![made + 1] = Attached(mHost, FALSE)]
    BY Zenon, <1>1, <1>2, <2>2, <2>4, NewTabKeeps
  <2>5. QED BY Zenon, <2>1, <2>3, <2>4
<1>6. QED BY Zenon, <1>3, <1>4, <1>5

(* Every step keeps the invariant.                                          *)
LEMMA Step == IInv /\ [Next]_vars => IInv'
<1> SUFFICES ASSUME IInv, [Next]_vars PROVE IInv'
  BY Zenon
<1>1. ASSUME NEW inc \in BOOLEAN, AddTab(inc) PROVE IInv'
  BY Zenon, <1>1, AddKeeps DEF AddTab, loadVars, hostVars
<1>2. ASSUME NEW a \in Address, AddTabAndLoad(a) PROVE IInv'
  <2> DEFINE n == [tab |-> IF mHost = None THEN None ELSE made', address |-> a]
  <2>1. /\ Add(a = "private") /\ delayed' = delayed \cup {n} /\ hosts' = hosts
        /\ moved' = moved /\ history' = history
    BY Zenon, <1>2 DEF AddTabAndLoad, hostVars
  <2>2. n.tab = (IF mHost = None THEN None ELSE made') /\ n.address = a BY Zenon
  <2>3. (a = "private") \in BOOLEAN BY Zenon
  <2> HIDE DEF n
  <2>4. \A d \in delayed' :
          \/ d \in delayed
          \/ /\ d.tab = IF mHost = None THEN None ELSE made'
             /\ d.address \in Address
             /\ d.address = "private" => a = "private"
    BY Zenon, <2>1, <2>2
  <2>5. PICK inc \in BOOLEAN : inc = (a = "private") BY Zenon, <2>3
  <2>6. Add(inc) BY Zenon, <2>1, <2>5
  <2>7. \A d \in delayed' :
          \/ d \in delayed
          \/ /\ d.tab = IF mHost = None THEN None ELSE made'
             /\ d.address \in Address
             /\ d.address = "private" => inc
    BY Zenon, <2>4, <2>5
  <2>8. QED BY Zenon, <2>1, <2>6, <2>7, AddKeeps
<1>3. ASSUME NEW d \in delayed, DelayedLoad(d) PROVE IInv' BY Zenon, <1>3, DelayedLoadKeeps
<1>4. ASSUME NEW t \in Tab, PageReport(t) PROVE IInv' BY Zenon, <1>4, PageReportKeeps
<1>5. CASE Load \/ BackPressed \/ \E t \in Tab : GoHome(t) \/ Navigate(t)
  BY Zenon, <1>5, PageKeeps
<1>6. CASE Create \/ (\E h \in alive : Destroy(h)) \/ \E t \in Tab : RemoveTab(t)
  BY Zenon, <1>6, TabsKeep
<1>7. CASE \/ \E t \in Tab : Select(t)
           \/ OpenManager \/ LeaveManager \/ Stop \/ Start \/ RunPost
           \/ UNCHANGED vars
  <2>1. UNCHANGED <<tab, made, mHost, hosts, delayed, moved, history>>
    BY Zenon, <1>7 DEF Select, OpenManager, LeaveManager, Stop, Start, RunPost, vars,
                tabVars, loadVars, hostVars, histVars
  <2>2. Types' BY Zenon, <2>1 DEF IInv, Types
  <2>3. Secret' BY Zenon, <2>1 DEF IInv, Secret, Kept, NoPrivate, ForIncognito
  <2>4. QED BY Zenon, <2>2, <2>3 DEF IInv
<1>8. QED BY Zenon, <1>1, <1>2, <1>3, <1>4, <1>5, <1>6, <1>7 DEF Next

-----------------------------------------------------------------------------
(* The tabs and the screen.                                                 *)
View == (Tab \cup {None}) \X BOOLEAN

Ranges ==
  /\ made \in 0..MaxTabs /\ hosts \in 0..MaxHosts /\ loads \in 0..MaxLoads
  /\ mWebTabs \in Seq(Tab) /\ manager \subseteq Tab
  /\ mForegroundTab \in Tab \cup {None} /\ curTab \in Tab \cup {None}
  /\ tabDirty => curTab # None
  /\ delayed \subseteq [tab : Tab \cup {None}, address : Address]
  /\ history \subseteq Address /\ alive \subseteq 1..hosts
  /\ content \in View /\ viewPost \in View /\ viewDirty \in View

Booleans ==
  /\ active \in BOOLEAN /\ finishing \in BOOLEAN /\ tabDirty \in BOOLEAN
  /\ moved \in BOOLEAN /\ crossed \in BOOLEAN
  /\ overtaken \in BOOLEAN /\ overlap \in BOOLEAN

(* A tab belongs to a host there was; without one it reports nothing.       *)
Owned ==
  \A t \in Tab : /\ tab[t].host <= hosts
                 /\ tab[t].host = None => tab[t].reports = <<>>

(* The host attached is the newest one, if it is there; unless hosts        *)
(* overlap it is the only one, and has tabs.                                *)
Hosting ==
  /\ mHost \in {None, hosts}
  /\ mHost # None => hosts \in alive
  /\ mHost = None <=> mWebTabs = <<>>
  /\ ~overlap => alive \subseteq {hosts}
  /\ ~overlap /\ hosts \in alive => mHost = hosts

(* Tabs are made one after the other, and listed once.                      *)
Making ==
  /\ \A t \in Tab : t > made => tab[t].host = None
  /\ mForegroundTab = None => made = 0
  /\ \A t \in Range(mWebTabs) : t <= made
  /\ IsInjective(mWebTabs)

(* The foreground tab is in the list, as is what the tab manager offers;    *)
(* unless hosts overlap the host knows the one and has them all.            *)
Listing ==
  mHost # None =>
    /\ mForegroundTab \in Range(mWebTabs) /\ manager \subseteq Range(mWebTabs)
    /\ ~overlap => /\ curTab = mForegroundTab
                   /\ \A t \in Range(mWebTabs) : tab[t].host = mHost

(* The view of the foreground tab is the last one on its way to the screen: *)
(* posted, set but not shown, to be taken from curTab, or shown.            *)
Foreground == <<mForegroundTab, tab[mForegroundTab].home>>

Showing ==
  InUse /\ ~overtaken /\ ~overlap =>
    /\ active => viewDirty = NoView /\ ~tabDirty
    /\ viewPost # NoView => viewPost = Foreground
    /\ viewPost = NoView /\ viewDirty # NoView => viewDirty = Foreground
    /\ viewPost = NoView /\ viewDirty = NoView /\ ~tabDirty => content = Foreground

(* What each web view has as its first page.                                *)
Firsts == first \in [Tab -> Page \cup {NoPage}]

TabInv ==
  Ranges /\ Booleans /\ Owned /\ Hosting /\ Making /\ Listing /\ Showing /\ HomeAsPage

-----------------------------------------------------------------------------
(* What is in a list that got one more tab, or is that tab alone.           *)
LEMMA ListedMore ==
  ASSUME NEW s \in Seq(Tab), NEW n \in Tab
  PROVE  /\ Append(s, n) \in Seq(Tab) /\ Append(s, n) # <<>>
         /\ Range(Append(s, n)) = Range(s) \cup {n}
         /\ IsInjective(s) /\ n \notin Range(s) => IsInjective(Append(s, n))
<1> DEFINE w == Append(s, n)
<1>1. /\ w \in Seq(Tab) /\ DOMAIN w = 1..(Len(s) + 1) /\ w # <<>>
      /\ \A i \in 1..Len(s) : w[i] = s[i]
      /\ w[Len(s) + 1] = n /\ DOMAIN s = 1..Len(s) /\ Len(s) \in Nat
  OBVIOUS
<1> HIDE DEF w
<1>2. Range(w) = Range(s) \cup {n}
  <2>1. ASSUME NEW x \in Range(w) PROVE x \in Range(s) \cup {n}
    BY <1>1 DEF Range
  <2>2. ASSUME NEW x \in Range(s) \cup {n} PROVE x \in Range(w)
    BY <1>1 DEF Range
  <2>3. QED BY Zenon, <2>1, <2>2
<1>3. ASSUME IsInjective(s), n \notin Range(s) PROVE IsInjective(w)
  <2>1. ASSUME NEW i \in 1..(Len(s) + 1), NEW j \in 1..(Len(s) + 1), w[i] = w[j]
        PROVE  i = j
    <3>1. ASSUME NEW k \in 1..Len(s) PROVE s[k] # n BY Zenon, <1>1, <1>3 DEF Range
    <3>2. CASE i \in 1..Len(s) /\ j \in 1..Len(s)
      BY Zenon, <1>1, <1>3, <2>1, <3>2 DEF IsInjective
    <3>3. CASE i = Len(s) + 1 /\ j \in 1..Len(s) BY Zenon, <1>1, <2>1, <3>1, <3>3
    <3>4. CASE j = Len(s) + 1 /\ i \in 1..Len(s) BY Zenon, <1>1, <2>1, <3>1, <3>4
    <3>5. QED BY <1>1, <3>2, <3>3, <3>4
  <2>2. QED BY Zenon, <1>1, <2>1 DEF IsInjective
<1>4. QED BY Zenon, <1>1, <1>2, <1>3 DEF w

(* A list of one tab.                                                       *)
LEMMA ListedOne ==
  ASSUME NEW n \in Tab
  PROVE  <<n>> \in Seq(Tab) /\ <<n>> # <<>> /\ Range(<<n>>) = {n} /\ IsInjective(<<n>>)
  BY DEF Range, IsInjective

(* An empty list of tabs.                                                   *)
LEMMA ListedNone == Range(<<>>) = {} /\ IsInjective(<<>>) /\ <<>> \in Seq(Tab)
  BY DEF Range, IsInjective

(* What is in two lists joined.                                             *)
LEMMA Joined ==
  ASSUME NEW S, NEW a \in Seq(S), NEW b \in Seq(S)
  PROVE  /\ a \o b \in Seq(S) /\ Len(a \o b) = Len(a) + Len(b)
         /\ \A i \in 1..(Len(a) + Len(b)) :
              (a \o b)[i] = IF i <= Len(a) THEN a[i] ELSE b[i - Len(a)]
  OBVIOUS

(* What is in the list when a tab was removed.                              *)
LEMMA Removal ==
  ASSUME mWebTabs \in Seq(Tab), IsInjective(mWebTabs), NEW t \in Range(mWebTabs)
  PROVE  /\ Without(t) \in Seq(Tab)
         /\ Range(Without(t)) = Range(mWebTabs) \ {t}
         /\ IsInjective(Without(t))
         /\ Without(t) # <<>> => Head(Without(t)) \in Range(Without(t))
<1> DEFINE P(i) == mWebTabs[i] = t /\ \A j \in 1..(i - 1) : mWebTabs[j] # t
           k == CHOOSE i \in DOMAIN mWebTabs : P(i)
           a == SubSeq(mWebTabs, 1, k - 1)
           b == SubSeq(mWebTabs, k + 1, Len(mWebTabs))
           w == a \o b
<1>0. DOMAIN mWebTabs = 1..Len(mWebTabs) /\ Len(mWebTabs) \in Nat OBVIOUS
<1>1. k \in 1..Len(mWebTabs) /\ mWebTabs[k] = t
  <2>1. PICK i \in DOMAIN mWebTabs : mWebTabs[i] = t BY Zenon DEF Range
  <2>2. \A j \in 1..(i - 1) : j \in DOMAIN mWebTabs /\ j # i BY <1>0, <2>1
  <2>3. P(i) BY Zenon, <2>1, <2>2 DEF IsInjective
  <2>4. QED BY Zenon, <1>0, <2>1, <2>3
<1>2. Without(t) = w BY Zenon DEF Without
<1> HIDE DEF k
<1>3. /\ w \in Seq(Tab) /\ DOMAIN w = 1..(Len(mWebTabs) - 1) /\ Len(w) = Len(mWebTabs) - 1
      /\ \A i \in 1..(Len(mWebTabs) - 1) :
           w[i] = IF i < k THEN mWebTabs[i] ELSE mWebTabs[i + 1]
  <2>1. /\ a \in Seq(Tab) /\ Len(a) = k - 1
        /\ \A i \in 1..(k - 1) : a[i] = mWebTabs[i]
    BY <1>1
  <2>2. /\ b \in Seq(Tab) /\ Len(b) = Len(mWebTabs) - k
        /\ \A i \in 1..(Len(mWebTabs) - k) : b[i] = mWebTabs[i + k]
    BY <1>1
  <2> HIDE DEF a, b
  <2>3. /\ w \in Seq(Tab) /\ Len(w) = Len(mWebTabs) - 1
        /\ \A i \in 1..(Len(mWebTabs) - 1) :
             w[i] = IF i <= k - 1 THEN a[i] ELSE b[i - (k - 1)]
    <3>1. /\ w \in Seq(Tab) /\ Len(w) = Len(a) + Len(b)
          /\ \A i \in 1..(Len(a) + Len(b)) :
               w[i] = IF i <= Len(a) THEN a[i] ELSE b[i - Len(a)]
      BY Zenon, <2>1, <2>2, Joined
    <3>2. Len(a) + Len(b) = Len(mWebTabs) - 1 BY <1>0, <1>1, <2>1, <2>2
    <3>3. QED BY Zenon, <2>1, <3>1, <3>2
  <2> HIDE DEF w
  <2>4. ASSUME NEW i \in 1..(Len(mWebTabs) - 1), i >= k PROVE w[i] = mWebTabs[i + 1]
    <3>1. i - (k - 1) \in 1..(Len(mWebTabs) - k) /\ (i - (k - 1)) + k = i + 1
      BY <1>1, <2>4
    <3>2. QED BY <1>1, <2>2, <2>3, <2>4, <3>1
  <2>5. QED BY <1>1, <2>1, <2>3, <2>4
<1> HIDE DEF w
<1> DEFINE pos(i) == IF i < k THEN i ELSE i + 1
<1>4. ASSUME NEW i \in DOMAIN w
      PROVE  pos(i) \in DOMAIN mWebTabs /\ w[i] = mWebTabs[pos(i)] /\ pos(i) # k
  BY <1>0, <1>1, <1>3
<1>5. ASSUME NEW i \in DOMAIN w, NEW j \in DOMAIN w, pos(i) = pos(j) PROVE i = j
  BY <1>1, <1>3, <1>5
<1>6. ASSUME NEW j \in DOMAIN mWebTabs, j # k PROVE \E i \in DOMAIN w : pos(i) = j
  <2>1. CASE j < k
    <3>1. j \in DOMAIN w /\ pos(j) = j BY <1>0, <1>1, <1>3, <2>1
    <3>2. QED BY Zenon, <3>1
  <2>2. CASE j > k
    <3>1. j - 1 \in DOMAIN w /\ pos(j - 1) = j BY <1>0, <1>1, <1>3, <2>2
    <3>2. QED BY Zenon, <3>1
  <2>3. QED BY <1>0, <1>1, <1>6, <2>1, <2>2
<1> HIDE DEF pos
<1>7. IsInjective(w)
  BY Zenon, <1>4, <1>5 DEF IsInjective
<1>8. Range(w) = Range(mWebTabs) \ {t}
  <2>1. ASSUME NEW i \in DOMAIN w PROVE w[i] \in Range(mWebTabs) \ {t}
    BY Zenon, <1>0, <1>1, <1>4 DEF IsInjective, Range
  <2>2. ASSUME NEW j \in DOMAIN mWebTabs, mWebTabs[j] # t PROVE mWebTabs[j] \in Range(w)
    <3>1. PICK i \in DOMAIN w : pos(i) = j BY Zenon, <1>1, <1>6, <2>2
    <3>2. QED BY Zenon, <1>4, <3>1 DEF Range
  <2>3. QED BY Zenon, <2>1, <2>2 DEF Range
<1>9. w # <<>> => Head(w) \in Range(w)
  <2>1. w # <<>> => 1 \in DOMAIN w /\ Head(w) = w[1] BY <1>3
  <2>2. QED BY Zenon, <2>1 DEF Range
<1>10. QED BY Zenon, <1>2, <1>3, <1>7, <1>8, <1>9

-----------------------------------------------------------------------------
(* What changes in a tab that is turned, takes up a page, reports one or is *)
(* detached, and what does not.                                             *)
LEMMA TurnEffect ==
  ASSUME NEW tabs \in [Tab -> TabRecord], NEW t \in Tab, NEW home \in BOOLEAN,
         NEW tabs1, tabs1 = [tabs EXCEPT ![t].home = home]
  PROVE  /\ tabs1[t].home = home /\ tabs1[t].host = tabs[t].host
         /\ tabs1[t].page = tabs[t].page /\ tabs1[t].reports = tabs[t].reports
         /\ \A u \in Tab : u # t => tabs1[u] = tabs[u]
<1>1. tabs[t] \in TabRecord BY Zenon
<1>2. tabs1[t] = [tabs[t] EXCEPT !.home = home] BY Zenon
<1>3. /\ tabs1[t].home = home /\ tabs1[t].host = tabs[t].host
      /\ tabs1[t].page = tabs[t].page /\ tabs1[t].reports = tabs[t].reports
  BY Zenon, <1>1, <1>2 DEF TabRecord
<1>4. QED BY Zenon, <1>3

(* Two reports more leave some report to handle.                            *)
LEMMA MoreReports ==
  ASSUME NEW r \in Seq(Report), NEW s \in Seq(Report), Len(s) = 2
  PROVE  r \o s # <<>>
<1>0. Len(r) \in Nat OBVIOUS
<1>1. Len(r \o s) = Len(r) + Len(s) BY Zenon, Joined
<1>2. Len(r \o s) # 0 /\ Len(<<>>) = 0 BY <1>0, <1>1
<1>3. QED BY Zenon, <1>2

(* What a tab that goes to a page keeps, and what becomes of the reports    *)
(* for it.                                                                  *)
LEMMA TakenEffect ==
  ASSUME Types, NEW t \in Tab, NEW p \in Page, NEW keep \in BOOLEAN
  PROVE  /\ Taken(t, p, keep)[t].host = tab[t].host
         /\ Taken(t, p, keep)[t].home = tab[t].home
         /\ tab[t].host = None => Taken(t, p, keep) = tab
         /\ tab[t].host # None => Taken(t, p, keep)[t].reports # <<>>
         /\ \A u \in Tab : u # t => Taken(t, p, keep)[u] = tab[u]
<1>1. CASE tab[t].host = None BY Zenon, <1>1 DEF Taken
<1>2. CASE tab[t].host # None
  <2> DEFINE rs == (IF keep THEN tab[t].reports ELSE <<>>) \o Reports(p)
             T == Taken(t, p, keep)
  <2>1. /\ tab \in [Tab -> TabRecord] /\ tab[t] \in TabRecord
        /\ tab[t].reports \in Seq(Report)
    BY Zenon DEF Types, TabRecord
  <2>2. T = [tab EXCEPT ![t].seen = @ \cup {p},
                        ![t].reports = (IF keep THEN @ ELSE <<>>) \o Reports(p)]
    BY Zenon, <1>2 DEF Taken
  <2>3. /\ T[t] = [tab[t] EXCEPT !.seen = @ \cup {p}, !.reports = rs]
        /\ \A u \in Tab : u # t => T[u] = tab[u]
    BY Zenon, <2>1, <2>2
  <2>4. rs # <<>>
    <3>1. PICK r \in Seq(Report) : r = IF keep THEN tab[t].reports ELSE <<>>
      <4>1. <<>> \in Seq(Report) OBVIOUS
      <4>2. QED BY Zenon, <2>1, <4>1
    <3>2. Reports(p) \in Seq(Report) /\ Len(Reports(p)) = 2
      BY Zenon, ReportsType DEF Reports
    <3>3. r \o Reports(p) # <<>> BY Zenon, <3>2, MoreReports
    <3>4. QED BY Zenon, <3>1, <3>3
  <2> HIDE DEF rs, T
  <2>5. T[t].host = tab[t].host /\ T[t].home = tab[t].home /\ T[t].reports = rs
    <3>1. PICK S : S = tab[t].seen \cup {p} BY Zenon
    <3>2. T[t] = [tab[t] EXCEPT !.seen = S, !.reports = rs] BY Zenon, <2>3, <3>1
    <3>3. QED BY Zenon, <2>1, <3>2 DEF TabRecord
  <2>6. QED BY Zenon, <1>2, <2>3, <2>4, <2>5 DEF T
<1>3. QED BY Zenon, <1>1, <1>2

(* Only the tabs that lose their screen change, and no report is left for   *)
(* them.                                                                    *)
LEMMA DetachedEffect ==
  ASSUME NEW tabs \in [Tab -> TabRecord], NEW ts
  PROVE  \A u \in Tab :
           /\ u \in ts => /\ Detached(tabs, ts)[u].host = None
                          /\ Detached(tabs, ts)[u].reports = <<>>
           /\ u \notin ts => Detached(tabs, ts)[u] = tabs[u]
<1> SUFFICES ASSUME NEW u \in Tab, u \in ts
             PROVE  /\ Detached(tabs, ts)[u].host = None
                    /\ Detached(tabs, ts)[u].reports = <<>>
  BY Zenon DEF Detached
<1>1. Detached(tabs, ts)[u] = [tabs[u] EXCEPT !.host = None, !.reports = <<>>]
  BY Zenon DEF Detached
<1>2. tabs[u] \in TabRecord BY Zenon
<1>3. PICK h, q : h = None /\ q = <<>> BY Zenon
<1>4. Detached(tabs, ts)[u] = [tabs[u] EXCEPT !.host = h, !.reports = q]
  BY Zenon, <1>1, <1>3
<1>5. Detached(tabs, ts)[u].host = h /\ Detached(tabs, ts)[u].reports = q
  BY Zenon, <1>2, <1>4 DEF TabRecord
<1>6. QED BY Zenon, <1>3, <1>5

(* A tab that is given a screen has a report to come.                       *)
LEMMA AttachedFields ==
  ASSUME NEW host, NEW inc
  PROVE  Attached(host, inc).host = host /\ Attached(host, inc).reports # <<>>
<1>1. Attached(host, inc).host = host /\ Attached(host, inc).reports = Reports(Home)
  BY Zenon DEF Attached
<1>2. Reports(Home) # <<>> BY Zenon DEF Reports
<1>3. QED BY Zenon, <1>1, <1>2

-----------------------------------------------------------------------------
(* What a step does that turns tab t, or only loads a page in it: a change  *)
(* of the view is posted if the tab belongs to the host in use.             *)
Turned(t) ==
  /\ \A u \in Tab : /\ tab'[u].host = tab[u].host
                    /\ tab[u].host = None => tab'[u].reports = tab[u].reports
                    /\ u # t => tab'[u].home = tab[u].home
  /\ \/ viewPost' = <<t, tab'[t].home>>
     \/ /\ viewPost' = viewPost
        /\ tab'[t].home = tab[t].home \/ tab[t].host # hosts \/ hosts \notin alive

(* What stays as it is in such a step.                                      *)
TurnFrame ==
  UNCHANGED <<mHost, mWebTabs, mForegroundTab, made, hosts, alive, active, finishing,
              manager, curTab, tabDirty, viewDirty, content, overtaken, overlap>>

(* A tab that turns to a page keeps the invariant.                          *)
LEMMA TurnedKeeps ==
  ASSUME TabInv, Types, Types', NEW t \in {mForegroundTab, curTab}, t \in Tab, Turned(t),
         TurnFrame, loads' \in 0..MaxLoads,
         delayed' \subseteq delayed, history' \subseteq Address,
         moved' \in BOOLEAN, crossed' \in BOOLEAN, HomeAsPage'
  PROVE  TabInv'
<1> USE DEF TurnFrame
<1>0. \A u \in Tab : tab[u].home \in BOOLEAN /\ tab'[u].home \in BOOLEAN
  BY Zenon DEF Types, TabRecord
<1>1. Ranges'
  <2>0. viewPost' = viewPost \/ viewPost' = <<t, tab'[t].home>> BY Zenon DEF Turned
  <2>1. viewPost' \in View BY <1>0, <2>0 DEF View, TabInv, Ranges
  <2>2. QED BY Zenon, <2>1 DEF TabInv, Ranges
<1>2. Booleans' BY Zenon DEF TabInv, Booleans
<1>3. Owned' BY Zenon DEF TabInv, Owned, Turned
<1>4. Hosting' BY Zenon DEF TabInv, Hosting
<1>5. Making' BY Zenon DEF TabInv, Making, Turned
<1>6. Listing'
  <2>1. mWebTabs \in Seq(Tab) /\ Range(mWebTabs) \subseteq Tab
    BY DEF TabInv, Ranges, Range
  <2>2. QED BY Zenon, <2>1 DEF TabInv, Listing, Turned
<1>7. Showing'
  <2> SUFFICES ASSUME InUse, ~overtaken, ~overlap
               PROVE  /\ active => viewDirty = NoView /\ ~tabDirty
                      /\ viewPost' # NoView => viewPost' = Foreground'
                      /\ viewPost' = NoView /\ viewDirty # NoView => viewDirty = Foreground'
                      /\ viewPost' = NoView /\ viewDirty = NoView /\ ~tabDirty
                           => content = Foreground'
    BY Zenon DEF Showing, InUse
  <2>1. mHost = hosts /\ hosts \in alive /\ mHost # None
    BY DEF TabInv, Hosting, InUse, Ranges, None
  <2>2. t = mForegroundTab /\ tab[t].host = hosts
    BY Zenon, <2>1 DEF TabInv, Listing
  <2>3. CASE viewPost' = <<t, tab'[t].home>>
    <3>1. viewPost' = Foreground' BY Zenon, <2>2, <2>3 DEF Foreground
    <3>2. viewPost' # NoView
      <4>1. t # None BY DEF Tab, None
      <4>2. QED BY Zenon, <2>3, <4>1 DEF NoView
    <3>3. QED BY Zenon, <3>1, <3>2 DEF TabInv, Showing
  <2>4. CASE viewPost' = viewPost /\ tab'[t].home = tab[t].home
    <3>1. Foreground' = Foreground BY Zenon, <2>2, <2>4 DEF Foreground
    <3>2. QED BY Zenon, <2>4, <3>1 DEF TabInv, Showing
  <2>5. QED BY Zenon, <2>1, <2>2, <2>3, <2>4 DEF Turned
<1>8. QED
  BY Zenon, <1>1, <1>2, <1>3, <1>4, <1>5, <1>6, <1>7 DEF TabInv

(* A tab whose page stays reported stands where it stood, where its page    *)
(* says, or at home with no page to go back to.                             *)
LEMMA HomeKept ==
  ASSUME TabInv, UNCHANGED <<mHost, mWebTabs, overlap>>, ~crossed' => ~crossed,
         ~crossed' => \A u \in Tab : tab[u].host # None =>
           \/ tab'[u].reports # <<>>
           \/ tab'[u].home = (tab'[u].page = Home)
           \/ tab'[u].home /\ ~canGoBack(u)'
           \/ /\ tab'[u].reports = tab[u].reports /\ tab'[u].home = tab[u].home
              /\ tab'[u].page = tab[u].page /\ tab'[u].host = tab[u].host
              /\ first'[u] = first[u]
  PROVE  HomeAsPage'
<1>1. mWebTabs \in Seq(Tab) /\ Range(mWebTabs) \subseteq Tab BY DEF TabInv, Ranges, Range
<1> SUFFICES ASSUME mHost # None, ~crossed', ~overlap, NEW u \in Range(mWebTabs),
                    tab'[u].reports = <<>>
             PROVE  IF tab'[u].page = Home THEN tab'[u].home
                    ELSE tab'[u].home => ~canGoBack(u)'
  BY Zenon DEF HomeAsPage
<1>2. u \in Tab /\ tab[u].host # None /\ ~crossed BY Zenon, <1>1 DEF TabInv, Listing
<1>3. CASE /\ tab'[u].reports = tab[u].reports /\ tab'[u].home = tab[u].home
           /\ tab'[u].page = tab[u].page /\ tab'[u].host = tab[u].host
           /\ first'[u] = first[u]
  BY Zenon, <1>2, <1>3 DEF TabInv, HomeAsPage, canGoBack
<1>4. QED BY Zenon, <1>2, <1>3

(* A page is taken up by tab t, which is turned as well.                    *)
LEMMA LoadTurns ==
  ASSUME Types, NEW t \in Tab, NEW p \in Page, NEW keep \in BOOLEAN,
         NEW home \in BOOLEAN,
         tab' = [Taken(t, p, keep) EXCEPT ![t].home = home],
         \/ viewPost' = <<t, home>>
         \/ /\ viewPost' = viewPost
            /\ tab[t].home = home \/ tab[t].host # hosts \/ hosts \notin alive
  PROVE  /\ Turned(t)
         /\ tab[t].host # None => tab'[t].reports # <<>>
         /\ \A u \in Tab : u # t => tab'[u] = tab[u]
<1> DEFINE tabs == Taken(t, p, keep)
<1>1. tabs \in [Tab -> TabRecord] BY Zenon, TakenType
<1>2. /\ tabs[t].host = tab[t].host /\ tabs[t].home = tab[t].home
      /\ tab[t].host = None => tabs = tab
      /\ tab[t].host # None => tabs[t].reports # <<>>
      /\ \A u \in Tab : u # t => tabs[u] = tab[u]
  BY Zenon, TakenEffect
<1>3. tab' = [tabs EXCEPT ![t].home = home] BY Zenon
<1> HIDE DEF tabs
<1>4. /\ tab'[t].home = home /\ tab'[t].host = tabs[t].host
      /\ tab'[t].reports = tabs[t].reports
      /\ \A u \in Tab : u # t => tab'[u] = tabs[u]
  <2>1. PICK tabs1 : tabs1 = tab' BY Zenon
  <2>2. tabs1 = [tabs EXCEPT ![t].home = home] BY Zenon, <1>3, <2>1
  <2>3. /\ tabs1[t].home = home /\ tabs1[t].host = tabs[t].host
        /\ tabs1[t].reports = tabs[t].reports
        /\ \A u \in Tab : u # t => tabs1[u] = tabs[u]
    BY <1>1, <2>2, TurnEffect
  <2>4. QED BY Zenon, <2>1, <2>3
<1>5. QED BY Zenon, <1>2, <1>4 DEF Turned

(* The steps that take up a page in tab t keep the invariant.               *)
LEMMA LoadKeeps ==
  ASSUME TabInv, Types, Types', NEW t \in {mForegroundTab, curTab}, t \in Tab,
         NEW p \in Page, NEW keep \in BOOLEAN, NEW home \in BOOLEAN,
         tab' = [Taken(t, p, keep) EXCEPT ![t].home = home],
         \/ viewPost' = <<t, home>>
         \/ /\ viewPost' = viewPost
            /\ tab[t].home = home \/ tab[t].host # hosts \/ hosts \notin alive,
         TurnFrame, loads' \in 0..MaxLoads, delayed' \subseteq delayed,
         UNCHANGED <<history, first, crossed>>, moved' \in BOOLEAN
  PROVE  TabInv'
<1>1. /\ Turned(t)
      /\ tab[t].host # None => tab'[t].reports # <<>>
      /\ \A u \in Tab : u # t => tab'[u] = tab[u]
  BY Zenon, LoadTurns
<1>2. HomeAsPage' BY Zenon, <1>1, HomeKept DEF TurnFrame
<1>3. history' \subseteq Address /\ crossed' \in BOOLEAN
  BY Zenon DEF TabInv, Ranges, Booleans
<1>4. QED BY Zenon, <1>1, <1>2, <1>3, TurnedKeeps

(* What Turn does to the views, for a tab that took up a page or reported   *)
(* one.                                                                     *)
LEMMA TurnPosts ==
  ASSUME NEW t, NEW home, NEW tabs, Turn(t, home, tabs),
         tabs[t].home = tab[t].home, tabs[t].host = tab[t].host
  PROVE  \/ viewPost' = <<t, home>>
         \/ /\ viewPost' = viewPost
            /\ tab[t].home = home \/ tab[t].host # hosts \/ hosts \notin alive
  BY Zenon DEF Turn

(* loadUrl, searchContent, the delayed load, goHome and the engine's steps. *)
LEMMA LoadStepsKeep ==
  ASSUME TabInv, Types, Types',
         \/ Load \/ \E d \in delayed : mForegroundTab # None /\ DelayedLoad(d)
         \/ \E t \in Tab : GoHome(t) \/ Navigate(t)
  PROVE  TabInv'
<1>1. TurnFrame /\ UNCHANGED <<history, first, crossed>>
  BY Zenon DEF Load, DelayedLoad, GoHome, Navigate, turnFrame, hostVars, TurnFrame
<1>2. /\ delayed' \subseteq delayed /\ moved' \in BOOLEAN
      /\ loads' = loads \/ (loads < MaxLoads /\ loads' = loads + 1)
  BY Zenon DEF Load, DelayedLoad, GoHome, Navigate, TabInv, Booleans
<1>3. loads' \in 0..MaxLoads BY <1>2, TabsAssumption DEF TabInv, Ranges
<1>4. PICK t \in {mForegroundTab, curTab}, p \in Page, keep \in BOOLEAN, home \in BOOLEAN :
        /\ t \in Tab
        /\ tab' = [Taken(t, p, keep) EXCEPT ![t].home = home]
        /\ \/ viewPost' = <<t, home>>
           \/ /\ viewPost' = viewPost
              /\ tab[t].home = home \/ tab[t].host # hosts \/ hosts \notin alive
  <2> DEFINE Done(t, p, keep, home) ==
        /\ t \in Tab
        /\ tab' = [Taken(t, p, keep) EXCEPT ![t].home = home]
        /\ \/ viewPost' = <<t, home>>
           \/ /\ viewPost' = viewPost
              /\ tab[t].home = home \/ tab[t].host # hosts \/ hosts \notin alive
  <2>0. "plain" \in Page /\ Home \in Page /\ \A d \in delayed : d.address \in Page
    BY Zenon DEF Page, Address, Types
  <2>1. mForegroundTab # None => mForegroundTab \in Tab BY Zenon DEF TabInv, Ranges
  <2>2. ASSUME NEW t \in Tab, NEW p \in Page, NEW keep \in BOOLEAN, NEW home \in BOOLEAN,
               Turn(t, home, Taken(t, p, keep))
        PROVE  Done(t, p, keep, home)
    <3>1. Taken(t, p, keep)[t].home = tab[t].home /\ Taken(t, p, keep)[t].host = tab[t].host
      BY Zenon, TakenEffect
    <3>2. QED BY Zenon, <2>2, <3>1, TurnPosts DEF Turn
  <2> HIDE DEF Done
  <2>3. CASE Load
    <3>1. mForegroundTab \in Tab BY Zenon, <2>1, <2>3 DEF Load
    <3>2. PICK keep \in BOOLEAN :
            Turn(mForegroundTab, FALSE, Taken(mForegroundTab, "plain", keep))
      BY Zenon, <2>3 DEF Load
    <3>3. Done(mForegroundTab, "plain", keep, FALSE) BY Zenon, <2>0, <2>2, <3>1, <3>2
    <3>4. QED BY Zenon, <2>0, <3>2, <3>3 DEF Done
  <2>4. ASSUME NEW d \in delayed, mForegroundTab # None, DelayedLoad(d)
        PROVE  \E keep \in BOOLEAN : Done(mForegroundTab, d.address, keep, FALSE)
    <3>1. PICK keep \in BOOLEAN :
            Turn(mForegroundTab, FALSE, Taken(mForegroundTab, d.address, keep))
      BY Zenon, <2>4 DEF DelayedLoad
    <3>2. QED BY Zenon, <2>0, <2>1, <2>2, <2>4, <3>1
  <2>5. ASSUME NEW t \in Tab, GoHome(t)
        PROVE  t \in {mForegroundTab, curTab} /\ \E keep \in BOOLEAN : Done(t, Home, keep, TRUE)
    BY Zenon, <2>5 DEF GoHome, Done
  <2>6. ASSUME NEW t \in Tab, Navigate(t)
        PROVE  /\ t \in {mForegroundTab, curTab}
               /\ \E p \in Page, keep \in BOOLEAN, home \in BOOLEAN : Done(t, p, keep, home)
    <3>1. PICK p \in tab[t].seen, keep \in BOOLEAN, turn \in BOOLEAN :
            Turn(t, tab[t].home /\ ~turn, Taken(t, p, keep))
      BY Zenon, <2>6 DEF Navigate
    <3>2. p \in Page /\ (tab[t].home /\ ~turn) \in BOOLEAN
      BY Zenon, <3>1 DEF Types, TabRecord
    <3>3. Done(t, p, keep, tab[t].home /\ ~turn) BY Zenon, <2>2, <3>1, <3>2
    <3>4. QED BY Zenon, <2>6, <3>2, <3>3 DEF Navigate
  <2>7. CASE \E d \in delayed : mForegroundTab # None /\ DelayedLoad(d)
    BY Zenon, <2>0, <2>4, <2>7 DEF Done
  <2>8. CASE \E t \in Tab : GoHome(t) \/ Navigate(t)
    BY Zenon, <2>0, <2>5, <2>6, <2>8 DEF Done
  <2>9. QED BY Zenon, <2>3, <2>7, <2>8
<1>5. QED BY Zenon, <1>1, <1>2, <1>3, <1>4, LoadKeeps

(* A step that changes neither tabs nor views.                              *)
LEMMA StillKeeps ==
  ASSUME TabInv,
         UNCHANGED <<tab, viewPost, mHost, mWebTabs, mForegroundTab, made, history, first,
                     hosts, alive, active, curTab, tabDirty, viewDirty, content, crossed,
                     overtaken, overlap>>,
         finishing' \in BOOLEAN, finishing => finishing',
         manager' \subseteq manager \/ manager' = Range(mWebTabs),
         loads' \in 0..MaxLoads,
         delayed' \subseteq [tab : Tab \cup {None}, address : Address], moved' \in BOOLEAN
  PROVE  TabInv'
<1>1. Ranges'
  <2>1. Range(mWebTabs) \subseteq Tab BY DEF TabInv, Ranges, Range
  <2>2. manager' \subseteq Tab BY Zenon, <2>1 DEF TabInv, Ranges
  <2>3. QED BY Zenon, <2>2 DEF TabInv, Ranges
<1>2. Booleans' BY Zenon DEF TabInv, Booleans
<1>3. Owned' /\ Hosting' BY Zenon DEF TabInv, Owned, Hosting
<1>4. Making' BY Zenon DEF TabInv, Making
<1>5. Listing' BY Zenon DEF TabInv, Listing
<1>6. Showing' BY Zenon DEF TabInv, Showing, InUse, Foreground
<1>7. HomeAsPage' BY Zenon DEF TabInv, HomeAsPage, canGoBack
<1>8. QED BY Zenon, <1>1, <1>2, <1>3, <1>4, <1>5, <1>6, <1>7 DEF TabInv

(* onBackPressed with no page to go back to: the home page, or the end of   *)
(* the host.                                                                *)
LEMMA BackPressedKeeps ==
  ASSUME TabInv, Types, Types', BackPressed
  PROVE  TabInv'
<1> DEFINE f == mForegroundTab
<1>0. /\ f \in Tab /\ ~canGoBack(f)
      /\ UNCHANGED <<mHost, mWebTabs, mForegroundTab, made, loads, delayed, history, first,
                     hosts, alive, active, manager, curTab, tabDirty, viewDirty, content, moved,
                     crossed, overtaken, overlap>>
  BY Zenon DEF BackPressed, loadVars, histVars, TabInv, Ranges
<1>1. CASE finishing' = TRUE /\ UNCHANGED <<tab, viewPost>>
  <2>1. /\ manager' \subseteq manager /\ moved' \in BOOLEAN /\ loads' \in 0..MaxLoads
        /\ delayed' \subseteq [tab : Tab \cup {None}, address : Address]
    BY Zenon, <1>0 DEF TabInv, Booleans, Ranges
  <2>2. QED BY Zenon, <1>0, <1>1, <2>1, StillKeeps
<1>2. CASE Turn(f, TRUE, tab) /\ UNCHANGED finishing
  <2>1. tab \in [Tab -> TabRecord] /\ tab' = [tab EXCEPT ![f].home = TRUE]
    BY Zenon, <1>2 DEF Turn, Types
  <2>2. /\ tab'[f].home = TRUE /\ tab'[f].host = tab[f].host
        /\ tab'[f].page = tab[f].page /\ tab'[f].reports = tab[f].reports
        /\ \A u \in Tab : u # f => tab'[u] = tab[u]
    BY <1>0, <2>1, TurnEffect
  <2>3. \/ viewPost' = <<f, TRUE>>
        \/ /\ viewPost' = viewPost
           /\ tab[f].home = TRUE \/ tab[f].host # hosts \/ hosts \notin alive
    BY Zenon, <1>2, TurnPosts
  <2>4. Turned(f) BY Zenon, <2>2, <2>3 DEF Turned
  <2>5. HomeAsPage'
    <3>1. ~canGoBack(f)' BY Zenon, <1>0, <2>2 DEF canGoBack
    <3>2. QED BY Zenon, <1>0, <2>2, <3>1, HomeKept
  <2>6. TurnFrame BY Zenon, <1>0, <1>2 DEF TurnFrame
  <2>7. /\ loads' \in 0..MaxLoads /\ delayed' \subseteq delayed /\ history' \subseteq Address
        /\ moved' \in BOOLEAN /\ crossed' \in BOOLEAN
    BY Zenon, <1>0 DEF TabInv, Ranges, Booleans
  <2>8. QED BY Zenon, <1>0, <2>4, <2>5, <2>6, <2>7, TurnedKeeps
<1>3. QED BY Zenon, <1>1, <1>2 DEF BackPressed

(* A page report turns the foreground tab: its own, or crossed says what    *)
(* became wrong.                                                            *)
LEMMA PageReportServes ==
  ASSUME TabInv, Firsts, Types, Types', NEW t \in Tab, PageReport(t)
  PROVE  TabInv'
<1> DEFINE f == mForegroundTab
           r == Head(tab[t].reports)
           home == TurnsHome(r.page)
           tabs == [tab EXCEPT ![t].reports = Tail(@), ![t].page = r.page]
<1>1. /\ Turn(f, home, tabs) /\ tab[t].reports # <<>>
      /\ history' = history \cup (IF Logs(t, r) THEN {r.page} ELSE {})
      /\ crossed' = (crossed \/ (t # f /\ \E u \in {t, f} : tab[u].home # home))
      /\ first' = [first EXCEPT ![t] = IF @ = NoPage THEN r.page ELSE @]
      /\ UNCHANGED <<turnFrame, loads, delayed, moved>>
  BY Zenon DEF PageReport
<1>2. tab[t].reports \in Seq(Report) BY Zenon DEF Types, TabRecord
<1>3. r \in Report /\ r.page \in Page
  <2>1. r \in Report BY Zenon, <1>1, <1>2, TailKept
  <2>2. QED BY Zenon, <2>1 DEF Report
<1>4. f \in Tab
  <2>1. tab[t].host # None BY Zenon, <1>1 DEF TabInv, Owned
  <2>2. ~(t > made) BY Zenon, <2>1 DEF TabInv, Making
  <2>3. made # 0 BY <2>2, TabsAssumption DEF Tab, TabInv, Ranges
  <2>4. QED BY Zenon, <2>3 DEF TabInv, Making, Ranges
<1>5. home \in BOOLEAN /\ home = (r.page = Home) BY Zenon DEF TurnsHome
<1>6. tabs \in [Tab -> TabRecord] BY Zenon, <1>1, <1>3, CalmReported DEF Calm
<1>7. tabs = [tab EXCEPT ![t].reports = Tail(@), ![t].page = r.page] BY Zenon
<1>8. \A d \in {r.page} : Logs(t, r) => d \in Address
  BY Zenon, <1>3 DEF Logs, Page
<1> HIDE DEF r, home, tabs
<1>18. PICK p : p = r.page BY Zenon
<1>21. PICK q : q = Tail(tab[t].reports) BY Zenon
<1>22. PICK tabs1 : tabs1 = tabs BY Zenon
<1>19. tabs1 = [tab EXCEPT ![t].reports = q, ![t].page = p]
  BY Zenon, <1>7, <1>18, <1>21, <1>22
<1>20. /\ tabs1[t].host = tab[t].host /\ tabs1[t].home = tab[t].home /\ tabs1[t].page = p
       /\ \A u \in Tab : u # t => tabs1[u] = tab[u]
  <2>1. tab \in [Tab -> TabRecord] /\ tab[t] \in TabRecord BY Zenon DEF Types
  <2>2. /\ tabs1[t] = [tab[t] EXCEPT !.reports = q, !.page = p]
        /\ \A u \in Tab : u # t => tabs1[u] = tab[u]
    BY Zenon, <1>19, <2>1
  <2>3. tabs1[t].host = tab[t].host /\ tabs1[t].home = tab[t].home /\ tabs1[t].page = p
    BY Zenon, <2>1, <2>2 DEF TabRecord
  <2>4. QED BY Zenon, <2>2, <2>3
<1>9. /\ tabs[t].host = tab[t].host /\ tabs[t].home = tab[t].home /\ tabs[t].page = r.page
      /\ \A u \in Tab : u # t => tabs[u] = tab[u]
  BY Zenon, <1>18, <1>20, <1>22
<1>10. /\ tab'[f].home = home /\ tab'[f].host = tabs[f].host
       /\ tab'[f].page = tabs[f].page /\ tab'[f].reports = tabs[f].reports
       /\ \A u \in Tab : u # f => tab'[u] = tabs[u]
  <2>1. tab' = [tabs EXCEPT ![f].home = home] BY Zenon, <1>1 DEF Turn
  <2>2. QED BY <1>4, <1>5, <1>6, <2>1, TurnEffect
<1>11. tabs[f].home = tab[f].home /\ tabs[f].host = tab[f].host BY Zenon, <1>4, <1>9
<1>12. Turned(f)
  <2>1. \/ viewPost' = <<f, home>>
        \/ /\ viewPost' = viewPost
           /\ tab[f].home = home \/ tab[f].host # hosts \/ hosts \notin alive
    BY Zenon, <1>1, <1>11, TurnPosts
  <2>2. tab[t].host # None BY Zenon, <1>1 DEF TabInv, Owned
  <2>3. ASSUME NEW u \in Tab
        PROVE  /\ tab'[u].host = tab[u].host
               /\ tab[u].host = None => tab'[u].reports = tab[u].reports
               /\ u # f => tab'[u].home = tab[u].home
    BY Zenon, <1>9, <1>10, <2>2
  <2>4. QED BY Zenon, <1>10, <2>1, <2>3 DEF Turned
<1>13. HomeAsPage'
  <2>1. ASSUME ~crossed', NEW u \in Tab
        PROVE  \/ tab'[u].home = (tab'[u].page = Home)
               \/ /\ tab'[u].reports = tab[u].reports /\ tab'[u].home = tab[u].home
                  /\ tab'[u].page = tab[u].page /\ tab'[u].host = tab[u].host
                  /\ first'[u] = first[u]
    <3>0. u # t => first'[u] = first[u] BY Zenon, <1>1 DEF Firsts
    <3>1. CASE t = f BY Zenon, <1>5, <1>9, <1>10, <3>0, <3>1
    <3>2. CASE t # f
      <4>1. tab[t].home = home /\ tab[f].home = home BY Zenon, <1>1, <2>1, <3>2
      <4>2. CASE u = t BY Zenon, <1>5, <1>9, <1>10, <3>2, <4>1, <4>2
      <4>3. CASE u # t BY Zenon, <1>4, <1>9, <1>10, <1>11, <3>0, <3>2, <4>1, <4>3
      <4>4. QED BY Zenon, <4>2, <4>3
    <3>3. QED BY Zenon, <3>1, <3>2
  <2>2. ~crossed' => ~crossed BY Zenon, <1>1
  <2>3. UNCHANGED <<mHost, mWebTabs, overlap>> BY Zenon, <1>1 DEF turnFrame
  <2>4. QED BY Zenon, <2>1, <2>2, <2>3, HomeKept
<1>14. TurnFrame BY Zenon, <1>1 DEF turnFrame, hostVars, TurnFrame
<1>15. /\ loads' \in 0..MaxLoads /\ delayed' \subseteq delayed /\ history' \subseteq Address
       /\ moved' \in BOOLEAN
  BY Zenon, <1>1, <1>8 DEF TabInv, Ranges, Booleans
<1>16. crossed' \in BOOLEAN BY Zenon, <1>1 DEF TabInv, Booleans
<1>17. QED BY Zenon, <1>4, <1>12, <1>13, <1>14, <1>15, <1>16, TurnedKeeps

-----------------------------------------------------------------------------
(* The host stops, starts or gets a posted view.                            *)
LEMMA ScreenKeeps ==
  ASSUME TabInv, Types, Stop \/ Start \/ RunPost
  PROVE  TabInv'
<1>1. UNCHANGED <<tab, mHost, mWebTabs, mForegroundTab, made, loads, delayed, history, first,
                  hosts, alive, finishing, manager, curTab, moved, crossed, overtaken,
                  overlap>>
  BY Zenon DEF Stop, Start, RunPost, tabVars, loadVars, hostVars, viewVars, histVars
<1>2. Owned' /\ Hosting' BY Zenon, <1>1 DEF TabInv, Owned, Hosting
<1>3. Making' /\ Listing' BY Zenon, <1>1 DEF TabInv, Making, Listing
<1>4. HomeAsPage' BY Zenon, <1>1 DEF TabInv, HomeAsPage, canGoBack
<1>5. Booleans'
  BY Zenon, <1>1 DEF TabInv, Booleans, Stop, Start, RunPost, viewVars, hostVars
<1>6. Ranges' /\ Showing'
  <2>0. NoView \in View BY Zenon DEF NoView, View
  <2>1. CASE Stop
    <3>1. UNCHANGED viewVars /\ active' = FALSE BY Zenon, <2>1 DEF Stop
    <3>2. Ranges' BY Zenon, <1>1, <3>1 DEF TabInv, Ranges, viewVars
    <3>3. Showing' BY Zenon, <1>1, <3>1 DEF TabInv, Showing, InUse, Foreground, viewVars
    <3>4. QED BY Zenon, <3>2, <3>3
  <2>2. CASE Start
    <3>1. /\ InUse /\ active' = TRUE /\ tabDirty' = FALSE /\ viewDirty' = NoView
          /\ viewPost' = viewPost
          /\ content' = IF viewDirty # NoView THEN viewDirty
                        ELSE IF tabDirty THEN <<curTab, tab[curTab].home>> ELSE content
      BY Zenon, <2>2 DEF Start
    <3>2. tabDirty => curTab \in Tab /\ tab[curTab].home \in BOOLEAN
      <4>1. tabDirty => curTab \in Tab BY Zenon DEF TabInv, Ranges
      <4>2. \A u \in Tab : tab[u].home \in BOOLEAN BY Zenon DEF Types, TabRecord
      <4>3. QED BY Zenon, <4>1, <4>2
    <3>3. Ranges' BY Zenon, <1>1, <2>0, <3>1, <3>2 DEF TabInv, Ranges, View
    <3>4. Showing'
      <4>1. ~overlap => curTab = mForegroundTab
        <5>1. ~overlap => mHost # None
          BY <3>1 DEF TabInv, Hosting, InUse, Ranges, None
        <5>2. QED BY Zenon, <5>1 DEF TabInv, Listing
      <4>2. QED BY Zenon, <1>1, <3>1, <4>1 DEF TabInv, Showing, InUse, Foreground
    <3>5. QED BY Zenon, <3>3, <3>4
  <2>3. CASE RunPost
    <3>1. /\ viewPost # NoView /\ viewPost' = NoView /\ UNCHANGED <<active, tabDirty>>
          /\ \/ active /\ content' = viewPost /\ viewDirty' = viewDirty
             \/ ~active /\ viewDirty' = viewPost /\ content' = content
      BY Zenon, <2>3 DEF RunPost, hostVars
    <3>2. Ranges' BY Zenon, <1>1, <2>0, <3>1 DEF TabInv, Ranges
    <3>3. Showing' BY Zenon, <1>1, <3>1 DEF TabInv, Showing, InUse, Foreground
    <3>4. QED BY Zenon, <3>2, <3>3
  <2>4. QED BY Zenon, <2>1, <2>2, <2>3
<1>7. QED BY Zenon, <1>2, <1>3, <1>4, <1>5, <1>6 DEF TabInv

-----------------------------------------------------------------------------
(* What stays as it is when the list or the foreground changes.             *)
ListFrame ==
  UNCHANGED <<mHost, history, first, hosts, alive, active, finishing, viewPost, viewDirty,
              moved, crossed, overlap>>

(* The list of the manager holds tabs.                                      *)
LEMMA InList == TabInv => Range(mWebTabs) \subseteq Tab
  BY DEF TabInv, Ranges, Range

(* changeToTab with a host: it shows the tab, now or when it is started.    *)
LEMMA ChangedKeeps ==
  ASSUME TabInv, Types', mHost # None, ListFrame, NEW t \in Tab, ChangeToTab(t),
         made' \in 0..MaxTabs, loads' \in 0..MaxLoads,
         delayed' \subseteq [tab : Tab \cup {None}, address : Address],
         mWebTabs' \in Seq(Tab), mWebTabs' # <<>>,
         t \in Range(mWebTabs'), manager' \subseteq Range(mWebTabs'), manager' \subseteq Tab,
         ~overlap => \A u \in Range(mWebTabs') : tab'[u].host = mHost,
         Owned', Making', HomeAsPage'
  PROVE  TabInv'
<1> USE DEF ListFrame
<1>1. /\ mForegroundTab' = t /\ curTab' = t /\ tabDirty' = ~active
      /\ overtaken' = (overtaken \/ viewPost # NoView \/ viewDirty # NoView)
      /\ content' = IF active THEN <<t, tab'[t].home>> ELSE content
  BY Zenon DEF ChangeToTab
<1>2. t # None BY DEF Tab, None
<1>3. tab'[t].home \in BOOLEAN BY Zenon DEF Types, TabRecord
<1>4. <<t, tab'[t].home>> \in View BY Zenon, <1>3 DEF View
<1>5. Ranges' BY Zenon, <1>1, <1>2, <1>4 DEF TabInv, Ranges
<1>6. Booleans' BY Zenon, <1>1 DEF TabInv, Booleans
<1>7. Hosting' BY Zenon DEF TabInv, Hosting
<1>8. Listing' BY Zenon, <1>1 DEF Listing
<1>9. Showing'
  <2> SUFFICES ASSUME ~overtaken'
               PROVE  /\ active => viewDirty = NoView /\ ~tabDirty'
                      /\ viewPost = NoView /\ viewDirty = NoView
                      /\ ~tabDirty' => content' = Foreground'
    BY Zenon DEF Showing
  <2>1. QED BY Zenon, <1>1 DEF Foreground
<1>10. QED BY Zenon, <1>5, <1>6, <1>7, <1>8, <1>9 DEF TabInv

(* Adding a tab leaves the host attached.                                   *)
LEMMA AddHost == ASSUME NEW inc, Add(inc) PROVE mHost' = mHost
  BY Zenon DEF Add, tabVars

(* The number of a tab that may still be made.                              *)
LEMMA NextTab ==
  ASSUME Ranges, made < MaxTabs
  PROVE  made + 1 \in Tab /\ made + 1 \in 0..MaxTabs
  BY TabsAssumption DEF Ranges, Tab

(* A step of addTab, with a host and without one.                           *)
LEMMA AddServes ==
  ASSUME TabInv, Types, Types', NEW inc \in BOOLEAN, Add(inc), ListFrame,
         manager' \subseteq manager, loads' \in 0..MaxLoads,
         delayed' \subseteq [tab : Tab \cup {None}, address : Address]
  PROVE  TabInv'
<1> USE DEF ListFrame
<1>1. CASE mHost = None
  <2>1. UNCHANGED <<mHost, mWebTabs, mForegroundTab, made, tab, curTab, tabDirty, content,
                    overtaken>>
    BY Zenon, <1>1 DEF Add, tabVars
  <2>2. finishing' \in BOOLEAN /\ moved' \in BOOLEAN BY Zenon DEF TabInv, Booleans
  <2>3. QED BY Zenon, <2>1, <2>2, StillKeeps
<1>2. CASE mHost # None
  <2> DEFINE n == made + 1
  <2>1. /\ made < MaxTabs /\ made' = n /\ tab' = [tab EXCEPT ![n] = Attached(mHost, inc)]
        /\ mWebTabs' = Append(mWebTabs, n) /\ ChangeToTab(n)
    BY Zenon, <1>2 DEF Add
  <2>2. n \in Tab /\ made' \in 0..MaxTabs BY Zenon, <2>1, NextTab DEF TabInv
  <2>3. tab \in [Tab -> TabRecord] BY Zenon DEF Types
  <2>4. mWebTabs \in Seq(Tab) /\ IsInjective(mWebTabs) BY Zenon DEF TabInv, Ranges, Making
  <2>5. Range(mWebTabs) \subseteq Tab BY Zenon, InList
  <2>6. \A u \in Tab : /\ u <= made => u # n /\ u <= n
                       /\ u > n => u > made /\ u # n
    BY DEF Tab, TabInv, Ranges
  <2>7. n <= n BY DEF TabInv, Ranges
  <2> HIDE DEF n
  <2>8. /\ tab'[n].host = mHost /\ tab'[n].reports # <<>>
        /\ \A u \in Tab : u # n => tab'[u] = tab[u]
    <3>1. tab'[n] = Attached(mHost, inc) /\ \A u \in Tab : u # n => tab'[u] = tab[u]
      BY Zenon, <2>1, <2>2, <2>3
    <3>2. Attached(mHost, inc).host = mHost /\ Attached(mHost, inc).reports # <<>>
      BY Zenon, AttachedFields
    <3>3. tab'[n].host = mHost /\ tab'[n].reports # <<>> BY Zenon, <3>1, <3>2
    <3>4. QED BY Zenon, <3>1, <3>3
  <2>9. n \notin Range(mWebTabs) BY Zenon, <2>5, <2>6 DEF TabInv, Making
  <2>10. /\ mWebTabs' \in Seq(Tab) /\ mWebTabs' # <<>> /\ IsInjective(mWebTabs')
         /\ Range(mWebTabs') = Range(mWebTabs) \cup {n}
    BY Zenon, <2>1, <2>2, <2>4, <2>9, ListedMore
  <2>11. mForegroundTab' = n /\ n # None
    <3>1. n # None BY <2>2 DEF Tab, None
    <3>2. QED BY Zenon, <2>1, <3>1 DEF ChangeToTab
  <2>12. mHost <= hosts
    <3>1. mHost \in {None, hosts} /\ hosts \in 0..MaxHosts
      BY Zenon DEF TabInv, Hosting, Ranges
    <3>2. QED BY <3>1, TabsAssumption DEF None
  <2>13. Owned' BY Zenon, <1>2, <2>8, <2>12 DEF TabInv, Owned
  <2>14. Making'
    <3>1. \A u \in Tab : u > made' => tab'[u].host = None
      BY Zenon, <2>1, <2>6, <2>8 DEF TabInv, Making
    <3>2. \A u \in Range(mWebTabs') : u <= made'
      BY Zenon, <2>1, <2>5, <2>6, <2>7, <2>10 DEF TabInv, Making
    <3>3. QED BY Zenon, <2>10, <2>11, <3>1, <3>2 DEF Making
  <2>15. HomeAsPage'
    BY Zenon, <2>5, <2>8, <2>10 DEF TabInv, HomeAsPage, canGoBack
  <2>16. ~overlap => \A u \in Range(mWebTabs') : tab'[u].host = mHost
    BY Zenon, <1>2, <2>5, <2>8, <2>10 DEF TabInv, Listing
  <2>17. manager' \subseteq Range(mWebTabs') /\ manager' \subseteq Tab
    BY Zenon, <1>2, <2>5, <2>10 DEF TabInv, Listing
  <2>18. n \in Range(mWebTabs') BY Zenon, <2>10
  <2>19. QED
    BY Zenon, <1>2, <2>1, <2>2, <2>10, <2>13, <2>14, <2>15, <2>16, <2>17, <2>18, ChangedKeeps
<1>3. QED BY Zenon, <1>1, <1>2

(* A new tab, empty or with an address, keeps the invariant.                *)
LEMMA AddTabServes ==
  ASSUME TabInv, Types, Types',
         (\E inc \in BOOLEAN : AddTab(inc)) \/ (\E a \in Address : AddTabAndLoad(a))
  PROVE  TabInv'
<1>1. ASSUME NEW inc \in BOOLEAN, AddTab(inc) PROVE TabInv'
  <2>1. Add(inc) /\ ListFrame /\ manager' = {} /\ UNCHANGED <<loads, delayed>>
    BY Zenon, <1>1, AddHost DEF AddTab, ListFrame, loadVars, hostVars
  <2>2. /\ manager' \subseteq manager /\ loads' \in 0..MaxLoads
        /\ delayed' \subseteq [tab : Tab \cup {None}, address : Address]
    BY Zenon, <2>1 DEF TabInv, Ranges
  <2>3. QED BY Zenon, <2>1, <2>2, AddServes
<1>2. ASSUME NEW a \in Address, AddTabAndLoad(a) PROVE TabInv'
  <2> DEFINE for == IF mHost = None THEN None ELSE made'
             inc == a = "private"
  <2>1. /\ Add(inc) /\ ListFrame /\ manager' = manager
        /\ loads < MaxLoads /\ loads' = loads + 1
        /\ delayed' = delayed \cup {[tab |-> for, address |-> a]}
    BY Zenon, <1>2, AddHost DEF AddTabAndLoad, ListFrame, hostVars
  <2>2. loads' \in 0..MaxLoads BY <2>1, TabsAssumption DEF TabInv, Ranges
  <2>3. for \in Tab \cup {None}
    <3>1. CASE mHost = None BY Zenon, <3>1
    <3>2. CASE mHost # None
      <4>1. made < MaxTabs /\ made' = made + 1 BY Zenon, <2>1, <3>2 DEF Add
      <4>2. made' \in Tab BY Zenon, <4>1, NextTab DEF TabInv
      <4>3. QED BY Zenon, <3>2, <4>2
    <3>3. QED BY Zenon, <3>1, <3>2
  <2>4. inc \in BOOLEAN BY Zenon
  <2> HIDE DEF for, inc
  <2>5. delayed' \subseteq [tab : Tab \cup {None}, address : Address]
    BY <2>1, <2>3 DEF TabInv, Ranges
  <2>6. manager' \subseteq manager BY Zenon, <2>1
  <2>7. QED BY Zenon, <2>1, <2>2, <2>4, <2>5, <2>6, AddServes
<1>3. QED BY Zenon, <1>1, <1>2

-----------------------------------------------------------------------------
(* A tab chosen in the tab manager, which need not have a host any more.    *)
LEMMA SelectServes ==
  ASSUME TabInv, Types, Types', NEW t \in Tab, Select(t)
  PROVE  TabInv'
<1>0. /\ t \in manager /\ manager' = {} /\ ChangeToTab(t) /\ mForegroundTab' = t
      /\ UNCHANGED <<mWebTabs, made, tab, loads, delayed>> /\ ListFrame
  BY Zenon DEF Select, loadVars, hostVars, ListFrame, ChangeToTab
<1> USE DEF ListFrame
<1>1. t # None BY DEF Tab, None
<1>2. Owned' BY Zenon, <1>0 DEF TabInv, Owned
<1>3. Making' BY Zenon, <1>0, <1>1 DEF TabInv, Making
<1>4. HomeAsPage' BY Zenon, <1>0 DEF TabInv, HomeAsPage, canGoBack
<1>5. CASE mHost = None
  <2>1. UNCHANGED <<curTab, tabDirty, content, overtaken>> BY Zenon, <1>0, <1>5 DEF ChangeToTab
  <2>2. Ranges' BY Zenon, <1>0, <2>1 DEF TabInv, Ranges
  <2>3. Booleans' BY Zenon, <1>0, <2>1 DEF TabInv, Booleans
  <2>4. Hosting' BY Zenon, <1>0 DEF TabInv, Hosting
  <2>5. Listing' BY Zenon, <1>0, <1>5 DEF Listing
  <2>6. Showing'
    <3>1. InUse /\ ~overlap => mHost # None BY DEF TabInv, Hosting, InUse, Ranges, None
    <3>2. QED BY Zenon, <1>0, <1>5, <3>1 DEF Showing, InUse
  <2>7. QED BY Zenon, <1>2, <1>3, <1>4, <2>2, <2>3, <2>4, <2>5, <2>6 DEF TabInv
<1>6. CASE mHost # None
  <2>1. /\ made' \in 0..MaxTabs /\ loads' \in 0..MaxLoads /\ mWebTabs' \in Seq(Tab)
        /\ delayed' \subseteq [tab : Tab \cup {None}, address : Address]
    BY Zenon, <1>0 DEF TabInv, Ranges
  <2>2. mWebTabs' # <<>> BY Zenon, <1>0, <1>6 DEF TabInv, Hosting
  <2>3. /\ t \in Range(mWebTabs')
        /\ ~overlap => \A u \in Range(mWebTabs') : tab'[u].host = mHost
    BY Zenon, <1>0, <1>6 DEF TabInv, Listing
  <2>4. manager' \subseteq Range(mWebTabs') /\ manager' \subseteq Tab BY Zenon, <1>0
  <2>5. QED
    BY Zenon, <1>0, <1>2, <1>3, <1>4, <1>6, <2>1, <2>2, <2>3, <2>4, ChangedKeeps
<1>7. QED BY Zenon, <1>5, <1>6

(* removeTab: the foreground stays, passes to the first tab left, or to a   *)
(* new one.                                                                 *)
LEMMA RemoveTabServes ==
  ASSUME TabInv, Types, Types', NEW t \in Tab, RemoveTab(t)
  PROVE  TabInv'
<1>0. /\ t \in manager /\ manager' = manager \ {t} /\ UNCHANGED <<loads, delayed>>
      /\ ListFrame
  BY Zenon DEF RemoveTab, loadVars, hostVars, ListFrame
<1> USE DEF ListFrame
<1>1. CASE t \notin Range(mWebTabs)
  <2>1. UNCHANGED <<mWebTabs, mForegroundTab, made, tab, curTab, tabDirty, content, overtaken>>
    BY Zenon, <1>1 DEF RemoveTab
  <2>2. /\ finishing' \in BOOLEAN /\ moved' \in BOOLEAN /\ loads' \in 0..MaxLoads
        /\ delayed' \subseteq [tab : Tab \cup {None}, address : Address]
        /\ manager' \subseteq manager
    BY Zenon, <1>0 DEF TabInv, Booleans, Ranges
  <2>3. QED BY Zenon, <1>0, <2>1, <2>2, StillKeeps
<1>2. CASE t \in Range(mWebTabs)
  <2> DEFINE rest == Without(t)
             left == Detached(tab, {t})
             n == made + 1
  <2>1. Removed(t) BY Zenon, <1>2 DEF RemoveTab
  <2>2. mHost # None
    <3>1. mWebTabs # <<>> BY <1>2 DEF Range
    <3>2. QED BY Zenon, <3>1 DEF TabInv, Hosting
  <2>3. /\ rest \in Seq(Tab) /\ Range(rest) = Range(mWebTabs) \ {t} /\ IsInjective(rest)
        /\ rest # <<>> => Head(rest) \in Range(rest)
    BY Zenon, <1>2, Removal DEF TabInv, Ranges, Making
  <2>4. tab \in [Tab -> TabRecord] BY Zenon DEF Types
  <2>5. /\ left[t].host = None /\ left[t].reports = <<>>
        /\ \A u \in Tab : u # t => left[u] = tab[u]
    BY Zenon, <2>4, DetachedEffect
  <2>6. Range(mWebTabs) \subseteq Tab BY Zenon, InList
  <2>7. /\ made \in 0..MaxTabs /\ loads' \in 0..MaxLoads
        /\ delayed' \subseteq [tab : Tab \cup {None}, address : Address]
    BY Zenon, <1>0 DEF TabInv, Ranges
  <2>8. 0 <= hosts BY DEF TabInv, Ranges
  <2>15. \A u \in Tab : /\ left[u].host <= hosts
                        /\ left[u].host = None => left[u].reports = <<>>
                        /\ u > made => left[u].host = None
    <3>1. left[t].host <= hosts BY Zenon, <2>5, <2>8 DEF None
    <3>2. ASSUME NEW u \in Tab, u # t
          PROVE  /\ left[u].host <= hosts
                 /\ left[u].host = None => left[u].reports = <<>>
                 /\ u > made => left[u].host = None
      BY Zenon, <2>5, <3>2 DEF TabInv, Owned, Making
    <3>3. QED BY Zenon, <2>5, <3>1, <3>2
  <2>9. manager' \subseteq Range(rest) /\ manager' \subseteq Tab
    BY Zenon, <1>0, <2>2, <2>3, <2>6 DEF TabInv, Listing
  <2> HIDE DEF rest, left
  <2>10. ASSUME mWebTabs' = rest, tab' = left, made' = made, mForegroundTab' # None
         PROVE  /\ Owned' /\ Making' /\ HomeAsPage'
                /\ ~overlap => \A u \in Range(mWebTabs') : tab'[u].host = mHost
                /\ made' \in 0..MaxTabs /\ mWebTabs' \in Seq(Tab)
                /\ manager' \subseteq Range(mWebTabs')
    <3>1. Owned' BY Zenon, <1>0, <2>10, <2>15 DEF Owned
    <3>2. Making' BY Zenon, <2>3, <2>10, <2>15 DEF TabInv, Making
    <3>3. HomeAsPage'
      BY Zenon, <1>0, <2>2, <2>3, <2>5, <2>6, <2>10 DEF TabInv, HomeAsPage, canGoBack
    <3>4. ~overlap => \A u \in Range(mWebTabs') : tab'[u].host = mHost
      BY Zenon, <2>2, <2>3, <2>5, <2>6, <2>10 DEF TabInv, Listing
    <3>5. QED BY Zenon, <2>3, <2>7, <2>9, <2>10, <3>1, <3>2, <3>3, <3>4
  <2>11. CASE t # mForegroundTab
    <3>1. /\ mWebTabs' = rest /\ tab' = left
          /\ UNCHANGED <<mForegroundTab, made, curTab, tabDirty, content, overtaken>>
      BY Zenon, <2>1, <2>11 DEF Removed, rest, left
    <3>2. mForegroundTab \in Range(rest) BY Zenon, <2>2, <2>3, <2>11 DEF TabInv, Listing
    <3>3. mForegroundTab \in Tab BY Zenon, <2>3, <2>6, <3>2
    <3>4. mForegroundTab' # None BY <3>1, <3>3 DEF Tab, None
    <3>5. rest # <<>>
      <4>1. Range(rest) # {} BY Zenon, <3>2
      <4>2. QED BY Zenon, <4>1, ListedNone
    <3>6. Ranges' BY Zenon, <1>0, <2>7, <2>9, <2>10, <3>1, <3>4 DEF TabInv, Ranges
    <3>7. Booleans' BY Zenon, <1>0, <3>1 DEF TabInv, Booleans
    <3>8. Hosting' BY Zenon, <1>0, <2>2, <3>1, <3>5 DEF TabInv, Hosting
    <3>9. Listing' BY Zenon, <1>0, <2>2, <2>10, <3>1, <3>2, <3>4 DEF TabInv, Listing
    <3>10. Foreground' = Foreground BY Zenon, <2>5, <2>11, <3>1, <3>3 DEF Foreground
    <3>11. Showing' BY Zenon, <1>0, <3>1, <3>10 DEF TabInv, Showing, InUse
    <3>12. QED BY Zenon, <2>10, <3>1, <3>4, <3>6, <3>7, <3>8, <3>9, <3>11 DEF TabInv
  <2>12. CASE t = mForegroundTab /\ rest # <<>>
    <3>1. mWebTabs' = rest /\ tab' = left /\ made' = made /\ ChangeToTab(Head(rest))
      BY Zenon, <2>1, <2>12 DEF Removed, rest, left
    <3>2. PICK u \in Tab : u = Head(rest) BY Zenon, <2>3, <2>6, <2>12
    <3>3. u \in Range(mWebTabs') /\ mWebTabs' # <<>> /\ ChangeToTab(u)
      BY Zenon, <2>3, <2>12, <3>1, <3>2
    <3>4. mForegroundTab' # None
      <4>1. u # None BY DEF Tab, None
      <4>2. QED BY Zenon, <3>3, <4>1 DEF ChangeToTab
    <3>5. /\ Owned' /\ Making' /\ HomeAsPage'
          /\ ~overlap => \A v \in Range(mWebTabs') : tab'[v].host = mHost
          /\ made' \in 0..MaxTabs /\ mWebTabs' \in Seq(Tab)
          /\ manager' \subseteq Range(mWebTabs')
      BY Zenon, <2>10, <3>1, <3>4
    <3>6. QED BY Zenon, <1>0, <2>2, <2>7, <2>9, <3>3, <3>5, ChangedKeeps
  <2>13. CASE t = mForegroundTab /\ rest = <<>>
    <3>1. /\ made < MaxTabs /\ made' = n /\ mWebTabs' = <<n>> /\ ChangeToTab(n)
          /\ tab' = [left EXCEPT ![n] = Attached(mHost, FALSE)]
      BY Zenon, <2>1, <2>13 DEF Removed, rest, left
    <3>2. n \in Tab /\ made' \in 0..MaxTabs BY Zenon, <3>1, NextTab DEF TabInv
    <3>3. (\A u \in Tab : u > n => u > made /\ u # n) /\ n <= n
      BY DEF Tab, TabInv, Ranges
    <3>4. n # None BY <3>2 DEF Tab, None
    <3>5. mHost <= hosts
      <4>1. mHost \in {None, hosts} /\ hosts \in 0..MaxHosts
        BY Zenon DEF TabInv, Hosting, Ranges
      <4>2. QED BY <4>1, TabsAssumption DEF None
    <3> HIDE DEF n
    <3>6. left \in [Tab -> TabRecord]
      BY Zenon, CalmSame, CalmDetached DEF Calm, left
    <3>7. /\ tab'[n].host = mHost /\ tab'[n].reports # <<>>
          /\ \A u \in Tab : u # n => tab'[u] = left[u]
      <4>1. tab'[n] = Attached(mHost, FALSE) /\ \A u \in Tab : u # n => tab'[u] = left[u]
        BY Zenon, <3>1, <3>2, <3>6
      <4>2. Attached(mHost, FALSE).host = mHost /\ Attached(mHost, FALSE).reports # <<>>
        BY Zenon, AttachedFields
      <4>3. tab'[n].host = mHost /\ tab'[n].reports # <<>> BY Zenon, <4>1, <4>2
      <4>4. QED BY Zenon, <4>1, <4>3
    <3>8. /\ mWebTabs' \in Seq(Tab) /\ mWebTabs' # <<>> /\ IsInjective(mWebTabs')
          /\ Range(mWebTabs') = {n}
      BY Zenon, <3>1, <3>2, ListedOne
    <3>9. mForegroundTab' = n BY Zenon, <3>1 DEF ChangeToTab
    <3>10. Owned' BY Zenon, <1>0, <2>2, <2>15, <3>5, <3>7 DEF Owned
    <3>11. Making'
      <4>1. \A u \in Tab : u > made' => tab'[u].host = None
        BY Zenon, <2>15, <3>1, <3>3, <3>7
      <4>2. QED BY Zenon, <3>1, <3>3, <3>4, <3>8, <3>9, <4>1 DEF Making
    <3>12. HomeAsPage' BY Zenon, <3>7, <3>8 DEF HomeAsPage
    <3>13. manager' \subseteq Range(mWebTabs')
      BY Zenon, <2>9, <2>13, ListedNone
    <3>14. n \in Range(mWebTabs') /\ \A u \in Range(mWebTabs') : tab'[u].host = mHost
      BY Zenon, <3>7, <3>8
    <3>15. QED
      BY Zenon, <1>0, <2>2, <2>7, <2>9, <3>1, <3>2, <3>8, <3>10, <3>11, <3>12, <3>13,
         <3>14, ChangedKeeps
  <2>14. QED BY Zenon, <2>11, <2>12, <2>13
<1>3. QED BY Zenon, <1>1, <1>2

-----------------------------------------------------------------------------
(* A host is created: it takes the tabs there are, which are those of a     *)
(* host that is still there, or gets a new one.                             *)
LEMMA CreateServes ==
  ASSUME TabInv, Types, Types', Create
  PROVE  TabInv'
<1> DEFINE h == hosts + 1
           n == made + 1
<1>0. /\ hosts < MaxHosts /\ hosts' = h /\ alive' = alive \cup {h} /\ active' = FALSE
      /\ finishing' = FALSE /\ manager' = {} /\ overlap' = (alive # {}) /\ mHost' = h
      /\ viewPost' = NoView /\ viewDirty' = NoView /\ content' = NoView
      /\ UNCHANGED <<loads, delayed, history, moved, crossed, overtaken>>
  BY Zenon DEF Create, Attach, loadVars
<1>1. /\ h \in 0..MaxHosts /\ h # None /\ alive' \subseteq 1..h
      /\ \A x \in Nat : x <= hosts => x <= h
  BY <1>0, TabsAssumption DEF TabInv, Ranges, None
<1>2. NoView \in View BY Zenon DEF NoView, View
<1>3. \A u \in Tab : tab[u].host \in Nat BY Zenon DEF Types, TabRecord
<1>4. CASE mWebTabs = <<>>
  <2>1. /\ made < MaxTabs /\ made' = n /\ tab' = [tab EXCEPT ![n] = Attached(h, FALSE)]
        /\ mWebTabs' = <<n>> /\ mForegroundTab' = n /\ curTab' = n /\ tabDirty' = TRUE
    BY Zenon, <1>4 DEF Create, Attach
  <2>2. n \in Tab /\ made' \in 0..MaxTabs BY Zenon, <2>1, NextTab DEF TabInv
  <2>3. n # None BY <2>2 DEF Tab, None
  <2>4. (\A u \in Tab : u > n => u > made /\ u # n) /\ n <= n /\ h <= h
    BY DEF Tab, TabInv, Ranges
  <2> HIDE DEF n, h
  <2>5. tab \in [Tab -> TabRecord] BY Zenon DEF Types
  <2>6. tab'[n] = Attached(h, FALSE) /\ \A u \in Tab : u # n => tab'[u] = tab[u]
    BY Zenon, <2>1, <2>2, <2>5
  <2>7. Attached(h, FALSE).host = h /\ Attached(h, FALSE).reports # <<>>
    BY Zenon, AttachedFields
  <2>8. tab'[n].host = h /\ tab'[n].reports # <<>> BY Zenon, <2>6, <2>7
  <2>9. /\ mWebTabs' \in Seq(Tab) /\ mWebTabs' # <<>> /\ IsInjective(mWebTabs')
        /\ Range(mWebTabs') = {n}
    BY Zenon, <2>1, <2>2, ListedOne
  <2>10. Ranges' BY Zenon, <1>0, <1>1, <1>2, <2>1, <2>2, <2>3, <2>9 DEF TabInv, Ranges
  <2>11. Booleans' BY Zenon, <1>0, <2>1 DEF TabInv, Booleans
  <2>12. Owned'
    BY Zenon, <1>0, <1>1, <1>3, <2>4, <2>6, <2>8 DEF TabInv, Owned
  <2>13. Hosting' BY Zenon, <1>0, <1>1, <2>9 DEF Hosting
  <2>14. Making'
    <3>1. \A u \in Tab : u > made' => tab'[u].host = None
      BY Zenon, <2>1, <2>4, <2>6 DEF TabInv, Making
    <3>2. QED BY Zenon, <2>1, <2>3, <2>4, <2>9, <3>1 DEF Making
  <2>15. Listing' BY Zenon, <1>0, <2>1, <2>8, <2>9 DEF Listing
  <2>16. Showing' BY Zenon, <1>0, <2>1 DEF Showing
  <2>17. HomeAsPage' BY Zenon, <2>8, <2>9 DEF HomeAsPage
  <2>18. QED
    BY Zenon, <2>10, <2>11, <2>12, <2>13, <2>14, <2>15, <2>16, <2>17 DEF TabInv
<1>5. CASE mWebTabs # <<>>
  <2>1. /\ curTab' = None /\ tabDirty' = FALSE
        /\ UNCHANGED <<mWebTabs, mForegroundTab, made, tab>>
    BY Zenon, <1>5 DEF Create, Attach
  <2>2. mHost # None BY Zenon, <1>5 DEF TabInv, Hosting
  <2>3. overlap' = TRUE BY Zenon, <1>0, <2>2 DEF TabInv, Hosting
  <2> HIDE DEF n, h
  <2>4. Ranges' BY Zenon, <1>0, <1>1, <1>2, <2>1 DEF TabInv, Ranges
  <2>5. Booleans' BY Zenon, <1>0, <2>1, <2>3 DEF TabInv, Booleans
  <2>6. Owned' BY Zenon, <1>0, <1>1, <1>3, <2>1 DEF TabInv, Owned
  <2>7. Hosting' BY Zenon, <1>0, <1>1, <1>5, <2>1, <2>3 DEF Hosting
  <2>8. Making' BY Zenon, <2>1 DEF TabInv, Making
  <2>9. Listing' BY Zenon, <1>0, <2>1, <2>2, <2>3 DEF TabInv, Listing
  <2>10. Showing' /\ HomeAsPage' BY Zenon, <2>3 DEF Showing, HomeAsPage
  <2>11. QED BY Zenon, <2>4, <2>5, <2>6, <2>7, <2>8, <2>9, <2>10 DEF TabInv
<1>6. QED BY Zenon, <1>4, <1>5

(* A host is destroyed, and with it the tabs of the one attached.           *)
LEMMA DestroyServes ==
  ASSUME TabInv, Types, NEW h \in alive, Destroy(h)
  PROVE  TabInv'
<1> DEFINE left == Detached(tab, Range(mWebTabs))
<1>0. /\ alive' = alive \ {h} /\ mHost' = None /\ tab' = left /\ mWebTabs' = <<>>
      /\ viewPost' = NoView \/ viewPost' = viewPost
      /\ UNCHANGED <<mForegroundTab, made, loads, delayed, history, hosts, active, finishing,
                     manager, curTab, tabDirty, viewDirty, content, moved, crossed,
                     overtaken, overlap>>
  BY Zenon DEF Destroy, loadVars, histVars
<1>1. NoView \in View BY Zenon DEF NoView, View
<1>2. \A u \in Tab : \/ left[u].host = None /\ left[u].reports = <<>>
                     \/ left[u] = tab[u]
  <2>1. tab \in [Tab -> TabRecord] BY Zenon DEF Types
  <2>2. QED BY Zenon, <2>1, DetachedEffect
<1> HIDE DEF left
<1>3. None <= hosts BY DEF TabInv, Ranges, None
<1>4. Ranges' BY Zenon, <1>0, <1>1, ListedNone DEF TabInv, Ranges
<1>5. Booleans' BY Zenon, <1>0 DEF TabInv, Booleans
<1>6. Owned'
  <2>1. ASSUME NEW u \in Tab
        PROVE  left[u].host <= hosts /\ (left[u].host = None => left[u].reports = <<>>)
    <3>1. CASE left[u].host = None /\ left[u].reports = <<>> BY Zenon, <1>3, <3>1
    <3>2. CASE left[u] = tab[u] BY Zenon, <3>2 DEF TabInv, Owned
    <3>3. QED BY Zenon, <1>2, <3>1, <3>2
  <2>2. QED BY Zenon, <1>0, <2>1 DEF Owned
<1>7. Hosting' BY Zenon, <1>0 DEF TabInv, Hosting
<1>8. Making'
  <2>1. ASSUME NEW u \in Tab, u > made PROVE left[u].host = None
    BY Zenon, <1>2, <2>1 DEF TabInv, Making
  <2>2. QED BY Zenon, <1>0, <2>1, ListedNone DEF TabInv, Making
<1>9. Listing' /\ HomeAsPage' BY Zenon, <1>0 DEF Listing, HomeAsPage
<1>10. Showing'
  <2>1. ~overlap => hosts \notin alive' BY Zenon, <1>0 DEF TabInv, Hosting
  <2>2. QED BY Zenon, <1>0, <2>1 DEF Showing, InUse
<1>11. QED BY Zenon, <1>4, <1>5, <1>6, <1>7, <1>8, <1>9, <1>10 DEF TabInv

(* A web view gets its first page when it reports it.                       *)
LEMMA FirstStep == Types /\ Firsts /\ [Next]_vars => Firsts'
<1> SUFFICES ASSUME Types, Firsts, [Next]_vars PROVE Firsts'
  BY Zenon
<1>1. ASSUME NEW t \in Tab, PageReport(t) PROVE Firsts'
  <2> DEFINE p == Head(tab[t].reports).page
  <2>1. tab[t].reports \in Seq(Report) /\ tab[t].reports # <<>>
    BY Zenon, <1>1 DEF PageReport, Types, TabRecord
  <2>2. p \in Page
    <3>1. Head(tab[t].reports) \in Report BY Zenon, <2>1, TailKept
    <3>2. QED BY Zenon, <3>1 DEF Report
  <2>3. first' = [first EXCEPT ![t] = IF @ = NoPage THEN p ELSE @]
    BY Zenon, <1>1 DEF PageReport
  <2> HIDE DEF p
  <2>4. QED BY <2>2, <2>3 DEF Firsts
<1>2. (\E t \in Tab : PageReport(t)) \/ first' = first
  BY Zenon DEF Next, AddTab, AddTabAndLoad, DelayedLoad, GoHome, Navigate, Select, RemoveTab,
     Destroy, Load, BackPressed, OpenManager, LeaveManager, Create, Stop, Start, RunPost,
     loadVars, vars
<1>3. QED BY Zenon, <1>1, <1>2 DEF Firsts

(* Every step of the tabs keeps the invariant.                              *)
LEMMA TabStep ==
  IInv /\ Firsts /\ TabInv /\ [Next]_vars => (IInv /\ Firsts /\ TabInv)'
<1> SUFFICES ASSUME IInv, Firsts, TabInv, [Next]_vars
             PROVE  (IInv /\ Firsts /\ TabInv)'
  BY Zenon
<1>1. IInv' /\ Firsts' BY Zenon, Step, FirstStep DEF IInv
<1>2. Types /\ Types' BY Zenon, <1>1 DEF IInv
<1>3. /\ finishing \in BOOLEAN /\ moved \in BOOLEAN /\ loads \in 0..MaxLoads
      /\ delayed \subseteq [tab : Tab \cup {None}, address : Address]
  BY Zenon DEF TabInv, Booleans, Ranges
<1>4. CASE UNCHANGED vars
  <2>1. /\ UNCHANGED <<tab, viewPost, mHost, mWebTabs, mForegroundTab, made, history, first,
                       hosts, alive, active, curTab, tabDirty, viewDirty, content, crossed,
                       overtaken, overlap>>
        /\ UNCHANGED <<finishing, manager, loads, delayed, moved>>
    BY Zenon, <1>4 DEF vars, tabVars, loadVars, hostVars, viewVars, histVars
  <2>2. manager' \subseteq manager BY Zenon, <2>1
  <2>3. TabInv' BY Zenon, <1>3, <2>1, <2>2, StillKeeps
  <2>4. QED BY Zenon, <1>1, <2>3
<1>5. CASE OpenManager \/ LeaveManager
  <2>1. /\ UNCHANGED <<tab, viewPost, mHost, mWebTabs, mForegroundTab, made, history, first,
                       hosts, alive, active, curTab, tabDirty, viewDirty, content, crossed,
                       overtaken, overlap>>
        /\ UNCHANGED <<finishing, loads, delayed, moved>>
        /\ manager' = {} \/ manager' = Range(mWebTabs)
    BY Zenon, <1>5 DEF OpenManager, LeaveManager, tabVars, loadVars, hostVars, viewVars,
                       histVars
  <2>2. manager' \subseteq manager \/ manager' = Range(mWebTabs) BY Zenon, <2>1
  <2>3. TabInv' BY Zenon, <1>3, <2>1, <2>2, StillKeeps
  <2>4. QED BY Zenon, <1>1, <2>3
<1>6. ASSUME NEW d \in delayed, DelayedLoad(d), mForegroundTab = None PROVE TabInv'
  <2>1. /\ UNCHANGED <<tab, viewPost, mHost, mWebTabs, mForegroundTab, made, history, first,
                       hosts, alive, active, curTab, tabDirty, viewDirty, content, crossed,
                       overtaken, overlap>>
        /\ UNCHANGED <<finishing, manager, loads>>
        /\ delayed' = delayed \ {d} /\ moved' = (moved \/ mForegroundTab # d.tab)
    BY Zenon, <1>6 DEF DelayedLoad, turnFrame, hostVars
  <2>2. /\ manager' \subseteq manager /\ moved' \in BOOLEAN
        /\ delayed' \subseteq [tab : Tab \cup {None}, address : Address]
    BY Zenon, <1>3, <2>1
  <2>3. QED BY Zenon, <1>3, <2>1, <2>2, StillKeeps
<1>7. CASE Next
  <2>1. CASE (\E inc \in BOOLEAN : AddTab(inc)) \/ (\E a \in Address : AddTabAndLoad(a))
    BY Zenon, <1>1, <1>2, <2>1, AddTabServes
  <2>2. CASE Load \/ (\E d \in delayed : DelayedLoad(d))
             \/ (\E t \in Tab : GoHome(t) \/ Navigate(t))
    BY Zenon, <1>1, <1>2, <1>6, <2>2, LoadStepsKeep
  <2>3. ASSUME NEW t \in Tab, PageReport(t) \/ Select(t) \/ RemoveTab(t) PROVE TabInv'
    BY Zenon, <1>2, <2>3, PageReportServes, SelectServes, RemoveTabServes
  <2>4. ASSUME NEW h \in alive, Destroy(h) PROVE TabInv'
    BY Zenon, <1>2, <2>4, DestroyServes
  <2>5. CASE BackPressed \/ Create BY Zenon, <1>1, <1>2, <2>5, BackPressedKeeps, CreateServes
  <2>6. CASE Stop \/ Start \/ RunPost BY Zenon, <1>1, <1>2, <2>6, ScreenKeeps
  <2>7. QED BY Zenon, <1>1, <1>5, <1>7, <2>1, <2>2, <2>3, <2>4, <2>5, <2>6 DEF Next
<1>8. QED BY Zenon, <1>4, <1>7

(* The invariants hold at first.                                            *)
LEMMA TabStart == Init => IInv /\ Firsts /\ TabInv
<1> SUFFICES ASSUME Init PROVE IInv /\ Firsts /\ TabInv
  BY Zenon
<1>1. Home \in Page /\ {} \in SUBSET Page /\ <<>> \in Seq(Report) BY DEF Page
<1>2. NoTab \in TabRecord BY Zenon, <1>1 DEF NoTab, TabRecord, None
<1>3. Types BY Zenon, <1>2 DEF Init, Types, None
<1>4. Kept(NoTab) BY DEF Kept, NoTab, NoPrivate
<1>5. Secret BY Zenon, <1>4 DEF Init, Secret
<1>6. NoView \in View BY Zenon DEF NoView, View
<1>7. NoTab.host = None /\ NoTab.reports = <<>> BY Zenon DEF NoTab
<1>8. 0 \in 0..MaxTabs /\ 0 \in 0..MaxHosts /\ 0 \in 0..MaxLoads /\ 0 <= 0
  BY TabsAssumption
<1>9. \A t \in Tab : tab[t] = NoTab BY Zenon DEF Init
<1>10. Ranges BY Zenon, <1>6, <1>8, ListedNone DEF Init, Ranges
<1>11. Booleans BY Zenon DEF Init, Booleans
<1>12. Owned
  <2>1. \A t \in Tab : tab[t].host = None /\ tab[t].reports = <<>> BY Zenon, <1>7, <1>9
  <2>2. QED BY Zenon, <1>8, <2>1 DEF Init, Owned, None
<1>13. Hosting BY Zenon DEF Init, Hosting
<1>14. Making
  <2>1. \A t \in Tab : tab[t].host = None BY Zenon, <1>7, <1>9
  <2>2. QED BY Zenon, <2>1, ListedNone DEF Init, Making
<1>15. Listing /\ HomeAsPage BY Zenon DEF Init, Listing, HomeAsPage
<1>16. Showing BY Zenon DEF Init, Showing, InUse
<1>17. Firsts BY Zenon DEF Init, Firsts
<1>18. QED
  BY Zenon, <1>3, <1>5, <1>10, <1>11, <1>12, <1>13, <1>14, <1>15, <1>16, <1>17 DEF IInv, TabInv

(* The tabs' invariant holds from the first state on.                       *)
THEOREM TabInvariant == Spec => [](IInv /\ Firsts /\ TabInv)
  BY TabStart, TabStep, PTL DEF Spec

(* An address opened in an incognito tab does not come into the history     *)
(* (Logs), unless another tab took the foreground before the delayed load.  *)
THEOREM PrivateStaysUnlogged == Spec => []PrivateUnlogged
<1>1. IInv => PrivateUnlogged BY Zenon DEF IInv, Secret, PrivateUnlogged
<1>2. QED BY <1>1, TabInvariant, PTL

(* While a host is attached (TabManager.attach, detach) the foreground tab  *)
(* is one of its tabs, none of which is destroyed or listed twice; a host   *)
(* in use is the one attached and has a tab, unless hosts overlapped.       *)
THEOREM TabsAreServed == Spec => []TabsServed
<1>1. IInv /\ Firsts /\ TabInv => TabsServed
  <2> SUFFICES ASSUME IInv, Firsts, TabInv PROVE TabsServed
    BY Zenon
  <2>1. Types BY Zenon DEF IInv
  <2>2. TypeOK
    <3>1. ASSUME NEW t \in Tab
          PROVE  /\ tab[t].host \in 0..MaxHosts /\ tab[t].home \in BOOLEAN
                 /\ tab[t].seen \subseteq Page /\ tab[t].page \in Page
                 /\ tab[t].host = None => tab[t].reports = <<>>
      <4>1. /\ tab[t].host \in Nat /\ tab[t].home \in BOOLEAN
            /\ tab[t].seen \subseteq Page /\ tab[t].page \in Page
        BY Zenon, <2>1 DEF Types, TabRecord
      <4>2. tab[t].host <= hosts /\ (tab[t].host = None => tab[t].reports = <<>>)
        BY Zenon DEF TabInv, Owned
      <4>3. hosts \in 0..MaxHosts BY Zenon DEF TabInv, Ranges
      <4>4. tab[t].host \in 0..MaxHosts BY <4>1, <4>2, <4>3, TabsAssumption
      <4>5. QED BY Zenon, <4>1, <4>2, <4>4
    <3>2. mHost \in 0..MaxHosts
      BY TabsAssumption DEF TabInv, Hosting, Ranges, None
    <3>3. {content, viewPost, viewDirty} \subseteq (Tab \cup {None}) \X BOOLEAN
      BY Zenon DEF TabInv, Ranges, View
    <3>4. {active, finishing, tabDirty, moved, crossed, overtaken, overlap} \subseteq BOOLEAN
      BY Zenon DEF TabInv, Booleans
    <3>5. QED BY Zenon, <3>1, <3>2, <3>3, <3>4 DEF TabInv, Ranges, Firsts, TypeOK
  <2>3. ForegroundListed BY Zenon DEF TabInv, Listing, Making, ForegroundListed
  <2>4. HostServed
    <3>1. hosts \in alive => hosts # None BY DEF TabInv, Ranges, None
    <3>2. QED BY Zenon, <3>1 DEF TabInv, Hosting, HostServed, InUse
  <2>5. QED BY Zenon, <2>2, <2>3, <2>4 DEF TabsServed
<1>2. QED BY <1>1, TabInvariant, PTL

(* A started host shows the view its foreground tab stands at once posted   *)
(* views have come (changeToTab, changeViewTo, the LiveData of the host),   *)
(* and a tab stands at its home page if its page is the placeholder, and    *)
(* only there or at a page it cannot go back from (onBackPressed), with the *)
(* exceptions that overtaken, crossed and overlap record.                   *)
THEOREM ScreenIsRight == Spec => []ScreenRight
<1>1. TabInv => ScreenRight
  BY Zenon DEF TabInv, Showing, Foreground, ShowsForeground, ScreenRight
<1>2. QED BY <1>1, TabInvariant, PTL

-----------------------------------------------------------------------------
(* The button.                                                              *)
SvcState == {"Stopped", "Connected", "Stopping"}
Phase == {"new", "idle", "permission", "connecting", "disconnecting", "ad", "result"}

LinkTyped ==
  /\ svc \in SvcState /\ mSsState \in SvcState \cup {"Idle"}
  /\ mState \in {"STOPPED", "CONNECTING", "CONNECTED", "STOPPING"}
  /\ starts \in Nat /\ closes \in Nat /\ ioStarts \in Nat
  /\ news \in Seq(SvcState)

FlowTyped ==
  /\ activity \in Models \cup {NoModel}
  /\ phase \in [Models -> Phase]
  /\ wasConnected \in [Models -> BOOLEAN] /\ forConnect \in [Models -> BOOLEAN]
  /\ asked \in [Models -> BOOLEAN]
  /\ mConnectAdResult \in [Models -> Button!AdResults]
  /\ flows \in 0..MaxFlows /\ faults \in 0..MaxFaults

Flags ==
  /\ starting \in BOOLEAN /\ bound \in BOOLEAN /\ linked \in BOOLEAN
  /\ gone \in BOOLEAN /\ dead \in BOOLEAN /\ clock \in BOOLEAN
  /\ late \in BOOLEAN /\ orphaned \in BOOLEAN /\ upset \in BOOLEAN

(* A flow is under way.                                                     *)
Running(m) == phase[m] \in {"connecting", "disconnecting", "ad"}

(* A flow under way is that of the activity there is.                       *)
Sole ==
  /\ \A m \in Models : ~orphaned /\ Running(m) => activity = m
  /\ \A m \in Models : phase[m] = "connecting" => forConnect[m]

(* A flow sends one start request or one CLOSE, and one more CLOSE if it    *)
(* gives up connecting: those to come are not sent yet.                     *)
ToClose(m) == phase[m] = "permission" \/ (Running(m) /\ forConnect[m])

Counts ==
  /\ starts + ioStarts <= flows /\ closes <= flows
  /\ \A m \in Models : activity = m /\ phase[m] = "permission" => starts + ioStarts < flows
  /\ \A m \in Models : activity = m /\ ToClose(m) => closes < flows

(* What the app is told is true, until it is upset.                         *)
Link ==
  /\ starting => svc = "Stopped"
  /\ ~upset => ~gone /\ ~dead
  /\ ~upset /\ linked /\ news = <<>> => mSsState = svc
  /\ ~upset /\ linked /\ news # <<>> => news[Len(news)] = svc

(* The clock runs for a connection the app knows of.                        *)
Clocked ==
  ~upset /\ ~orphaned =>
    /\ clock => svc = "Connected" /\ mSsState = "Connected" /\ news = <<>>
    /\ (\A m \in Models : ~Running(m)) => (clock <=> mState = "CONNECTED")
    /\ \A m \in Models : Running(m) /\ ~forConnect[m] => ~clock

Shown ==
  ~orphaned /\ (\A m \in Models : ~Running(m)) => mState \in {"STOPPED", "CONNECTED"}

(* Whatever runs was asked for by the flow under way, or is shown, or a     *)
(* CLOSE is on its way to it.                                               *)
Traced ==
  /\ ~late /\ ~upset /\ ~orphaned
  /\ starting \/ svc = "Connected"
  => \/ closes > 0
     \/ \E m \in Models : Running(m) /\ forConnect[m]
     \/ (\A m \in Models : ~Running(m)) /\ mState = "CONNECTED"

ButtonTyped == LinkTyped /\ FlowTyped /\ Flags

ButtonInv == ButtonTyped /\ Sole /\ Counts /\ Link /\ Clocked /\ Shown /\ Traced

(* A start request arrives: one that a connecting flow waits for, or late   *)
(* records that none does.                                                  *)
LEMMA StartArrivesKeeps ==
  ASSUME ButtonInv, ~orphaned, Button!StartArrives
  PROVE  ButtonInv'
<1> USE DEF Button!StartArrives, Button!SvcOnly, Button!flowVars, Button!adVars, Running
<1>1. LinkTyped' BY DEF ButtonInv, ButtonTyped, LinkTyped, SvcState
<1>2. FlowTyped' BY Zenon DEF ButtonInv, ButtonTyped, FlowTyped, Phase, Button!AdResults
<1>3. Flags' BY Zenon DEF ButtonInv, ButtonTyped, Flags
<1>4. Sole' BY Zenon DEF ButtonInv, ButtonTyped, Sole, FlowTyped
<1>5. Counts' BY DEF ButtonInv, ButtonTyped, Counts, LinkTyped, FlowTyped, Sole, ToClose
<1>6. Link' BY Zenon DEF ButtonInv, ButtonTyped, Link, LinkTyped, SvcState
<1>7. Clocked' BY Zenon DEF ButtonInv, ButtonTyped, Clocked, FlowTyped, LinkTyped, Sole, Link
<1>8. Shown' BY Zenon DEF ButtonInv, ButtonTyped, Shown, FlowTyped, Sole
<1>9. Traced' BY Zenon DEF ButtonInv, ButtonTyped, Traced, LinkTyped, FlowTyped, Sole, Link, Clocked
<1>10. QED
  BY Zenon, <1>1, <1>2, <1>3, <1>4, <1>5, <1>6, <1>7, <1>8, <1>9 DEF ButtonInv, ButtonTyped

(* The service has connected.                                               *)
LEMMA SvcConnectedKeeps ==
  ASSUME ButtonInv, ~orphaned, Button!SvcConnected
  PROVE  ButtonInv'
<1> USE DEF Button!SvcConnected, Button!Tell, Button!SvcOnly, Button!flowVars,
            Button!adVars, Running
<1>1. LinkTyped' BY DEF ButtonInv, ButtonTyped, LinkTyped, SvcState
<1>2. FlowTyped' BY Zenon DEF ButtonInv, ButtonTyped, FlowTyped, Phase, Button!AdResults
<1>3. Flags' BY Zenon DEF ButtonInv, ButtonTyped, Flags
<1>4. Sole' BY Zenon DEF ButtonInv, ButtonTyped, Sole, FlowTyped
<1>5. Counts' BY Zenon DEF ButtonInv, ButtonTyped, Counts, LinkTyped, FlowTyped, Sole, ToClose
<1>6. Link' BY DEF ButtonInv, ButtonTyped, Link, LinkTyped, SvcState
<1>7. Clocked' BY Zenon DEF ButtonInv, ButtonTyped, Clocked, FlowTyped, LinkTyped, Sole, Link
<1>8. Shown' BY Zenon DEF ButtonInv, ButtonTyped, Shown, FlowTyped, Sole
<1>9. Traced' BY Zenon DEF ButtonInv, ButtonTyped, Traced, LinkTyped, FlowTyped, Sole, Link, Clocked
<1>10. QED
  BY Zenon, <1>1, <1>2, <1>3, <1>4, <1>5, <1>6, <1>7, <1>8, <1>9 DEF ButtonInv, ButtonTyped

(* A CLOSE arrives: nothing runs any more, so nothing is left to trace.     *)
LEMMA CloseArrivesKeeps ==
  ASSUME ButtonInv, ~orphaned, Button!CloseArrives
  PROVE  ButtonInv'
<1> USE DEF Button!CloseArrives, Button!Tell, Button!SvcOnly, Button!flowVars,
            Button!adVars, Running
<1>1. LinkTyped' BY DEF ButtonInv, ButtonTyped, LinkTyped, SvcState
<1>2. FlowTyped' BY Zenon DEF ButtonInv, ButtonTyped, FlowTyped, Phase, Button!AdResults
<1>3. Flags' BY Zenon DEF ButtonInv, ButtonTyped, Flags
<1>4. Sole' BY Zenon DEF ButtonInv, ButtonTyped, Sole, FlowTyped
<1>5. Counts' BY DEF ButtonInv, ButtonTyped, Counts, LinkTyped, FlowTyped, Sole, ToClose
<1>6. Link'
  <2>1. CASE starting \/ svc = "Connected"
    <3>1. /\ linked => news' = Append(news, "Stopping") /\ news' # <<>>
                         /\ news'[Len(news')] = "Stopping"
      BY <2>1 DEF ButtonInv, ButtonTyped, LinkTyped, SvcState
    <3>2. QED BY Zenon, <2>1, <3>1 DEF ButtonInv, Link
  <2>2. CASE ~(starting \/ svc = "Connected") BY Zenon, <2>2 DEF ButtonInv, Link
  <2>3. QED BY Zenon, <2>1, <2>2
<1>7. Clocked' BY Zenon DEF ButtonInv, ButtonTyped, Clocked, FlowTyped, LinkTyped, Sole, Link
<1>8. Shown' BY Zenon DEF ButtonInv, ButtonTyped, Shown, FlowTyped, Sole
<1>9. Traced' BY Zenon DEF ButtonInv, ButtonTyped, Traced, LinkTyped, FlowTyped, Sole, Link, Clocked
<1>10. QED
  BY Zenon, <1>1, <1>2, <1>3, <1>4, <1>5, <1>6, <1>7, <1>8, <1>9 DEF ButtonInv, ButtonTyped

(* The service stops by itself, which upsets the flows.                     *)
LEMMA SvcFailsKeeps ==
  ASSUME ButtonInv, ~orphaned, Button!SvcFails
  PROVE  ButtonInv'
<1> USE DEF Button!SvcFails, Button!Tell, Button!SvcOnly, Button!flowVars,
            Button!adVars, Running
<1>1. LinkTyped' BY DEF ButtonInv, ButtonTyped, LinkTyped, SvcState
<1>2. FlowTyped' BY ButtonAssumption DEF ButtonInv, ButtonTyped, FlowTyped, Phase, Button!AdResults
<1>3. Flags' BY Zenon DEF ButtonInv, ButtonTyped, Flags
<1>4. Sole' BY Zenon DEF ButtonInv, ButtonTyped, Sole, FlowTyped
<1>5. Counts' BY Zenon DEF ButtonInv, ButtonTyped, Counts, LinkTyped, FlowTyped, Sole, ToClose
<1>6. Link' BY Zenon DEF ButtonInv, ButtonTyped, Link, LinkTyped, SvcState
<1>7. Clocked' BY Zenon DEF ButtonInv, ButtonTyped, Clocked, FlowTyped, LinkTyped, Sole, Link
<1>8. Shown' BY Zenon DEF ButtonInv, ButtonTyped, Shown, FlowTyped, Sole
<1>9. Traced' BY Zenon DEF ButtonInv, ButtonTyped, Traced, LinkTyped, FlowTyped, Sole, Link, Clocked
<1>10. QED
  BY Zenon, <1>1, <1>2, <1>3, <1>4, <1>5, <1>6, <1>7, <1>8, <1>9 DEF ButtonInv, ButtonTyped

(* The service has stopped.                                                 *)
LEMMA SvcStoppedKeeps ==
  ASSUME ButtonInv, ~orphaned, Button!SvcStopped
  PROVE  ButtonInv'
<1> USE DEF Button!SvcStopped, Button!Tell, Button!SvcOnly, Button!flowVars,
            Button!adVars, Running
<1>1. LinkTyped' BY DEF ButtonInv, ButtonTyped, LinkTyped, SvcState
<1>2. FlowTyped' BY Zenon DEF ButtonInv, ButtonTyped, FlowTyped, Phase, Button!AdResults
<1>3. Flags' BY Zenon DEF ButtonInv, ButtonTyped, Flags
<1>4. Sole' BY Zenon DEF ButtonInv, ButtonTyped, Sole, FlowTyped
<1>5. Counts' BY Zenon DEF ButtonInv, ButtonTyped, Counts, LinkTyped, FlowTyped, Sole, ToClose
<1>6. Link' BY DEF ButtonInv, ButtonTyped, Link, LinkTyped, SvcState
<1>7. Clocked' BY Zenon DEF ButtonInv, ButtonTyped, Clocked, FlowTyped, LinkTyped, Sole, Link
<1>8. Shown' BY Zenon DEF ButtonInv, ButtonTyped, Shown, FlowTyped, Sole
<1>9. Traced' BY Zenon DEF ButtonInv, ButtonTyped, Traced, LinkTyped, FlowTyped, Sole, Link, Clocked
<1>10. QED
  BY Zenon, <1>1, <1>2, <1>3, <1>4, <1>5, <1>6, <1>7, <1>8, <1>9 DEF ButtonInv, ButtonTyped

(* The service's process dies, which upsets the flows.                      *)
LEMMA SvcDiesKeeps ==
  ASSUME ButtonInv, ~orphaned, Button!SvcDies
  PROVE  ButtonInv'
<1> USE DEF Button!SvcDies, Button!flowVars, Button!adVars, Running
<1>1. LinkTyped' BY Zenon DEF ButtonInv, ButtonTyped, LinkTyped, SvcState
<1>2. FlowTyped' BY ButtonAssumption DEF ButtonInv, ButtonTyped, FlowTyped, Phase, Button!AdResults
<1>3. Flags' BY Zenon DEF ButtonInv, ButtonTyped, Flags
<1>4. Sole' BY Zenon DEF ButtonInv, ButtonTyped, Sole, FlowTyped
<1>5. Counts' BY Zenon DEF ButtonInv, ButtonTyped, Counts, LinkTyped, FlowTyped, Sole, ToClose
<1>6. Link' BY Zenon DEF ButtonInv, ButtonTyped, Link, LinkTyped, SvcState
<1>7. Clocked' BY Zenon DEF ButtonInv, ButtonTyped, Clocked, FlowTyped, LinkTyped, Sole, Link
<1>8. Shown' BY Zenon DEF ButtonInv, ButtonTyped, Shown, FlowTyped, Sole
<1>9. Traced' BY Zenon DEF ButtonInv, ButtonTyped, Traced, LinkTyped, FlowTyped, Sole, Link, Clocked
<1>10. QED
  BY Zenon, <1>1, <1>2, <1>3, <1>4, <1>5, <1>6, <1>7, <1>8, <1>9 DEF ButtonInv, ButtonTyped

(* The app takes the first of the news; the last one is still true.         *)
LEMMA stateChangedKeeps ==
  ASSUME ButtonInv, ~orphaned, Button!stateChanged
  PROVE  ButtonInv'
<1> USE DEF Button!stateChanged, Button!svcVars, Button!flowVars, Button!adVars, Running
<1>1. LinkTyped' BY DEF ButtonInv, ButtonTyped, LinkTyped, SvcState
<1>2. FlowTyped' BY Zenon DEF ButtonInv, ButtonTyped, FlowTyped, Phase, Button!AdResults
<1>3. Flags' BY Zenon DEF ButtonInv, ButtonTyped, Flags
<1>4. Sole' BY Zenon DEF ButtonInv, ButtonTyped, Sole, FlowTyped
<1>5. Counts' BY Zenon DEF ButtonInv, ButtonTyped, Counts, LinkTyped, FlowTyped, Sole, ToClose
<1>6. Link'
  <2>1. news \in Seq(SvcState) BY Zenon DEF ButtonInv, ButtonTyped, LinkTyped
  <2>2. /\ Len(news) \in Nat /\ Len(news) > 0 /\ Head(news) = news[1]
        /\ Tail(news) \in Seq(SvcState) /\ Len(Tail(news)) = Len(news) - 1
    BY <2>1
  <2>3. ASSUME Tail(news) = <<>> PROVE Len(news) = 1
    <3>1. Len(Tail(news)) = Len(<<>>) BY Zenon, <2>3
    <3>2. Len(<<>>) = 0 BY Zenon
    <3>3. QED BY <2>2, <3>1, <3>2
  <2>4. ASSUME Tail(news) # <<>>
        PROVE  Tail(news)[Len(Tail(news))] = news[Len(news)]
    BY <2>1, <2>2, <2>4
  <2>5. QED BY Zenon, <2>2, <2>3, <2>4 DEF ButtonInv, Link
<1>7. Clocked' BY Zenon DEF ButtonInv, ButtonTyped, Clocked, FlowTyped, LinkTyped, Sole, Link
<1>8. Shown' BY Zenon DEF ButtonInv, ButtonTyped, Shown, FlowTyped, Sole
<1>9. Traced' BY Zenon DEF ButtonInv, ButtonTyped, Traced, LinkTyped, FlowTyped, Sole, Link, Clocked
<1>10. QED
  BY Zenon, <1>1, <1>2, <1>3, <1>4, <1>5, <1>6, <1>7, <1>8, <1>9 DEF ButtonInv, ButtonTyped

(* The app is bound to a service and shows its state.                       *)
LEMMA onServiceConnectedKeeps ==
  ASSUME ButtonInv, ~orphaned, Button!onServiceConnected
  PROVE  ButtonInv'
<1> USE DEF Button!onServiceConnected, Button!Waiting, Button!changeState,
            Button!ShowStopped, Button!svcVars, Button!flowVars, Button!adVars, Running
<1>1. LinkTyped' BY Zenon DEF ButtonInv, ButtonTyped, LinkTyped, SvcState
<1>2. FlowTyped' BY Zenon DEF ButtonInv, ButtonTyped, FlowTyped, Phase, Button!AdResults
<1>3. Flags' BY Zenon DEF ButtonInv, ButtonTyped, Flags
<1>4. Sole' BY Zenon DEF ButtonInv, ButtonTyped, Sole, FlowTyped
<1>5. Counts' BY Zenon DEF ButtonInv, ButtonTyped, Counts, LinkTyped, FlowTyped, Sole, ToClose
<1>6. Link' BY Zenon DEF ButtonInv, ButtonTyped, Link, LinkTyped, SvcState
<1>7. Clocked' BY Zenon DEF ButtonInv, ButtonTyped, Clocked, FlowTyped, LinkTyped, Sole, Link
<1>8. Shown' BY Zenon DEF ButtonInv, ButtonTyped, Shown, FlowTyped, Sole
<1>9. Traced' BY Zenon DEF ButtonInv, ButtonTyped, Traced, LinkTyped, FlowTyped, Sole, Link, Clocked
<1>10. QED
  BY Zenon, <1>1, <1>2, <1>3, <1>4, <1>5, <1>6, <1>7, <1>8, <1>9 DEF ButtonInv, ButtonTyped

(* The app hears that the service is gone, which upset the flows before.    *)
LEMMA onServiceDisconnectedKeeps ==
  ASSUME ButtonInv, ~orphaned, Button!onServiceDisconnected
  PROVE  ButtonInv'
<1> USE DEF Button!onServiceDisconnected, Button!changeState, Button!svcVars,
            Button!flowVars, Button!adVars, Running
<1>1. LinkTyped' BY Zenon DEF ButtonInv, ButtonTyped, LinkTyped, SvcState
<1>2. FlowTyped' BY Zenon DEF ButtonInv, ButtonTyped, FlowTyped, Phase, Button!AdResults
<1>3. Flags' BY Zenon DEF ButtonInv, ButtonTyped, Flags
<1>4. Sole' BY Zenon DEF ButtonInv, ButtonTyped, Sole, FlowTyped
<1>5. Counts' BY Zenon DEF ButtonInv, ButtonTyped, Counts, LinkTyped, FlowTyped, Sole, ToClose
<1>6. Link' BY Zenon DEF ButtonInv, ButtonTyped, Link, LinkTyped, SvcState
<1>7. Clocked' BY Zenon DEF ButtonInv, ButtonTyped, Clocked, FlowTyped, LinkTyped, Sole, Link
<1>8. Shown' BY Zenon DEF ButtonInv, ButtonTyped, Shown, FlowTyped, Sole
<1>9. Traced' BY Zenon DEF ButtonInv, ButtonTyped, Traced, LinkTyped, FlowTyped, Sole, Link, Clocked
<1>10. QED
  BY Zenon, <1>1, <1>2, <1>3, <1>4, <1>5, <1>6, <1>7, <1>8, <1>9 DEF ButtonInv, ButtonTyped

(* The app hears that the service died, which upset the flows before.       *)
LEMMA onBinderDiedKeeps ==
  ASSUME ButtonInv, ~orphaned, Button!onBinderDied
  PROVE  ButtonInv'
<1> USE DEF Button!onBinderDied, Button!Unbind, Button!svcVars, Button!flowVars,
            Button!adVars, Running
<1>1. LinkTyped'
  <2>1. <<>> \in Seq(SvcState) OBVIOUS
  <2>2. QED BY Zenon, <2>1 DEF ButtonInv, ButtonTyped, LinkTyped
<1>2. FlowTyped' BY Zenon DEF ButtonInv, ButtonTyped, FlowTyped, Phase, Button!AdResults
<1>3. Flags' BY Zenon DEF ButtonInv, ButtonTyped, Flags
<1>4. Sole' BY Zenon DEF ButtonInv, ButtonTyped, Sole, FlowTyped
<1>5. Counts' BY Zenon DEF ButtonInv, ButtonTyped, Counts, LinkTyped, FlowTyped, Sole, ToClose
<1>6. Link' BY Zenon DEF ButtonInv, ButtonTyped, Link, LinkTyped, SvcState
<1>7. Clocked' BY Zenon DEF ButtonInv, ButtonTyped, Clocked, FlowTyped, LinkTyped, Sole, Link
<1>8. Shown' BY Zenon DEF ButtonInv, ButtonTyped, Shown, FlowTyped, Sole
<1>9. Traced' BY Zenon DEF ButtonInv, ButtonTyped, Traced, LinkTyped, FlowTyped, Sole, Link, Clocked
<1>10. QED
  BY Zenon, <1>1, <1>2, <1>3, <1>4, <1>5, <1>6, <1>7, <1>8, <1>9 DEF ButtonInv, ButtonTyped

(* The coroutine of doConnect sends the start request.                      *)
LEMMA onConnectKeeps ==
  ASSUME ButtonInv, ~orphaned, Button!onConnect
  PROVE  ButtonInv'
<1> USE DEF Button!onConnect, Button!linkVars, Button!flowVars, Button!adVars, Running
<1>1. LinkTyped' BY DEF ButtonInv, ButtonTyped, LinkTyped, SvcState
<1>2. FlowTyped' BY Zenon DEF ButtonInv, ButtonTyped, FlowTyped, Phase, Button!AdResults
<1>3. Flags' BY Zenon DEF ButtonInv, ButtonTyped, Flags
<1>4. Sole' BY Zenon DEF ButtonInv, ButtonTyped, Sole, FlowTyped
<1>5. Counts' BY DEF ButtonInv, ButtonTyped, Counts, LinkTyped, FlowTyped, Sole, ToClose
<1>6. Link' BY Zenon DEF ButtonInv, ButtonTyped, Link, LinkTyped, SvcState
<1>7. Clocked' BY Zenon DEF ButtonInv, ButtonTyped, Clocked, FlowTyped, LinkTyped, Sole, Link
<1>8. Shown' BY Zenon DEF ButtonInv, ButtonTyped, Shown, FlowTyped, Sole
<1>9. Traced' BY Zenon DEF ButtonInv, ButtonTyped, Traced, LinkTyped, FlowTyped, Sole, Link, Clocked
<1>10. QED
  BY Zenon, <1>1, <1>2, <1>3, <1>4, <1>5, <1>6, <1>7, <1>8, <1>9 DEF ButtonInv, ButtonTyped

(* The activity is destroyed: in the middle of a flow, orphaned says so.    *)
LEMMA onDestroyKeeps ==
  ASSUME ButtonInv, ~orphaned, Button!onDestroy
  PROVE  ButtonInv'
<1> USE DEF Button!onDestroy, Button!Waiting, Button!Unbind, Button!svcVars,
            Button!adVars, Running
<1>1. LinkTyped'
  <2>1. <<>> \in Seq(SvcState) OBVIOUS
  <2>2. QED BY Zenon, <2>1 DEF ButtonInv, ButtonTyped, LinkTyped
<1>2. FlowTyped' BY Zenon DEF ButtonInv, ButtonTyped, FlowTyped, Phase, Button!AdResults
<1>3. Flags' BY Zenon DEF ButtonInv, ButtonTyped, Flags
<1>4. Sole' BY Zenon, ButtonAssumption DEF ButtonInv, ButtonTyped, Sole, FlowTyped
<1>5. Counts' BY Zenon, ButtonAssumption DEF ButtonInv, ButtonTyped, Counts, LinkTyped, FlowTyped, Sole, ToClose
<1>6. Link' BY Zenon DEF ButtonInv, ButtonTyped, Link, LinkTyped, SvcState
<1>7. Clocked' BY Zenon DEF ButtonInv, ButtonTyped, Clocked, FlowTyped, LinkTyped, Sole, Link
<1>8. Shown' BY Zenon DEF ButtonInv, ButtonTyped, Shown, FlowTyped, Sole
<1>9. Traced' BY Zenon DEF ButtonInv, ButtonTyped, Traced, LinkTyped, FlowTyped, Sole, Link, Clocked
<1>10. QED
  BY Zenon, <1>1, <1>2, <1>3, <1>4, <1>5, <1>6, <1>7, <1>8, <1>9 DEF ButtonInv, ButtonTyped

(* An activity is created.                                                  *)
LEMMA onCreateKeeps ==
  ASSUME ButtonInv, ~orphaned, NEW m \in Models, Button!onCreate(m)
  PROVE  ButtonInv'
<1> USE DEF Button!onCreate, Button!svcVars, Button!adVars, Running
<1>1. LinkTyped' BY Zenon DEF ButtonInv, ButtonTyped, LinkTyped, SvcState
<1>2. FlowTyped' BY Zenon DEF ButtonInv, ButtonTyped, FlowTyped, Phase, Button!AdResults
<1>3. Flags' BY Zenon DEF ButtonInv, ButtonTyped, Flags
<1>4. Sole' BY Zenon, ButtonAssumption DEF ButtonInv, ButtonTyped, Sole, FlowTyped
<1>5. Counts' BY Zenon DEF ButtonInv, ButtonTyped, Counts, LinkTyped, FlowTyped, Sole, ToClose
<1>6. Link' BY Zenon DEF ButtonInv, ButtonTyped, Link, LinkTyped, SvcState
<1>7. Clocked' BY Zenon DEF ButtonInv, ButtonTyped, Clocked, FlowTyped, LinkTyped, Sole, Link
<1>8. Shown' BY Zenon DEF ButtonInv, ButtonTyped, Shown, FlowTyped, Sole
<1>9. Traced' BY Zenon DEF ButtonInv, ButtonTyped, Traced, LinkTyped, FlowTyped, Sole, Link, Clocked
<1>10. QED
  BY Zenon, <1>1, <1>2, <1>3, <1>4, <1>5, <1>6, <1>7, <1>8, <1>9 DEF ButtonInv, ButtonTyped

(* The button is tapped.                                                    *)
LEMMA toggleKeeps ==
  ASSUME ButtonInv, ~orphaned, NEW m \in Models, Button!toggle(m)
  PROVE  ButtonInv'
<1> USE DEF Button!toggle, Button!Goto, Button!isConnected, Button!svcVars,
            Button!linkVars, Button!adVars, Running
<1>1. LinkTyped' BY Zenon DEF ButtonInv, ButtonTyped, LinkTyped, SvcState
<1>2. FlowTyped' BY ButtonAssumption DEF ButtonInv, ButtonTyped, FlowTyped, Phase, Button!AdResults
<1>3. Flags' BY Zenon DEF ButtonInv, ButtonTyped, Flags
<1>4. Sole' BY Zenon DEF ButtonInv, ButtonTyped, Sole, FlowTyped
<1>5. Counts' BY DEF ButtonInv, ButtonTyped, Counts, LinkTyped, FlowTyped, Sole, ToClose
<1>6. Link' BY Zenon DEF ButtonInv, ButtonTyped, Link, LinkTyped, SvcState
<1>7. Clocked' BY Zenon DEF ButtonInv, ButtonTyped, Clocked, FlowTyped, LinkTyped, Sole, Link
<1>8. Shown' BY Zenon DEF ButtonInv, ButtonTyped, Shown, FlowTyped, Sole
<1>9. Traced' BY Zenon DEF ButtonInv, ButtonTyped, Traced, LinkTyped, FlowTyped, Sole, Link, Clocked
<1>10. QED
  BY Zenon, <1>1, <1>2, <1>3, <1>4, <1>5, <1>6, <1>7, <1>8, <1>9 DEF ButtonInv, ButtonTyped

(* The permission is denied.                                                *)
LEMMA permissionDeniedKeeps ==
  ASSUME ButtonInv, ~orphaned, NEW m \in Models, Button!permissionDenied(m)
  PROVE  ButtonInv'
<1> USE DEF Button!permissionDenied, Button!Goto, Button!svcVars, Button!linkVars,
            Button!adVars, Running
<1>1. LinkTyped' BY Zenon DEF ButtonInv, ButtonTyped, LinkTyped, SvcState
<1>2. FlowTyped' BY Zenon DEF ButtonInv, ButtonTyped, FlowTyped, Phase, Button!AdResults
<1>3. Flags' BY Zenon DEF ButtonInv, ButtonTyped, Flags
<1>4. Sole' BY Zenon DEF ButtonInv, ButtonTyped, Sole, FlowTyped
<1>5. Counts' BY Zenon DEF ButtonInv, ButtonTyped, Counts, LinkTyped, FlowTyped, Sole, ToClose
<1>6. Link' BY Zenon DEF ButtonInv, ButtonTyped, Link, LinkTyped, SvcState
<1>7. Clocked' BY Zenon DEF ButtonInv, ButtonTyped, Clocked, FlowTyped, LinkTyped, Sole, Link
<1>8. Shown' BY Zenon DEF ButtonInv, ButtonTyped, Shown, FlowTyped, Sole
<1>9. Traced' BY Zenon DEF ButtonInv, ButtonTyped, Traced, LinkTyped, FlowTyped, Sole, Link, Clocked
<1>10. QED
  BY Zenon, <1>1, <1>2, <1>3, <1>4, <1>5, <1>6, <1>7, <1>8, <1>9 DEF ButtonInv, ButtonTyped

(* A connecting flow begins, the only flow under way.                       *)
LEMMA connectKeeps ==
  ASSUME ButtonInv, ~orphaned, NEW m \in Models, Button!connect(m)
  PROVE  ButtonInv'
<1> USE DEF Button!connect, Button!changeState, Button!waitResult, Button!svcVars,
            Button!linkVars, Button!Goto, Running
<1>1. LinkTyped' BY DEF ButtonInv, ButtonTyped, LinkTyped, SvcState
<1>2. FlowTyped' BY Zenon DEF ButtonInv, ButtonTyped, FlowTyped, Phase, Button!AdResults
<1>3. Flags' BY Zenon DEF ButtonInv, ButtonTyped, Flags
<1>4. Sole' BY Zenon DEF ButtonInv, ButtonTyped, Sole, FlowTyped
<1>5. Counts' BY DEF ButtonInv, ButtonTyped, Counts, LinkTyped, FlowTyped, Sole, ToClose
<1>6. Link' BY Zenon DEF ButtonInv, ButtonTyped, Link, LinkTyped, SvcState
<1>7. Clocked' BY Zenon DEF ButtonInv, ButtonTyped, Clocked, FlowTyped, LinkTyped, Sole, Link
<1>8. Shown' BY Zenon DEF ButtonInv, ButtonTyped, Shown, FlowTyped, Sole
<1>9. Traced' BY Zenon DEF ButtonInv, ButtonTyped, Traced, LinkTyped, FlowTyped, Sole, Link, Clocked
<1>10. QED
  BY Zenon, <1>1, <1>2, <1>3, <1>4, <1>5, <1>6, <1>7, <1>8, <1>9 DEF ButtonInv, ButtonTyped

(* A disconnecting flow begins: its CLOSE is on its way, the clock stands.  *)
LEMMA disconnectKeeps ==
  ASSUME ButtonInv, ~orphaned, NEW m \in Models, Button!disconnect(m)
  PROVE  ButtonInv'
<1> USE DEF Button!disconnect, Button!changeState, Button!waitResult, Button!linkVars,
            Button!Goto, Running
<1>1. LinkTyped' BY DEF ButtonInv, ButtonTyped, LinkTyped, SvcState
<1>2. FlowTyped' BY Zenon DEF ButtonInv, ButtonTyped, FlowTyped, Phase, Button!AdResults
<1>3. Flags' BY Zenon DEF ButtonInv, ButtonTyped, Flags
<1>4. Sole' BY Zenon DEF ButtonInv, ButtonTyped, Sole, FlowTyped
<1>5. Counts' BY DEF ButtonInv, ButtonTyped, Counts, LinkTyped, FlowTyped, Sole, ToClose
<1>6. Link' BY Zenon DEF ButtonInv, ButtonTyped, Link, LinkTyped, SvcState
<1>7. Clocked' BY Zenon DEF ButtonInv, ButtonTyped, Clocked, FlowTyped, LinkTyped, Sole, Link
<1>8. Shown' BY Zenon DEF ButtonInv, ButtonTyped, Shown, FlowTyped, Sole
<1>9. Traced' BY DEF ButtonInv, ButtonTyped, Traced, LinkTyped, FlowTyped, Sole, Link, Clocked
<1>10. QED
  BY Zenon, <1>1, <1>2, <1>3, <1>4, <1>5, <1>6, <1>7, <1>8, <1>9 DEF ButtonInv, ButtonTyped

(* The ad has come, or not.                                                 *)
LEMMA adResultKeeps ==
  ASSUME ButtonInv, ~orphaned, NEW m \in Models, NEW r \in Button!AdResults, Button!adResult(m, r)
  PROVE  ButtonInv'
<1> USE DEF Button!adResult, Button!svcVars, Button!linkVars, Button!flowVars, Running
<1>1. LinkTyped' BY Zenon DEF ButtonInv, ButtonTyped, LinkTyped, SvcState
<1>2. FlowTyped' BY Zenon DEF ButtonInv, ButtonTyped, FlowTyped, Phase, Button!AdResults
<1>3. Flags' BY Zenon DEF ButtonInv, ButtonTyped, Flags
<1>4. Sole' BY Zenon DEF ButtonInv, ButtonTyped, Sole, FlowTyped
<1>5. Counts' BY Zenon DEF ButtonInv, ButtonTyped, Counts, LinkTyped, FlowTyped, Sole, ToClose
<1>6. Link' BY Zenon DEF ButtonInv, ButtonTyped, Link, LinkTyped, SvcState
<1>7. Clocked' BY Zenon DEF ButtonInv, ButtonTyped, Clocked, FlowTyped, LinkTyped, Sole, Link
<1>8. Shown' BY Zenon DEF ButtonInv, ButtonTyped, Shown, FlowTyped, Sole
<1>9. Traced' BY Zenon DEF ButtonInv, ButtonTyped, Traced, LinkTyped, FlowTyped, Sole, Link, Clocked
<1>10. QED
  BY Zenon, <1>1, <1>2, <1>3, <1>4, <1>5, <1>6, <1>7, <1>8, <1>9 DEF ButtonInv, ButtonTyped

(* A flow ends.  Unless it ends out of touch, the state the app knows is the*)
(* service's; a flow that gives up connecting leaves a CLOSE on its way.    *)
LEMMA ReceiverKeeps ==
  ASSUME ButtonInv, ~orphaned, NEW m \in Models, activity = m, Running(m),
         Button!receiver(m),
         mConnectAdResult' \in [Models -> Button!AdResults],
         asked' \in [Models -> BOOLEAN],
         UNCHANGED <<svc, starting, starts, ioStarts, Button!linkVars, activity,
                     wasConnected, forConnect, flows, faults, late, orphaned>>
  PROVE  ButtonInv'
<1>1. /\ UNCHANGED <<bound, linked, gone, dead, news, mSsState>>
      /\ upset' = (upset \/ ~(linked /\ news = <<>>))
      /\ \/ /\ forConnect[m] /\ mSsState # "Connected" /\ mState' = "STOPPED"
            /\ clock' = clock /\ closes' = closes + 1
            /\ phase' = [phase EXCEPT ![m] = "idle"]
         \/ /\ forConnect[m] /\ mSsState = "Connected" /\ mState' = "CONNECTED"
            /\ clock' = TRUE /\ closes' = closes
            /\ phase' = [phase EXCEPT ![m] = "result"]
         \/ /\ ~forConnect[m] /\ mState' = "STOPPED" /\ clock' = clock /\ closes' = closes
            /\ phase' = [phase EXCEPT ![m] = "result"]
  BY Zenon DEF Button!receiver, Button!forceDisconnect, Button!changeState, Button!Goto,
               Button!InTouch, Button!isConnected, Button!linkVars
<1>2. \A n \in Models : ~Running(n)' /\ phase'[n] \in {phase[n], "idle", "result"}
  BY Zenon, <1>1 DEF ButtonInv, ButtonTyped, FlowTyped, Sole, Running
<1>3. LinkTyped' BY <1>1 DEF ButtonInv, ButtonTyped, LinkTyped
<1>4. FlowTyped'
  <2>1. phase' \in [Models -> Phase] BY Zenon, <1>1 DEF ButtonInv, ButtonTyped, FlowTyped, Phase
  <2>2. QED BY Zenon, <2>1 DEF ButtonInv, ButtonTyped, FlowTyped
<1>5. Flags' BY Zenon, <1>1 DEF ButtonInv, ButtonTyped, Flags
<1>6. Sole' BY Zenon, <1>2 DEF ButtonInv, Sole
<1>7. Counts'
  <2>1. forConnect[m] => closes < flows
    BY Zenon DEF ButtonInv, Counts, ToClose
  <2>2. closes' <= flows /\ starts' + ioStarts' <= flows'
    BY <1>1, <2>1 DEF ButtonInv, ButtonTyped, LinkTyped, FlowTyped, Counts
  <2>3. phase'[m] # "permission" BY Zenon, <1>1 DEF ButtonInv, ButtonTyped, FlowTyped
  <2>4. QED BY Zenon, <1>2, <2>2, <2>3 DEF Counts, ToClose
<1>8. Link' BY Zenon, <1>1 DEF ButtonInv, Link
<1>9. Clocked'
  <2>1. ~upset' => ~upset /\ linked /\ news = <<>> /\ mSsState = svc
    BY Zenon, <1>1 DEF ButtonInv, Link
  <2>2. QED BY Zenon, <1>1, <1>2, <2>1 DEF ButtonInv, Clocked
<1>10. Shown' BY Zenon, <1>1 DEF Shown
<1>11. Traced'
  <2>1. CASE mState' = "CONNECTED" BY Zenon, <1>2, <2>1 DEF Traced
  <2>2. CASE closes' = closes + 1 BY <2>2 DEF ButtonInv, ButtonTyped, LinkTyped, Traced
  <2>3. CASE ~forConnect[m] /\ closes' = closes
    <3>1. ~\E n \in Models : Running(n) /\ forConnect[n]
      BY Zenon, <2>3 DEF ButtonInv, Sole
    <3>2. QED BY Zenon, <1>1, <2>3, <3>1 DEF ButtonInv, Traced
  <2>4. QED BY Zenon, <1>1, <2>1, <2>2, <2>3
<1>12. QED
  BY Zenon, <1>3, <1>4, <1>5, <1>6, <1>7, <1>8, <1>9, <1>10, <1>11 DEF ButtonInv, ButtonTyped

(* A flow goes on to its ad.                                                *)
LEMMA AdComesKeeps ==
  ASSUME ButtonInv, ~orphaned, NEW m \in Models, Running(m), Button!Goto(m, "ad"),
         UNCHANGED <<Button!svcVars, ioStarts, Button!linkVars, mState, clock, activity,
                     wasConnected, forConnect, flows, Button!adVars, faults, late, orphaned,
                     upset>>
  PROVE  ButtonInv'
<1> USE DEF Button!Goto, Button!svcVars, Button!linkVars, Button!adVars, Running
<1>1. LinkTyped' BY Zenon DEF ButtonInv, ButtonTyped, LinkTyped, SvcState
<1>2. FlowTyped' BY Zenon DEF ButtonInv, ButtonTyped, FlowTyped, Phase, Button!AdResults
<1>3. Flags' BY Zenon DEF ButtonInv, ButtonTyped, Flags
<1>4. Sole' BY Zenon DEF ButtonInv, ButtonTyped, Sole, FlowTyped
<1>5. Counts' BY Zenon DEF ButtonInv, ButtonTyped, Counts, LinkTyped, FlowTyped, Sole, ToClose
<1>6. Link' BY Zenon DEF ButtonInv, ButtonTyped, Link, LinkTyped, SvcState
<1>7. Clocked' BY Zenon DEF ButtonInv, ButtonTyped, Clocked, FlowTyped, LinkTyped, Sole, Link
<1>8. Shown' BY Zenon DEF ButtonInv, ButtonTyped, Shown, FlowTyped, Sole
<1>9. Traced' BY Zenon DEF ButtonInv, ButtonTyped, Traced, LinkTyped, FlowTyped, Sole, Link, Clocked
<1>10. QED
  BY Zenon, <1>1, <1>2, <1>3, <1>4, <1>5, <1>6, <1>7, <1>8, <1>9 DEF ButtonInv, ButtonTyped

(* The loop ends because the state is reached.                              *)
LEMMA pollKeeps ==
  ASSUME ButtonInv, ~orphaned, NEW m \in Models, Button!poll(m)
  PROVE  ButtonInv'
<1>1. Running(m) /\ activity = m
  BY Zenon DEF Button!poll, Button!Waiting, Running, ButtonInv, Sole
<1>2. /\ UNCHANGED <<svc, starting, starts, ioStarts, Button!linkVars, activity,
                      wasConnected, forConnect, flows, faults, late, orphaned>>
      /\ UNCHANGED Button!adVars
  BY Zenon DEF Button!poll
<1>3. /\ mConnectAdResult' \in [Models -> Button!AdResults]
      /\ asked' \in [Models -> BOOLEAN]
  BY Zenon, <1>2 DEF Button!adVars, ButtonInv, ButtonTyped, FlowTyped, LinkTyped
<1>4. CASE Button!receiver(m) BY Zenon, <1>1, <1>2, <1>3, <1>4, ReceiverKeeps
<1>5. CASE Button!Goto(m, "ad") /\ UNCHANGED <<mState, clock, closes, upset>>
  <2>1. UNCHANGED <<Button!svcVars, ioStarts, Button!linkVars, mState, clock, activity,
                    wasConnected, forConnect, flows, Button!adVars, faults, late, orphaned,
                    upset>>
    BY Zenon, <1>2, <1>5 DEF Button!svcVars
  <2>2. QED BY Zenon, <1>1, <1>5, <2>1, AdComesKeeps
<1>6. QED BY Zenon, <1>4, <1>5 DEF Button!poll

(* The loop ends after 10 s.                                                *)
LEMMA timeOutKeeps ==
  ASSUME ButtonInv, ~orphaned, NEW m \in Models, Button!timeOut(m)
  PROVE  ButtonInv'
<1>1. Running(m) /\ activity = m
  BY Zenon DEF Button!timeOut, Button!Waiting, Running, ButtonInv, Sole
<1>2. /\ UNCHANGED <<svc, starting, starts, ioStarts, Button!linkVars, activity,
                      wasConnected, forConnect, flows, faults, late, orphaned>>
      /\ UNCHANGED Button!adVars
  BY Zenon DEF Button!timeOut
<1>3. /\ mConnectAdResult' \in [Models -> Button!AdResults]
      /\ asked' \in [Models -> BOOLEAN]
  BY Zenon, <1>2 DEF Button!adVars, ButtonInv, ButtonTyped, FlowTyped, LinkTyped
<1>4. CASE Button!receiver(m) BY Zenon, <1>1, <1>2, <1>3, <1>4, ReceiverKeeps
<1>5. CASE Button!Goto(m, "ad") /\ UNCHANGED <<mState, clock, closes, upset>>
  <2>1. UNCHANGED <<Button!svcVars, ioStarts, Button!linkVars, mState, clock, activity,
                    wasConnected, forConnect, flows, Button!adVars, faults, late, orphaned,
                    upset>>
    BY Zenon, <1>2, <1>5 DEF Button!svcVars
  <2>2. QED BY Zenon, <1>1, <1>5, <2>1, AdComesKeeps
<1>6. QED BY Zenon, <1>4, <1>5 DEF Button!timeOut

(* The ad is over, and so is the flow.                                      *)
LEMMA continueResultKeeps ==
  ASSUME ButtonInv, ~orphaned, NEW m \in Models, Button!continueResult(m)
  PROVE  ButtonInv'
<1>1. Running(m) /\ activity = m BY Zenon DEF Button!continueResult, Running
<1>2. UNCHANGED <<svc, starting, starts, ioStarts, Button!linkVars, activity,
                  wasConnected, forConnect, flows, faults, late, orphaned>>
  BY Zenon DEF Button!continueResult
<1>3. /\ mConnectAdResult' \in [Models -> Button!AdResults]
      /\ asked' \in [Models -> BOOLEAN]
  BY Zenon DEF Button!continueResult, Button!AdResults, ButtonInv, ButtonTyped, FlowTyped
<1>4. Button!receiver(m) BY Zenon DEF Button!continueResult
<1>5. QED BY Zenon, <1>1, <1>2, <1>3, <1>4, ReceiverKeeps

(* The result is shown.                                                     *)
LEMMA startResultKeeps ==
  ASSUME ButtonInv, ~orphaned, NEW m \in Models, Button!startResult(m)
  PROVE  ButtonInv'
<1> USE DEF Button!startResult, Button!Goto, Button!svcVars, Button!linkVars,
            Button!adVars, Running
<1>1. LinkTyped' BY Zenon DEF ButtonInv, ButtonTyped, LinkTyped, SvcState
<1>2. FlowTyped' BY Zenon DEF ButtonInv, ButtonTyped, FlowTyped, Phase, Button!AdResults
<1>3. Flags' BY Zenon DEF ButtonInv, ButtonTyped, Flags
<1>4. Sole' BY Zenon DEF ButtonInv, ButtonTyped, Sole, FlowTyped
<1>5. Counts' BY Zenon DEF ButtonInv, ButtonTyped, Counts, LinkTyped, FlowTyped, Sole, ToClose
<1>6. Link' BY Zenon DEF ButtonInv, ButtonTyped, Link, LinkTyped, SvcState
<1>7. Clocked' BY Zenon DEF ButtonInv, ButtonTyped, Clocked, FlowTyped, LinkTyped, Sole, Link
<1>8. Shown' BY Zenon DEF ButtonInv, ButtonTyped, Shown, FlowTyped, Sole
<1>9. Traced' BY Zenon DEF ButtonInv, ButtonTyped, Traced, LinkTyped, FlowTyped, Sole, Link, Clocked
<1>10. QED
  BY Zenon, <1>1, <1>2, <1>3, <1>4, <1>5, <1>6, <1>7, <1>8, <1>9 DEF ButtonInv, ButtonTyped

-----------------------------------------------------------------------------
(* The browser's steps leave the button alone.                              *)
LEMMA ButtonSame ==
  ASSUME ButtonInv, UNCHANGED buttonVars
  PROVE  ButtonInv'
<1> USE DEF buttonVars
<1>1. ButtonTyped'
  <2>1. LinkTyped' BY Zenon DEF ButtonInv, ButtonTyped, LinkTyped
  <2>2. FlowTyped' BY Zenon DEF ButtonInv, ButtonTyped, FlowTyped
  <2>3. Flags' BY Zenon DEF ButtonInv, ButtonTyped, Flags
  <2>4. QED BY Zenon, <2>1, <2>2, <2>3 DEF ButtonTyped
<1>2. Sole' /\ Counts' BY Zenon DEF ButtonInv, Sole, Counts, ToClose, Running
<1>3. Link' /\ Shown' BY Zenon DEF ButtonInv, Link, Shown, Running
<1>4. Clocked' /\ Traced' BY Zenon DEF ButtonInv, Clocked, Traced, Running
<1>5. QED BY Zenon, <1>1, <1>2, <1>3, <1>4 DEF ButtonInv

(* Every step keeps the invariant of the button.                            *)
LEMMA ButtonStep == ButtonInv /\ [MCNext]_all => ButtonInv'
<1> SUFFICES ASSUME ButtonInv, [MCNext]_all PROVE ButtonInv'
  BY Zenon
<1>1. CASE UNCHANGED buttonVars BY Zenon, <1>1, ButtonSame
<1>2. CASE ~orphaned /\ Button!Next
  <2>1. CASE Button!Service
    BY Zenon, <1>2, <2>1, StartArrivesKeeps, SvcConnectedKeeps, CloseArrivesKeeps,
       SvcFailsKeeps, SvcStoppedKeeps, SvcDiesKeeps DEF Button!Service
  <2>2. CASE Button!Manager
    BY Zenon, <1>2, <2>2, stateChangedKeeps, onServiceConnectedKeeps,
       onServiceDisconnectedKeeps, onBinderDiedKeeps, onConnectKeeps DEF Button!Manager
  <2>3. CASE Button!onDestroy BY Zenon, <1>2, <2>3, onDestroyKeeps
  <2>4. ASSUME NEW m \in Models, Button!onCreate(m) PROVE ButtonInv'
    BY Zenon, <1>2, <2>4, onCreateKeeps
  <2>5. ASSUME NEW m \in Models, Button!Flow(m) PROVE ButtonInv'
    <3>1. CASE \E r \in Button!AdResults : Button!adResult(m, r)
      BY Zenon, <1>2, <3>1, adResultKeeps
    <3>2. CASE \/ Button!toggle(m) \/ Button!permissionDenied(m)
               \/ Button!connect(m) \/ Button!disconnect(m)
      BY Zenon, <1>2, <3>2, toggleKeeps, permissionDeniedKeeps, connectKeeps,
         disconnectKeeps
    <3>3. CASE \/ Button!poll(m) \/ Button!timeOut(m)
               \/ Button!continueResult(m) \/ Button!startResult(m)
      BY Zenon, <1>2, <3>3, pollKeeps, timeOutKeeps, continueResultKeeps, startResultKeeps
    <3>4. QED BY Zenon, <2>5, <3>1, <3>2, <3>3 DEF Button!Flow
  <2>6. QED BY Zenon, <1>2, <2>1, <2>2, <2>3, <2>4, <2>5 DEF Button!Next
<1>3. QED BY Zenon, <1>1, <1>2 DEF MCNext, all

(* The invariant holds from the first state on.                             *)
THEOREM ButtonInvariant == MCSpec => []ButtonInv
<1>1. MCInit => ButtonInv
  <2> SUFFICES ASSUME Button!Init PROVE ButtonInv
    BY Zenon DEF MCInit
  <2>1. LinkTyped BY DEF Button!Init, LinkTyped, SvcState
  <2>2. FlowTyped BY ButtonAssumption DEF Button!Init, FlowTyped, Phase, Button!AdResults
  <2>3. Flags BY Zenon DEF Button!Init, Flags
  <2>4. Sole BY Zenon DEF Button!Init, Sole, Running
  <2>5. Counts BY ButtonAssumption DEF Button!Init, Counts, ToClose, Running
  <2>6. Link /\ Clocked /\ Shown /\ Traced
    BY Zenon DEF Button!Init, Link, Clocked, Shown, Traced
  <2>7. QED BY Zenon, <2>1, <2>2, <2>3, <2>4, <2>5, <2>6 DEF ButtonInv, ButtonTyped
<1>2. QED BY <1>1, ButtonStep, PTL DEF MCSpec

(* Between flows the button shows no transition, and the clock runs just    *)
(* when it shows CONNECTED (MainViewModel.waitResult, ServerManager         *)
(* changeState), with the exceptions that orphaned and upset record.        *)
THEOREM ButtonRests == MCSpec => []ButtonAtRest
<1>1. ButtonInv => ButtonAtRest
  <2> SUFFICES ASSUME ButtonInv PROVE ButtonAtRest
    BY Zenon
  <2>1. {starts, closes, ioStarts} \subseteq 0..MaxFlows
    BY ButtonAssumption DEF ButtonInv, ButtonTyped, LinkTyped, FlowTyped, Counts
  <2>2. Button!TypeOK
    <3>1. LinkTyped /\ FlowTyped /\ Flags
      BY Zenon DEF ButtonInv, ButtonTyped
    <3>2. {starting, bound, linked, gone, dead, clock, late, orphaned, upset} \subseteq BOOLEAN
      BY Zenon, <3>1 DEF Flags
    <3>3. {wasConnected, forConnect, asked} \subseteq [Models -> BOOLEAN]
      BY Zenon, <3>1 DEF FlowTyped
    <3>4. mSsState \in {"Idle", "Stopped", "Connected", "Stopping"}
      BY Zenon, <3>1 DEF LinkTyped, SvcState
    <3> QED BY Zenon, <2>1, <3>1, <3>2, <3>3, <3>4
            DEF LinkTyped, FlowTyped, SvcState, Phase, Button!TypeOK
  <2>3. Button!Settled <=> \A m \in Models : ~Running(m)
    BY Zenon DEF Button!Settled, Button!Waiting, Running
  <2>4. Button!NoTransitionLeft /\ Button!ClockAsShown
    BY Zenon, <2>3 DEF ButtonInv, Shown, Clocked, Button!NoTransitionLeft,
                       Button!ClockAsShown
  <2>5. QED BY Zenon, <2>2, <2>4 DEF ButtonAtRest
<1>2. QED BY <1>1, ButtonInvariant, PTL

(* No connection is hidden from the user: between flows a service that runs *)
(* is shown as CONNECTED once nothing is on its way, unless the service     *)
(* took a start request too late or the flows were upset.                   *)
THEOREM NothingHidden == MCSpec => []NoHiddenConnection
<1>1. ButtonInv => NoHiddenConnection
  <2> SUFFICES ASSUME ButtonInv PROVE NoHiddenConnection
    BY Zenon
  <2>1. Button!Settled <=> \A m \in Models : ~Running(m)
    BY Zenon DEF Button!Settled, Button!Waiting, Running
  <2>2. closes = 0 => ~(closes > 0) OBVIOUS
  <2>3. QED BY Zenon, <2>1, <2>2 DEF ButtonInv, Traced, NoHiddenConnection,
                                     Button!NoHiddenConnection
<1>2. QED BY <1>1, ButtonInvariant, PTL
=============================================================================
