--------------------------- MODULE AppShellProofs ---------------------------
(***************************************************************************)
(* What the window never gets wrong, for any profiles, widths, limits and  *)
(* any number of presses and events: first what the screen offers and      *)
(* claims in a single state, then what the steps keep.                     *)
(***************************************************************************)
EXTENDS AppShell, SequenceTheorems, FiniteSetTheorems, TLAPS

-----------------------------------------------------------------------------
(* What a control names *)

\* A control connects a profile of the list or the active one; only listed
\* profiles are starred, and deleted if no prompt is open.
Sane(c) ==
    /\ c.op = "connect" => c.profile \in ToSet(profiles) \cup {ActiveProfile}
    /\ c.op = "favorite" => c.profile \in ToSet(profiles)
    /\ c.op = "delete" => c.profile \in ToSet(profiles) /\ prompt = 0
    /\ c.op = "confirm" => c.profile = prompt /\ prompt # 0
    /\ c.op = "tab" => c.tab \in Tabs
    /\ c.op \in {"spotlight", "compact"} => ~nav.spotlight

LEMMA ControlFields ==
    /\ \A op, p : Control(op, p).op = op /\ Control(op, p).profile = p
    /\ \A tab : Go(tab).op = "tab" /\ Go(tab).tab = tab
    /\ \A what : Open(what).op = what
BY DEF Control, Go, Open

LEMMA HeroSane == \A c \in HeroControls : Sane(c)
<1>1. ASSUME NEW c \in HeroControls
      PROVE  c \in {Control("retry", 0), Control("disconnect", ActiveProfile), Control("connect", ActiveProfile)}
  BY DEF HeroControls, HeroToggle
<1> QED BY <1>1, ControlFields DEF Sane

LEMMA DeckSane == \A c \in DeckControls : Sane(c)
<1>1. ASSUME NEW c \in DeckControls
      PROVE  \E p \in ToSet(profiles) : c \in {Control("connect", p), Control("favorite", p), Control("disconnect", p)}
  BY DEF DeckControls, DeckMobileCard, DeckTabletCard, DeckDesktopCard
<1> QED BY <1>1, ControlFields DEF Sane

LEMMA LibrarySane == prompt = 0 => \A c \in LibraryControls : Sane(c)
<1>1. ASSUME NEW c \in LibraryControls
      PROVE  \E p \in ToSet(profiles) : c \in {Control("connect", p), Control("favorite", p), Control("disconnect", p),
                                              Control("delete", p)}
  BY DEF LibraryControls, Filtered, RowControls, CardButton, CardMenu
<1> QED BY <1>1, ControlFields DEF Sane

LEMMA SpotlightSane == \A c \in SpotlightControls : Sane(c)
<1>1. ASSUME NEW c \in SpotlightControls
      PROVE  \/ \E p \in ToSet(profiles) : c = Control("connect", p)
             \/ \E tab \in Tabs : c = Go(tab)
             \/ c = Open("kill_switch") \/ c = Open("close_spotlight")
  BY DEF SpotlightControls
<1>2. \A p \in ToSet(profiles) : Sane(Control("connect", p))
  BY ControlFields DEF Sane
<1>3. \A tab \in Tabs : Sane(Go(tab))
  BY ControlFields DEF Sane
<1>4. Sane(Open("kill_switch")) /\ Sane(Open("close_spotlight"))
  BY ControlFields DEF Sane
<1> QED BY <1>1, <1>2, <1>3, <1>4

LEMMA MiniSane == \A c \in MiniControls : Sane(c) /\ c.op \in {"connect", "disconnect", "expand"}
<1>1. ASSUME NEW c \in MiniControls
      PROVE  \/ \E p \in ToSet(profiles) \cup {ActiveProfile} : c = Control("connect", p)
             \/ c = Control("disconnect", ActiveProfile) \/ c = Open("expand")
  BY DEF MiniControls, MiniToggle, ToSet
<1> QED BY <1>1, ControlFields DEF Sane

\* Every control on the screen is sane; the mini widget offers no navigation but
\* its way back.
LEMMA ControlsSane ==
    ASSUME NEW c \in Controls(nav)
    PROVE  Sane(c) /\ (nav.compact => c.op \in {"connect", "disconnect", "expand"})
<1>1. CASE nav.compact
  BY <1>1, MiniSane DEF Controls
<1>2. CASE ~nav.compact /\ (prompt # 0 \/ nav.spotlight)
  <2>1. c \in SpotlightControls \/ (prompt # 0 /\ c \in PromptControls)
    BY <1>2 DEF Controls
  <2>2. prompt # 0 /\ c \in PromptControls => Sane(c)
    <3>1. prompt # 0 => Sane(Control("confirm", prompt)) /\ Sane(Control("close_prompt", prompt))
      BY ControlFields DEF Sane
    <3> QED BY <3>1 DEF PromptControls
  <2> QED BY <1>2, <2>1, <2>2, SpotlightSane
<1>3. CASE ~nav.compact /\ prompt = 0 /\ ~nav.spotlight
  <2>1. c \in TitlebarControls \cup SidebarTabs \cup MobileTabs \cup ViewControls(nav)
    BY <1>3 DEF Controls
  <2>2. c \in TitlebarControls \cup SidebarTabs \cup MobileTabs => Sane(c)
    <3>1. Sane(Open("spotlight")) /\ Sane(Open("compact"))
      BY <1>3, ControlFields DEF Sane
    <3>2. \A tab \in Tabs : Sane(Go(tab))
      BY ControlFields DEF Sane
    <3> QED BY <3>1, <3>2 DEF TitlebarControls, SidebarTabs, MobileTabs
  <2>3. \A d \in DashboardLinks \cup SecurityControls \cup {Open("spotlight")} : Sane(d)
    BY <1>3, ControlFields DEF DashboardLinks, SecurityControls, Sane, Tabs
  <2>4. c \in ViewControls(nav) =>
          c \in HeroControls \cup DeckControls \cup DashboardLinks \cup LibraryControls \cup SecurityControls
                  \cup {Open("spotlight")}
    BY DEF ViewControls
  <2> QED BY <1>3, <2>1, <2>2, <2>3, <2>4, HeroSane, DeckSane, LibrarySane
<1> QED BY <1>1, <1>2, <1>3

-----------------------------------------------------------------------------
(* What the window claims *)

SwitchFacts ==
    {<<"kill_switch", killSwitch>>, <<IF killSwitch # "off" THEN "kill_switch_enforced" ELSE "kill_switch_not_enforced">>}
TunnelFacts == {<<"uptime">>, <<"addresses">>, <<"rates">>, <<"encrypted">>, <<"total">>, <<"interface">>}

\* The modes the controls of the window reach.
TwoModes == killSwitch \in {"off", "strict"}

\* In one of these modes every component claims the mode of the switch, or, of a
\* tunnel that is up, the active profile and the figures.
Honest(f) ==
    f \in SwitchFacts \/ (conn = "connected" /\ (f = <<"connected", ActiveProfile>> \/ f \in TunnelFacts))

LEMMA HeroHonest == TwoModes => \A f \in HeroFacts : Honest(f)
<1> SUFFICES ASSUME TwoModes PROVE \A f \in HeroFacts : Honest(f)
  OBVIOUS
<1>1. (IF killSwitch # "off" THEN "strict" ELSE "off") = killSwitch
  BY DEF TwoModes
<1> QED
  BY <1>1 DEF HeroFacts, HeroMobileHead, HeroMobileMetrics, HeroTabletHead, HeroTabletMetrics, HeroDesktopHead,
       HeroDesktopSecurity, HeroDesktopTraffic, HeroBadge, IfConnected, Honest, SwitchFacts, TunnelFacts

\* A card says "connected" of the active profile, which is in the list.
LEMMA CardsHonest == \A f \in DeckFacts \cup LibraryFacts : Honest(f)
<1>1. ASSUME NEW f \in DeckFacts \cup LibraryFacts
      PROVE  \E p \in ToSet(profiles) : f \in Says(p, {"connected"})
  BY DEF DeckFacts, LibraryFacts, RowFacts, CardBadge, Filtered
<1>2. ASSUME NEW p \in ToSet(profiles), NEW f \in Says(p, {"connected"})
      PROVE  Honest(f)
  BY <1>2 DEF Says, CardIs, Honest, ActiveProfile
<1> QED BY <1>1, <1>2

LEMMA FactsHonest == TwoModes => \A f \in Facts(nav) : Honest(f)
<1>1. \A f \in MiniFacts \cup StatusBarFacts \cup SecurityFacts : Honest(f)
  BY DEF MiniFacts, StatusBarFacts, SecurityFacts, IfConnected, Honest, SwitchFacts, TunnelFacts
<1>2. Facts(nav) \subseteq MiniFacts \cup StatusBarFacts \cup SecurityFacts \cup HeroFacts \cup DeckFacts \cup LibraryFacts
  BY DEF Facts, ViewFacts
<1> QED BY <1>1, <1>2, HeroHonest, CardsHonest

\* Honest claims agree with each other.
LEMMA HonestAgree == TwoModes => OneStory
<1> SUFFICES ASSUME TwoModes PROVE OneStory
  OBVIOUS
<1> DEFINE facts == Facts(nav)
<1>1. \A f \in facts : Honest(f)
  BY FactsHonest
<1> HIDE DEF facts
<1>2. (\A x : <<x>>[1] = x) /\ \A x, y : <<x, y>>[1] = x /\ <<x, y>>[2] = y
  OBVIOUS
<1>3. ASSUME NEW f \in facts, f[1] = "connected" PROVE f = <<"connected", ActiveProfile>>
  <2>1. f \notin TunnelFacts /\ f \notin SwitchFacts
    BY <1>2, <1>3 DEF TunnelFacts, SwitchFacts
  <2> QED BY <1>1, <2>1 DEF Honest
<1>4. ASSUME NEW f \in facts, f[1] = "kill_switch" PROVE f = <<"kill_switch", killSwitch>>
  <2>1. f \notin TunnelFacts /\ f # <<"connected", ActiveProfile>>
    BY <1>2, <1>4 DEF TunnelFacts
  <2>2. f # <<IF killSwitch # "off" THEN "kill_switch_enforced" ELSE "kill_switch_not_enforced">>
    BY <1>2, <1>4
  <2> QED BY <1>1, <2>1, <2>2 DEF Honest, SwitchFacts
<1>5. ASSUME NEW x \in {"kill_switch_enforced", "kill_switch_not_enforced"}, <<x>> \in facts
      PROVE  x = IF killSwitch # "off" THEN "kill_switch_enforced" ELSE "kill_switch_not_enforced"
  <2>1. <<x>>[1] = x
    BY <1>2
  <2>2. <<x>> \notin TunnelFacts /\ <<x>> # <<"connected", ActiveProfile>> /\ <<x>> # <<"kill_switch", killSwitch>>
    BY <1>2, <2>1 DEF TunnelFacts
  <2>3. <<x>> = <<IF killSwitch # "off" THEN "kill_switch_enforced" ELSE "kill_switch_not_enforced">>
    BY <1>1, <1>5, <2>2 DEF Honest, SwitchFacts
  <2> QED BY <1>2, <2>1, <2>3
<1>6. ASSUME NEW m, <<"kill_switch", m>> \in facts PROVE m = killSwitch
  <2>1. <<"kill_switch", m>> = <<"kill_switch", killSwitch>>
    BY <1>2, <1>4, <1>6
  <2> QED BY <1>2, <2>1
<1>7. \A f, g \in facts : f[1] = g[1] /\ f[1] \in {"connected", "kill_switch"} => f = g
  BY <1>3, <1>4
<1>8. <<"kill_switch", "off">> \in facts => <<"kill_switch_enforced">> \notin facts
  BY <1>5, <1>6
<1>9. <<"kill_switch", "strict">> \in facts => <<"kill_switch_not_enforced">> \notin facts
  BY <1>5, <1>6
<1> QED BY <1>7, <1>8, <1>9 DEF OneStory, facts

-----------------------------------------------------------------------------
(* The way to the stop button *)

NavType == [tab : Tabs, compact : BOOLEAN, spotlight : BOOLEAN]

\* The dashboard, and nothing over it.
Clear(n) == ~n.compact /\ ~n.spotlight
AtDashboard(n) == Clear(n) /\ n.tab = "dashboard"

\* The mini widget and the spotlight are never open together.
CompactClear == nav.compact => ~nav.spotlight

\* From a screen that nothing covers the dashboard is one press away, at every
\* width.
LEMMA DashboardNear ==
    ASSUME prompt = 0, NEW n \in NavType, Clear(n)
    PROVE  \E d \in After(n) : AtDashboard(d)
<1> DEFINE d == [n EXCEPT !.tab = "dashboard", !.spotlight = FALSE]
           c == Go("dashboard")
<1>1. c \in Controls(n)
  BY DEF Controls, SidebarTabs, MobileTabs, Tabs, Clear
<1>2. AtDashboard(d)
  BY DEF NavType, AtDashboard, Clear
<1>3. c.op = "tab" /\ c.tab = "dashboard"
  BY ControlFields
<1> HIDE DEF c
<1>4. d = CASE c.op = "tab" -> [n EXCEPT !.tab = c.tab, !.spotlight = FALSE]
            [] c.op = "expand" -> [n EXCEPT !.compact = FALSE]
            [] c.op = "close_spotlight" -> [n EXCEPT !.spotlight = FALSE]
            [] OTHER -> n
  BY <1>3
<1>5. d \in After(n)
  BY <1>1, <1>4 DEF After
<1> QED BY <1>2, <1>5

\* While a tunnel is up or being built, the dashboard's hero has a stop button.
LEMMA HeroStops ==
    ASSUME prompt = 0, health = "connected", conn = "connected" \/ Linking, NEW d, AtDashboard(d)
    PROVE  Control("disconnect", ActiveProfile) \in Controls(d)
<1>1. conn # "disconnecting"
  BY DEF Linking
<1>2. Control("disconnect", ActiveProfile) \in HeroControls
  BY <1>1 DEF HeroControls, HeroToggle
<1> QED BY <1>2 DEF Controls, AtDashboard, Clear, ViewControls

\* What covers the screen goes away with one press.
LEMMA Uncover ==
    ASSUME prompt = 0, nav \in NavType, CompactClear
    PROVE  \E n1 \in After(nav) : \E n2 \in After(n1) : AtDashboard(n2)
<1>1. CASE nav.compact
  <2> DEFINE n1 == [nav EXCEPT !.compact = FALSE]
  <2>1. Open("expand") \in Controls(nav)
    BY <1>1 DEF Controls, MiniControls
  <2>2. n1 \in After(nav)
    BY <2>1, ControlFields DEF After
  <2>3. n1 \in NavType /\ Clear(n1)
    BY <1>1 DEF NavType, CompactClear, Clear
  <2> QED BY <2>2, <2>3, DashboardNear
<1>2. CASE ~nav.compact /\ nav.spotlight
  <2> DEFINE n1 == [nav EXCEPT !.spotlight = FALSE]
  <2>1. Open("close_spotlight") \in Controls(nav)
    BY <1>2 DEF Controls, SpotlightControls
  <2>2. n1 \in After(nav)
    BY <2>1, ControlFields DEF After
  <2>3. n1 \in NavType /\ Clear(n1)
    BY <1>2 DEF NavType, Clear
  <2> QED BY <2>2, <2>3, DashboardNear
<1>3. CASE Clear(nav)
  <2>1. PICK d \in After(nav) : AtDashboard(d)
    BY <1>3, DashboardNear
  <2> DEFINE c == Open("spotlight")
  <2>2. c \in Controls(nav) /\ c.op = "spotlight"
    BY <1>3, ControlFields DEF Controls, TitlebarControls, Clear
  <2> HIDE DEF c
  <2>3. nav \in After(nav)
    <3>1. nav = CASE c.op = "tab" -> [nav EXCEPT !.tab = c.tab, !.spotlight = FALSE]
                  [] c.op = "expand" -> [nav EXCEPT !.compact = FALSE]
                  [] c.op = "close_spotlight" -> [nav EXCEPT !.spotlight = FALSE]
                  [] OTHER -> nav
      BY <2>2
    <3> QED BY <2>2, <3>1 DEF After
  <2> QED BY <2>1, <2>3
<1> QED BY <1>1, <1>2, <1>3 DEF Clear

LEMMA ReachFromClear ==
    ASSUME nav \in NavType, CompactClear
    PROVE  StopWithinReach
<1> SUFFICES ASSUME health = "connected", conn = "connected" \/ Linking, prompt = 0
             PROVE  \E n1 \in After(nav) : \E n2 \in After(n1) :
                      \E c \in Controls(nav) \cup Controls(n1) \cup Controls(n2) : c.op = "disconnect"
  BY DEF StopWithinReach
<1>1. Control("disconnect", ActiveProfile).op = "disconnect"
  BY ControlFields
<1> QED BY <1>1, HeroStops, Uncover

-----------------------------------------------------------------------------
(* The log *)

\* slice(-n) keeps the last min(n, length) elements in their order.
LEMMA NewestFacts ==
    ASSUME NEW S, NEW s \in Seq(S), NEW n \in Nat
    PROVE  LET m == IF Len(s) > n THEN n ELSE Len(s)
           IN  /\ Newest(s, n) \in Seq(S)
               /\ Len(Newest(s, n)) = m
               /\ \A i \in 1..m : Newest(s, n)[i] = s[Len(s) - m + i]
<1> DEFINE m == IF Len(s) > n THEN n ELSE Len(s)
           a == IF Len(s) > n THEN Len(s) - n + 1 ELSE 1
<1>1. Len(s) \in Nat /\ DOMAIN s = 1..Len(s)
  BY LenProperties
<1>2. m \in Nat /\ a \in Int /\ Len(s) \in Int /\ a >= 1 /\ Len(s) - a + 1 = m /\ a - 1 = Len(s) - m
  BY <1>1
<1>3. Newest(s, n) = SubSeq(s, a, Len(s))
  BY DEF Newest
<1> HIDE DEF m, a
<1>4. \A i \in a..Len(s) : s[i] \in S
  BY <1>1, <1>2, ElementOfSeq
<1>5. /\ SubSeq(s, a, Len(s)) \in Seq(S)
      /\ Len(SubSeq(s, a, Len(s))) = IF a <= Len(s) THEN Len(s) - a + 1 ELSE 0
      /\ \A i \in 1..(Len(s) - a + 1) : SubSeq(s, a, Len(s))[i] = s[a + i - 1]
  BY <1>2, <1>4, SubSeqProperties
<1>6. Len(SubSeq(s, a, Len(s))) = m
  BY <1>2, <1>5
<1>7. \A i \in 1..m : a + i - 1 = Len(s) - m + i
  BY <1>2
<1>8. \A i \in 1..m : SubSeq(s, a, Len(s))[i] = s[Len(s) - m + i]
  BY <1>2, <1>5, <1>7
<1> QED BY <1>3, <1>5, <1>6, <1>8 DEF m

Entry(top) == [id : 1..top, level : Levels]
LogTyped == written \in Nat /\ cleared \in 0..written /\ logs \in Seq(Entry(written))
Kept == IF written - cleared > LogCap THEN LogCap ELSE written - cleared
LogKept == Len(logs) = Kept /\ \A i \in 1..Kept : logs[i].id = written - Kept + i

LEMMA AddLogsTyped ==
    ASSUME LogTyped, NEW levels \in Seq(Levels), AddLogs(levels)
    PROVE  /\ LogTyped'
           /\ LogKept => LogKept'
<1> DEFINE k == Len(levels)
           entries == [i \in DOMAIN levels |-> [id |-> written + i, level |-> levels[i]]]
           all == logs \o entries
           n == Len(logs)
<1>1. k \in Nat /\ DOMAIN levels = 1..k /\ \A i \in 1..k : levels[i] \in Levels
  BY LenProperties, ElementOfSeq
<1>2. written \in Nat /\ cleared \in Nat /\ cleared <= written /\ n \in Nat /\ LogCap \in Nat
  BY LenProperties, ShellAssumption DEF LogTyped
<1>3. written' = written + k /\ logs' = Newest(all, LogCap) /\ cleared' = cleared
  BY DEF AddLogs
<1>4. entries \in Seq(Entry(written + k)) /\ Len(entries) = k /\ \A i \in 1..k : entries[i].id = written + i
  <2>1. \A i \in 1..k : [id |-> written + i, level |-> levels[i]] \in Entry(written + k)
    BY <1>1, <1>2 DEF Entry
  <2>2. entries \in [1..k -> Entry(written + k)]
    BY <2>1, <1>1
  <2>3. entries \in Seq(Entry(written + k))
    BY <2>2, <1>1, SeqDef
  <2>4. DOMAIN entries = 1..k
    BY <1>1
  <2> HIDE DEF k
  <2>5. Len(entries) \in Nat /\ DOMAIN entries = 1..Len(entries)
    <3> HIDE DEF entries
    <3> QED BY <2>3, LenProperties
  <2>6. Len(entries) = k
    BY <2>4, <2>5, <1>1
  <2> QED BY <2>3, <2>6, <1>1
<1>5. logs \in Seq(Entry(written + k))
  <2>1. Entry(written) \subseteq Entry(written + k)
    BY <1>1, <1>2 DEF Entry
  <2> QED BY <2>1, SeqMonotonic DEF LogTyped
<1> HIDE DEF entries, k
<1>6. /\ all \in Seq(Entry(written + k)) /\ Len(all) = n + k
      /\ \A i \in 1..(n + k) : all[i] = IF i <= n THEN logs[i] ELSE entries[i - n]
  BY <1>4, <1>5, ConcatProperties
<1> HIDE DEF all
<1> DEFINE m == IF n + k > LogCap THEN LogCap ELSE n + k
<1>7. /\ logs' \in Seq(Entry(written + k)) /\ Len(logs') = m
      /\ \A i \in 1..m : logs'[i] = all[n + k - m + i]
  <2> DEFINE top == Entry(written + k)
  <2> HIDE DEF top, n
  <2>1. all \in Seq(top)
    BY <1>6 DEF top
  <2>2. LET l == IF Len(all) > LogCap THEN LogCap ELSE Len(all)
        IN  /\ Newest(all, LogCap) \in Seq(top)
            /\ Len(Newest(all, LogCap)) = l
            /\ \A i \in 1..l : Newest(all, LogCap)[i] = all[Len(all) - l + i]
    BY <2>1, <1>2, NewestFacts
  <2>3. Newest(all, LogCap) \in Seq(top) /\ Len(Newest(all, LogCap)) = m
    BY <2>2, <1>6
  <2>4. \A i \in 1..m : Newest(all, LogCap)[i] = all[n + k - m + i]
    BY <2>2, <1>1, <1>2, <1>6
  <2> QED BY <2>3, <2>4, <1>3 DEF top
<1>8. LogTyped'
  <2>1. written' \in Nat /\ cleared' \in 0..written'
    BY <1>1, <1>2, <1>3
  <2> QED BY <2>1, <1>3, <1>7 DEF LogTyped
<1>9. ASSUME LogKept PROVE LogKept'
  <2>1. n = Kept /\ \A i \in 1..n : logs[i].id = written - n + i
    BY <1>9 DEF LogKept
  <2>2. Kept' = m
    BY <1>1, <1>2, <1>3, <2>1 DEF Kept
  <2> HIDE DEF n
  <2>3. m \in Nat /\ m <= n + k /\ n <= written
    BY <1>1, <1>2, <2>1 DEF Kept
  <2>4. \A i \in 1..(n + k) : all[i].id = written - n + i
    <3> SUFFICES ASSUME NEW i \in 1..(n + k) PROVE all[i].id = written - n + i
      OBVIOUS
    <3>1. CASE i <= n
      BY <3>1, <1>1, <1>2, <1>6, <2>1
    <3>2. CASE i > n
      <4>1. i - n \in 1..k /\ all[i] = entries[i - n]
        BY <3>2, <1>1, <1>2, <1>6
      <4>2. entries[i - n].id = written + (i - n)
        BY <4>1, <1>4
      <4> QED BY <4>1, <4>2, <1>2
    <3> QED BY <3>1, <3>2, <1>1, <1>2
  <2> HIDE DEF m
  <2>5. \A i \in 1..m : n + k - m + i \in 1..(n + k) /\ written - n + (n + k - m + i) = written + k - m + i
    BY <2>3, <1>1, <1>2
  <2>6. \A i \in 1..m : logs'[i].id = written + k - m + i
    BY <2>4, <2>5, <1>7
  <2>7. Len(logs') = m /\ written' = written + k
    BY <1>3, <1>7
  <2>8. \A i \in 1..Kept' : logs'[i].id = written' - Kept' + i
    <3> SUFFICES ASSUME NEW i \in 1..Kept' PROVE logs'[i].id = written' - Kept' + i
      OBVIOUS
    <3>1. logs'[i].id = written + k - m + i
      BY <2>2, <2>6
    <3> QED BY <3>1, <2>2, <2>3, <2>7, <1>1, <1>2
  <2> QED BY <2>2, <2>7, <2>8 DEF LogKept
<1> QED BY <1>8, <1>9

\* Every entry is counted once, under its level.
LEMMA StatsAddUp ==
    ASSUME LogTyped
    PROVE  Stats("INFO") + Stats("WARN") + Stats("ERROR") = Len(logs)
<1> DEFINE Of(level) == {i \in DOMAIN logs : logs[i].level = level}
           I == Of("INFO")
           W == Of("WARN")
           E == Of("ERROR")
<1>1. Len(logs) \in Nat /\ DOMAIN logs = 1..Len(logs) /\ \A i \in 1..Len(logs) : logs[i].level \in Levels
  <2>1. \A i \in 1..Len(logs) : logs[i] \in Entry(written)
    BY ElementOfSeq DEF LogTyped
  <2> QED BY <2>1, LenProperties DEF LogTyped, Entry
<1>2. I \cup W \cup E = 1..Len(logs)
  BY <1>1 DEF Levels
<1>3. I \cap W = {} /\ (I \cup W) \cap E = {}
  OBVIOUS
<1>4. IsFiniteSet(1..Len(logs)) /\ Cardinality(1..Len(logs)) = Len(logs)
  BY <1>1, FS_Interval
<1>5. Stats("INFO") = Cardinality(I) /\ Stats("WARN") = Cardinality(W) /\ Stats("ERROR") = Cardinality(E)
  BY DEF Stats
<1>6. I \in SUBSET (1..Len(logs)) /\ W \in SUBSET (1..Len(logs)) /\ E \in SUBSET (1..Len(logs))
  BY <1>1
<1> HIDE DEF I, W, E
<1>7. IsFiniteSet(I) /\ IsFiniteSet(W) /\ IsFiniteSet(E)
  BY <1>4, <1>6, FS_Subset
<1>8. IsFiniteSet(I \cup W) /\ Cardinality(I \cup W) = Cardinality(I) + Cardinality(W) - Cardinality(I \cap W)
  BY <1>7, FS_Union
<1>9. Cardinality((I \cup W) \cup E) = Cardinality(I \cup W) + Cardinality(E) - Cardinality((I \cup W) \cap E)
  BY <1>7, <1>8, FS_Union
<1>10. Cardinality(I \cap W) = 0 /\ Cardinality((I \cup W) \cap E) = 0
  BY <1>3, FS_EmptySet, Zenon
<1>11. Cardinality(I) \in Nat /\ Cardinality(W) \in Nat /\ Cardinality(E) \in Nat
  BY <1>7, FS_CardinalityType
<1>12. Cardinality(I \cup W) = Cardinality(I) + Cardinality(W)
  BY <1>8, <1>10, <1>11
<1>13. Cardinality((I \cup W) \cup E) = Cardinality(I) + Cardinality(W) + Cardinality(E)
  BY <1>9, <1>10, <1>11, <1>12
<1>14. Cardinality((I \cup W) \cup E) = Len(logs)
  BY <1>2, <1>4
<1> QED BY <1>5, <1>13, <1>14

LEMMA KeptShows ==
    ASSUME LogTyped, LogKept
    PROVE  LogsAreNewest
<1>1. Len(logs) = Kept /\ Kept \in Nat
  BY LenProperties DEF LogKept, LogTyped
<1>2. RecentCap \in Nat
  BY ShellAssumption
<1>3. Len(RecentLogs(RecentCap)) = IF Len(logs) > RecentCap THEN RecentCap ELSE Len(logs)
  BY <1>2, NewestFacts DEF RecentLogs, LogTyped
<1>4. Len(RecentLogs(RecentCap)) = IF Kept < RecentCap THEN Kept ELSE RecentCap
  BY <1>1, <1>2, <1>3
<1>5. Stats("INFO") + Stats("WARN") + Stats("ERROR") = Kept
  BY <1>1, StatsAddUp
<1> QED BY <1>1, <1>4, <1>5 DEF LogsAreNewest, LogKept, Kept

\* How many members of S are not below i: the place of i, counted from the top.
Place(S, i) == Cardinality({j \in S : j >= i})

\* Counting from the top, higher members come first, and every place up to the
\* number of members is taken.
LEMMA PlacesFilled ==
    ASSUME NEW n \in Nat, NEW S \in SUBSET (1..n)
    PROVE  /\ IsFiniteSet(S) /\ Cardinality(S) \in Nat
           /\ \A i, j \in S : i < j => Place(S, j) < Place(S, i)
           /\ \A i \in S : Place(S, i) \in 1..Cardinality(S)
           /\ \A k \in 1..Cardinality(S) : \E i \in S : Place(S, i) = k
<1> DEFINE above(i) == {j \in S : j >= i}
<1>1. IsFiniteSet(1..n)
  BY FS_Interval
<1>2. IsFiniteSet(S)
  BY <1>1, FS_Subset
<1>3. Cardinality(S) \in Nat
  BY <1>2, FS_CardinalityType
<1>4. \A i \in S : IsFiniteSet(above(i)) /\ Cardinality(above(i)) \in Nat /\ Cardinality(above(i)) <= Cardinality(S)
  <2> SUFFICES ASSUME NEW i \in S
               PROVE  /\ IsFiniteSet(above(i)) /\ Cardinality(above(i)) \in Nat
                      /\ Cardinality(above(i)) <= Cardinality(S)
    OBVIOUS
  <2>1. above(i) \in SUBSET S
    OBVIOUS
  <2> HIDE DEF above
  <2>2. IsFiniteSet(above(i)) /\ Cardinality(above(i)) <= Cardinality(S)
    BY <1>2, <2>1, FS_Subset
  <2> QED BY <2>2, FS_CardinalityType
<1>5. ASSUME NEW i \in S, NEW j \in S, i < j
      PROVE  Cardinality(above(j)) < Cardinality(above(i))
  <2>1. i \in Nat /\ j \in Nat /\ \A m \in S : m \in Nat
    OBVIOUS
  <2>a. \A m \in S : m >= j => m >= i
    BY <1>5, <2>1
  <2>b. i >= i /\ ~(i >= j)
    BY <1>5, <2>1
  <2>2. above(j) \in SUBSET above(i) /\ i \in above(i) /\ i \notin above(j)
    BY <2>a, <2>b, Zenon
  <2>3. above(j) # above(i)
    BY <2>2
  <2> HIDE DEF above
  <2>4. IsFiniteSet(above(i)) /\ Cardinality(above(i)) \in Nat /\ Cardinality(above(j)) \in Nat
    BY <1>4
  <2>5. Cardinality(above(j)) <= Cardinality(above(i)) /\ Cardinality(above(i)) # Cardinality(above(j))
    BY <2>2, <2>3, <2>4, FS_Subset
  <2> QED BY <2>4, <2>5
<1>6. ASSUME NEW i \in S PROVE Cardinality(above(i)) \in 1..Cardinality(S)
  <2>1. i \in above(i)
    OBVIOUS
  <2> HIDE DEF above
  <2>2. Cardinality(above(i)) # 0
    BY <1>4, <2>1, FS_EmptySet
  <2> QED BY <1>3, <1>4, <2>2
<1> DEFINE place == [i \in S |-> Cardinality(above(i))]
           C == 1..Cardinality(S)
<1>7. place \in Injection(S, C)
  <2> HIDE DEF above
  <2>1. place \in [S -> C]
    BY <1>6
  <2>2. ASSUME NEW i \in S, NEW j \in S, i # j PROVE place[i] # place[j]
    <3>1. i < j \/ j < i
      BY <2>2
    <3>2. Cardinality(above(i)) # Cardinality(above(j))
      BY <1>4, <1>5, <3>1
    <3> QED BY <3>2
  <2> HIDE DEF place, C
  <2> QED BY <2>1, <2>2, Zenon DEF Injection, IsInjective
<1>8. IsFiniteSet(C) /\ Cardinality(C) = Cardinality(S)
  BY <1>3, FS_Interval
<1>9. place \in Surjection(S, C)
  <2> HIDE DEF place, C
  <2> QED BY <1>7, <1>8, FS_Injection
<1>10. ASSUME NEW k \in C PROVE \E i \in S : Cardinality(above(i)) = k
  <2>1. \E i \in S : place[i] = k
    <3> HIDE DEF place, C
    <3> QED BY <1>9 DEF Surjection
  <2> HIDE DEF above
  <2> QED BY <2>1
<1> QED BY <1>2, <1>3, <1>5, <1>6, <1>10 DEF Place

\* The position of the entry that the console shows in place k.
PositionAt(k) == CHOOSE i \in Matched : Place(Matched, i) = k

LEMMA KeptConsole ==
    ASSUME LogTyped, LogKept
    PROVE  ConsoleShowsLog
<1> DEFINE M == Matched
           count == Cardinality(M)
<1>1. Len(logs) = Kept /\ Len(logs) \in Nat /\ DOMAIN logs = 1..Len(logs)
  BY LenProperties DEF LogKept, LogTyped
<1>2. M \in SUBSET (1..Len(logs))
  BY <1>1 DEF Matched
<1>3. /\ count \in Nat
      /\ \A i, j \in M : i < j => Place(M, j) < Place(M, i)
      /\ \A i \in M : Place(M, i) \in 1..count
      /\ \A k \in 1..count : \E i \in M : Place(M, i) = k
  <2> HIDE DEF M
  <2> QED BY <1>1, <1>2, PlacesFilled
<1>4. \A i \in 1..Len(logs) : logs[i].id = written - Kept + i
  BY <1>1 DEF LogKept
<1>5. written \in Nat
  BY DEF LogTyped
<1>6. FilteredLogs = [k \in 1..count |-> logs[PositionAt(k)]]
  BY DEF FilteredLogs, PositionAt, Place
<1>7. \A k \in 1..count : PositionAt(k) \in M /\ Place(M, PositionAt(k)) = k
  BY <1>3 DEF PositionAt
<1>8. \A i \in M : PositionAt(Place(M, i)) = i
  <2> SUFFICES ASSUME NEW i \in M PROVE PositionAt(Place(M, i)) = i
    OBVIOUS
  <2> DEFINE k == Place(M, i)
             j == PositionAt(k)
  <2>1. k \in 1..count /\ j \in M /\ Place(M, j) = k
    BY <1>3, <1>7
  <2>2. i \in Nat /\ j \in Nat
    <3> HIDE DEF M, j, k
    <3> QED BY <1>1, <1>2, <2>1
  <2>3. k \in Nat
    BY <1>3, <2>1
  <2> HIDE DEF j
  <2>4. ~(i < j) /\ ~(j < i)
    BY <1>3, <2>1, <2>3
  <2>5. i = j
    BY <2>2, <2>4
  <2> QED BY <2>5 DEF j
<1>9. DOMAIN FilteredLogs = 1..count /\ \A k \in 1..count : FilteredLogs[k] = logs[PositionAt(k)]
  BY <1>6
<1>10. ASSUME NEW k \in 1..count, NEW l \in 1..count, k < l
       PROVE  FilteredLogs[k].id > FilteredLogs[l].id
  <2>1. PositionAt(k) \in M /\ PositionAt(l) \in M /\ Place(M, PositionAt(k)) = k /\ Place(M, PositionAt(l)) = l
    BY <1>7
  <2>2. PositionAt(k) \in 1..Len(logs) /\ PositionAt(l) \in 1..Len(logs)
    BY <1>2, <2>1
  <2>3. ~(PositionAt(k) < PositionAt(l)) /\ PositionAt(k) # PositionAt(l)
    BY <1>3, <1>10, <2>1
  <2>4. PositionAt(l) < PositionAt(k)
    BY <1>1, <2>2, <2>3
  <2>5. logs[PositionAt(k)].id = written - Kept + PositionAt(k) /\ logs[PositionAt(l)].id = written - Kept + PositionAt(l)
    BY <1>4, <2>2
  <2> QED BY <1>1, <1>5, <1>9, <2>2, <2>4, <2>5
<1>11. {FilteredLogs[k].id : k \in DOMAIN FilteredLogs} = {logs[i].id : i \in M}
  <2>1. \A k \in 1..count : FilteredLogs[k].id \in {logs[i].id : i \in M}
    BY <1>7, <1>9
  <2>2. \A i \in M : logs[i].id \in {FilteredLogs[k].id : k \in 1..count}
    BY <1>3, <1>8, <1>9
  <2> QED BY <1>9, <2>1, <2>2
<1>12. Len(FilteredLogs) = count
  BY <1>3, <1>6
<1>13. ASSUME logView.search = ""
       PROVE  /\ count = (IF logView.level = "ALL" THEN Len(logs) ELSE Stats(logView.level))
              /\ logView.level = "ALL" /\ logs # <<>> => FilteredLogs[1].id = written
  <2>1. CASE logView.level = "ALL"
    <3>1. M = 1..Len(logs)
      BY <1>1, <1>13, <2>1 DEF Matched
    <3>2. count = Len(logs)
      BY <1>1, <3>1, FS_Interval
    <3>3. ASSUME logs # <<>> PROVE FilteredLogs[1].id = written
      <4>1. Len(logs) # 0
        BY <3>3, EmptySeq DEF LogTyped
      <4>2. 1 \in 1..count /\ Len(logs) \in M
        BY <1>1, <3>1, <3>2, <4>1
      <4>3. PositionAt(1) \in 1..Len(logs) /\ Place(M, PositionAt(1)) = 1
        BY <1>2, <1>7, <4>2
      <4>4. ~(PositionAt(1) < Len(logs))
        <5>1. Place(M, Len(logs)) \in 1..count
          BY <1>3, <4>2
        <5> QED BY <1>3, <1>7, <4>2, <4>3, <5>1
      <4>5. PositionAt(1) = Len(logs)
        BY <1>1, <4>3, <4>4
      <4> QED BY <1>1, <1>4, <1>5, <1>9, <4>2, <4>3, <4>5
    <3> QED BY <2>1, <3>2, <3>3
  <2>2. CASE logView.level # "ALL"
    <3>1. M = {i \in DOMAIN logs : logs[i].level = logView.level}
      BY <1>13, <2>2 DEF Matched
    <3> QED BY <2>2, <3>1 DEF Stats
  <2> QED BY <2>1, <2>2
<1> HIDE DEF count
<1> QED BY <1>9, <1>10, <1>11, <1>12, <1>13 DEF ConsoleShowsLog

-----------------------------------------------------------------------------
(* The store *)

LEMMA HeadListed ==
    ASSUME NEW S, NEW s \in Seq(S), s # <<>>
    PROVE  Head(s) \in ToSet(s)
<1>1. Len(s) \in Nat \ {0} /\ DOMAIN s = 1..Len(s)
  BY EmptySeq, LenProperties
<1>2. Head(s) = s[1]
  BY <1>1
<1> QED BY <1>1, <1>2 DEF ToSet

\* Deleting a listed profile leaves all others.
LEMMA WithoutFacts ==
    ASSUME NEW S, profiles \in Seq(S), NEW p \in ToSet(profiles)
    PROVE  /\ Without(p) \in Seq(S)
           /\ ToSet(profiles) \ {p} \subseteq ToSet(Without(p))
<1> DEFINE k == CHOOSE i \in DOMAIN profiles : profiles[i] = p
           a == SubSeq(profiles, 1, k - 1)
           b == SubSeq(profiles, k + 1, Len(profiles))
           n == Len(profiles)
<1>1. n \in Nat /\ DOMAIN profiles = 1..n /\ \A i \in 1..n : profiles[i] \in S
  BY LenProperties, ElementOfSeq
<1>2. k \in 1..n /\ profiles[k] = p
  <2>1. \E i \in DOMAIN profiles : profiles[i] = p
    BY DEF ToSet
  <2> QED BY <2>1, <1>1
<1> HIDE DEF k
<1>3. a \in Seq(S) /\ Len(a) = k - 1 /\ \A i \in 1..(k - 1) : a[i] = profiles[i]
  BY <1>1, <1>2, SubSeqProperties
<1>4. b \in Seq(S) /\ Len(b) = n - k /\ \A i \in 1..(n - k) : b[i] = profiles[k + i]
  <2> HIDE DEF n
  <2>1. k + 1 \in Int /\ n \in Int /\ (\A i \in (k + 1)..n : profiles[i] \in S)
        /\ (IF k + 1 <= n THEN n - (k + 1) + 1 ELSE 0) = n - k /\ n - (k + 1) + 1 = n - k
    BY <1>1, <1>2
  <2>2. /\ SubSeq(profiles, k + 1, n) \in Seq(S)
        /\ Len(SubSeq(profiles, k + 1, n)) = IF k + 1 <= n THEN n - (k + 1) + 1 ELSE 0
        /\ \A i \in 1..(n - (k + 1) + 1) : SubSeq(profiles, k + 1, n)[i] = profiles[(k + 1) + i - 1]
    BY <2>1, SubSeqProperties
  <2>3. b = SubSeq(profiles, k + 1, n)
    BY DEF n
  <2> HIDE DEF b
  <2>4. \A i \in 1..(n - k) : (k + 1) + i - 1 = k + i
    BY <1>1, <1>2
  <2> QED BY <2>1, <2>2, <2>3, <2>4
<1>5. Without(p) = a \o b
  BY DEF Without, RemoveAt, k
<1> HIDE DEF a, b, n
<1>6. /\ a \o b \in Seq(S) /\ Len(a \o b) = Len(a) + Len(b)
      /\ \A i \in 1..(Len(a) + Len(b)) : (a \o b)[i] = IF i <= Len(a) THEN a[i] ELSE b[i - Len(a)]
  BY <1>3, <1>4, ConcatProperties
<1>7. DOMAIN (a \o b) = 1..(n - 1)
  <2>1. DOMAIN (a \o b) = 1..Len(a \o b)
    BY <1>6, LenProperties
  <2>2. Len(a \o b) = n - 1
    BY <1>1, <1>2, <1>3, <1>4, <1>6
  <2> QED BY <2>1, <2>2
<1>8. ASSUME NEW q \in ToSet(profiles), q # p
      PROVE  q \in ToSet(a \o b)
  <2>1. PICK j \in 1..n : profiles[j] = q
    BY <1>1 DEF ToSet
  <2>2. CASE j < k
    <3>1. j \in 1..(n - 1) /\ (a \o b)[j] = q
      BY <1>1, <1>2, <1>3, <1>4, <1>6, <2>1, <2>2
    <3> QED BY <3>1, <1>7 DEF ToSet
  <2>3. CASE j > k
    <3>1. /\ j - 1 \in 1..(n - 1) /\ j - 1 \in 1..(Len(a) + Len(b)) /\ ~(j - 1 <= Len(a))
          /\ (j - 1) - Len(a) = j - k /\ j - k \in 1..(n - k) /\ k + (j - k) = j
      BY <1>1, <1>2, <1>3, <1>4, <2>1, <2>3
    <3>2. (a \o b)[j - 1] = q
      BY <3>1, <1>4, <1>6, <2>1
    <3> QED BY <3>1, <3>2, <1>7 DEF ToSet
  <2>4. j # k
    BY <1>2, <1>8, <2>1
  <2> QED BY <2>2, <2>3, <2>4, <1>1, <1>2
<1> QED BY <1>5, <1>6, <1>8

StoreOK ==
    /\ conn \in States /\ health \in {"connected", "offline"}
    /\ profiles \in Seq(ToSet(InitialProfiles)) /\ favorites \subseteq ToSet(profiles)
    /\ active \in ToSet(InitialProfiles) \cup {0}
    /\ prompt \in ToSet(profiles) \cup {0}
    /\ killSwitch \in {"off", "strict"}

LEMMA ProfilesListed ==
    ASSUME StoreOK
    PROVE  /\ ToSet(profiles) \subseteq ToSet(InitialProfiles)
           /\ profiles # <<>> => Head(profiles) \in ToSet(profiles)
           /\ 0 \notin ToSet(InitialProfiles)
<1>1. ToSet(profiles) \subseteq ToSet(InitialProfiles)
  <2>1. DOMAIN profiles = 1..Len(profiles) /\ \A i \in 1..Len(profiles) : profiles[i] \in ToSet(InitialProfiles)
    BY LenProperties, ElementOfSeq DEF StoreOK
  <2> QED BY <2>1 DEF ToSet
<1>2. 0 \notin ToSet(InitialProfiles)
  <2>1. DOMAIN InitialProfiles = 1..Len(InitialProfiles)
        /\ \A i \in 1..Len(InitialProfiles) : InitialProfiles[i] \in Nat \ {0}
    BY LenProperties, ElementOfSeq, ShellAssumption
  <2> QED BY <2>1 DEF ToSet
<1> QED BY <1>1, <1>2, HeadListed DEF StoreOK

\* The profile that connect(target) takes.
Taken(target) == IF target \in ToSet(profiles) THEN target ELSE Head(profiles)

LEMMA ConnectEffect ==
    ASSUME StoreOK, NEW target, NEW logged \in Seq(Levels), Connect(target, logged)
    PROVE  /\ conn' \in {conn, "connecting"}
           /\ active' \in ToSet(profiles) \cup {active}
           /\ prompt' \in ToSet(profiles) \cup {prompt}
           /\ conn # "connecting" /\ conn' = "connecting" => profiles # <<>> /\ active' = Taken(target)
           /\ \E levels \in Seq(Levels) : AddLogs(levels)
<1> DEFINE p == Taken(target)
<1>1. profiles # <<>> => p \in ToSet(profiles)
  BY ProfilesListed DEF Taken
<1>2. Append(logged, "INFO") \in Seq(Levels)
  BY DEF Levels
<1>3. CASE conn \in {"connecting", "connected"} \/ profiles = <<>>
  <2>1. AddLogs(logged) /\ conn' = conn /\ active' = active /\ prompt' = prompt
    BY <1>3 DEF Connect
  <2> QED BY <2>1
<1>4. CASE ~(conn \in {"connecting", "connected"} \/ profiles = <<>>) /\ p \in Prompting
  <2>1. AddLogs(logged) /\ conn' = conn /\ active' = active /\ prompt' = p
    BY <1>4 DEF Connect, Taken
  <2> QED BY <1>1, <1>4, <2>1
<1>5. CASE ~(conn \in {"connecting", "connected"} \/ profiles = <<>>) /\ p \notin Prompting
  <2>1. AddLogs(Append(logged, "INFO")) /\ conn' = "connecting" /\ active' = p /\ prompt' = prompt
    BY <1>5 DEF Connect, Taken
  <2> QED BY <1>1, <1>2, <1>5, <2>1
<1> QED BY <1>3, <1>4, <1>5

LEMMA DisconnectEffect ==
    ASSUME Disconnect
    PROVE  /\ conn' \in {conn, "disconnected", "disconnecting"}
           /\ (\E levels \in Seq(Levels) : AddLogs(levels)) \/ UNCHANGED logVars
<1>1. <<"WARN">> \in Seq(Levels)
  BY DEF Levels
<1> QED BY <1>1 DEF Disconnect, AddLog

\* The steps that leave the store alone.
QuietNext ==
    \/ PressNav \/ SpotlightKey \/ TypeQuery \/ ChangeLibrary
    \/ ChangeLogView \/ ResetFilters \/ ClearLogs \/ TestEvent
    \/ ToggleAutoLaunch \/ ChangeSetting \/ ResetDefaults \/ OsCallEnds
    \/ ToggleCollapse \/ DragStart \/ DragMove \/ DragEnd \/ Resize

LEMMA QuietKeepsStore == QuietNext => UNCHANGED storeVars
<1>1. PressNav => UNCHANGED storeVars
  BY DEF PressNav
<1>2. SpotlightKey \/ TypeQuery \/ ChangeLibrary => UNCHANGED storeVars
  BY DEF SpotlightKey, TypeQuery, ChangeLibrary
<1>3. ChangeLogView \/ ResetFilters \/ ClearLogs \/ TestEvent => UNCHANGED storeVars
  BY DEF ChangeLogView, ResetFilters, ClearLogs, TestEvent
<1>4. ToggleAutoLaunch \/ ChangeSetting \/ ResetDefaults \/ OsCallEnds => UNCHANGED storeVars
  BY DEF ToggleAutoLaunch, ChangeSetting, ResetDefaults, OsCallEnds
<1>5. ToggleCollapse \/ DragStart \/ DragMove \/ DragEnd \/ Resize => UNCHANGED storeVars
  BY DEF ToggleCollapse, DragStart, DragMove, DragEnd, Resize
<1> QED BY <1>1, <1>2, <1>3, <1>4, <1>5 DEF QuietNext

LEMMA StoreStays ==
    ASSUME StoreOK, UNCHANGED storeVars
    PROVE  StoreOK'
BY DEF StoreOK, storeVars

\* connect keeps the types, whoever calls it.
LEMMA ConnectTyped ==
    ASSUME StoreOK, NEW target, NEW logged \in Seq(Levels), Connect(target, logged),
           UNCHANGED <<health, profiles, favorites, killSwitch>>
    PROVE  StoreOK'
<1>1. /\ conn' \in {conn, "connecting"} /\ active' \in ToSet(profiles) \cup {active}
      /\ prompt' \in ToSet(profiles) \cup {prompt}
  BY ConnectEffect
<1>2. conn' \in States
  BY <1>1 DEF StoreOK, States
<1>3. active' \in ToSet(InitialProfiles) \cup {0} /\ prompt' \in ToSet(profiles) \cup {0}
  BY <1>1, ProfilesListed DEF StoreOK
<1> QED BY <1>2, <1>3 DEF StoreOK

LEMMA DisconnectTyped ==
    ASSUME StoreOK, Disconnect, UNCHANGED <<health, active, profiles, favorites, killSwitch, prompt>>
    PROVE  StoreOK'
<1>1. conn' \in States
  BY DisconnectEffect DEF StoreOK, States
<1> QED BY <1>1 DEF StoreOK

LEMMA StoreStep ==
    ASSUME StoreOK, Next
    PROVE  StoreOK'
<1>0. <<>> \in Seq(Levels) /\ <<"INFO">> \in Seq(Levels)
  BY DEF Levels
<1>1. CASE QuietNext
  BY <1>1, QuietKeepsStore, StoreStays
<1>2. CASE PressConnect
  <2>1. PICK c \in Controls(nav) : Connect(c.profile, <<>>) /\ UNCHANGED <<health, profiles, favorites, killSwitch>>
    BY <1>2 DEF PressConnect
  <2> QED BY <2>1, <1>0, ConnectTyped
<1>3. CASE PressDisconnect
  <2>1. Disconnect /\ UNCHANGED <<health, active, profiles, favorites, killSwitch, prompt>>
    BY <1>3 DEF PressDisconnect
  <2> QED BY <2>1, DisconnectTyped
<1>4. CASE PressRetry
  BY <1>4 DEF PressRetry, StoreOK, States
<1>5. CASE PressFavorite
  <2>1. PICK c \in Controls(nav) :
          /\ c.op = "favorite"
          /\ favorites' = IF c.profile \in favorites THEN favorites \ {c.profile} ELSE favorites \cup {c.profile}
          /\ UNCHANGED <<conn, health, active, profiles, killSwitch, prompt>>
    BY <1>5 DEF PressFavorite
  <2>2. c.profile \in ToSet(profiles)
    BY <2>1, ControlsSane DEF Sane
  <2>3. favorites' \subseteq ToSet(profiles)
    BY <2>1, <2>2 DEF StoreOK
  <2> QED BY <2>1, <2>3 DEF StoreOK
<1>6. CASE PressDelete
  <2>1. PICK c \in Controls(nav) :
          /\ c.op = "delete"
          /\ profiles' = Without(c.profile)
          /\ active' = IF active = c.profile THEN Head(profiles) ELSE active
          /\ favorites' = favorites \ {c.profile}
          /\ UNCHANGED <<conn, health, killSwitch, prompt>>
    BY <1>6 DEF PressDelete
  <2>2. c.profile \in ToSet(profiles) /\ prompt = 0
    BY <2>1, ControlsSane DEF Sane
  <2>3. profiles' \in Seq(ToSet(InitialProfiles)) /\ ToSet(profiles) \ {c.profile} \subseteq ToSet(profiles')
    BY <2>1, <2>2, WithoutFacts DEF StoreOK
  <2>4. profiles # <<>>
    BY <2>2 DEF ToSet
  <2>5. active' \in ToSet(InitialProfiles) \cup {0}
    BY <2>1, <2>4, ProfilesListed DEF StoreOK
  <2>6. favorites' \subseteq ToSet(profiles')
    BY <2>1, <2>3 DEF StoreOK
  <2> QED BY <2>1, <2>2, <2>3, <2>5, <2>6 DEF StoreOK
<1>7. CASE PressKillSwitch
  <2>1. killSwitch' \in {"off", "strict"} /\ UNCHANGED <<conn, health, active, profiles, favorites, prompt>>
    BY <1>7 DEF PressKillSwitch, SetKillSwitch
  <2> QED BY <2>1 DEF StoreOK
<1>8. CASE ConfirmPrompt
  <2>1. PICK c \in Controls(nav) :
          /\ c.op = "confirm"
          /\ \/ conn' = conn /\ active' = active
             \/ conn' = "connecting" /\ active' = Taken(prompt)
          /\ prompt' = 0
          /\ UNCHANGED <<health, profiles, favorites, killSwitch>>
    BY <1>8 DEF ConfirmPrompt, Taken
  <2>2. prompt \in ToSet(profiles)
    BY <2>1, ControlsSane DEF Sane, StoreOK
  <2>3. active' \in ToSet(InitialProfiles) \cup {0}
    BY <2>1, <2>2, ProfilesListed DEF StoreOK, Taken
  <2> QED BY <2>1, <2>3 DEF StoreOK, States
<1>9. CASE ClosePrompt
  BY <1>9 DEF ClosePrompt, StoreOK
<1>10. CASE TrayToggle
  <2>1. UNCHANGED <<health, profiles, favorites, killSwitch>>
    BY <1>10 DEF TrayToggle
  <2>2. (Disconnect /\ UNCHANGED <<active, prompt>>) \/ Connect(active, <<>>)
    BY <1>10 DEF TrayToggle
  <2>3. CASE Disconnect /\ UNCHANGED <<active, prompt>>
    BY <2>1, <2>3, DisconnectTyped
  <2>4. CASE Connect(active, <<>>)
    BY <2>1, <2>4, <1>0, ConnectTyped
  <2> QED BY <2>2, <2>3, <2>4
<1>11. CASE NetworkOnline
  <2>1. Connect(active, <<"INFO">>) /\ UNCHANGED <<health, profiles, favorites, killSwitch>>
    BY <1>11 DEF NetworkOnline
  <2> QED BY <2>1, <1>0, ConnectTyped
<1>12. CASE OnVpnStatus
  <2>1. conn' \in States /\ UNCHANGED <<health, active, profiles, favorites, killSwitch, prompt>>
    BY <1>12 DEF OnVpnStatus
  <2> QED BY <2>1 DEF StoreOK
<1>13. CASE OnDaemonStatus
  <2>1. /\ health' \in {"connected", "offline"} /\ conn' \in {"error", conn}
        /\ UNCHANGED <<active, profiles, favorites, killSwitch, prompt>>
    BY <1>13 DEF OnDaemonStatus
  <2> QED BY <2>1 DEF StoreOK, States
<1>14. CASE Reload
  <2>1. /\ conn' = "disconnected" /\ health' = "connected" /\ prompt' = 0
        /\ active' = 0 \/ \E i \in DOMAIN profiles : active' = profiles[i]
        /\ UNCHANGED <<profiles, favorites, killSwitch>>
    BY <1>14 DEF Reload
  <2>2. active' \in ToSet(InitialProfiles) \cup {0}
    BY <2>1, ProfilesListed DEF ToSet
  <2> QED BY <2>1, <2>2 DEF StoreOK, States
<1> QED
  BY <1>1, <1>2, <1>3, <1>4, <1>5, <1>6, <1>7, <1>8, <1>9, <1>10, <1>11, <1>12, <1>13, <1>14 DEF Next, QuietNext

-----------------------------------------------------------------------------
(* What a control connects *)

\* ActiveProfile is what connect takes when it is given the active id or the
\* shown profile.
LEMMA ShownIsTaken ==
    ASSUME StoreOK, profiles # <<>>
    PROVE  /\ Taken(active) = ActiveProfile
           /\ \A p \in ToSet(profiles) \cup {ActiveProfile} : Taken(p) = p
<1>1. Head(profiles) \in ToSet(profiles)
  BY ProfilesListed
<1> QED BY <1>1 DEF Taken, ActiveProfile

LEMMA StartsShown ==
    ASSUME StoreOK, Next, conn # "connecting", conn' = "connecting", did'.op \in {"connect", "confirm"}
    PROVE  active' = did'.profile
<1>0. <<>> \in Seq(Levels) /\ <<"INFO">> \in Seq(Levels)
  BY DEF Levels
<1>1. CASE QuietNext
  BY <1>1, QuietKeepsStore DEF storeVars
<1>2. CASE PressConnect
  <2>1. PICK c \in Controls(nav) : c.op = "connect" /\ did' = c /\ Connect(c.profile, <<>>)
    BY <1>2 DEF PressConnect, Step
  <2>2. profiles # <<>> /\ active' = Taken(c.profile)
    BY <2>1, <1>0, ConnectEffect
  <2>3. c.profile \in ToSet(profiles) \cup {ActiveProfile}
    BY <2>1, ControlsSane DEF Sane
  <2> QED BY <2>1, <2>2, <2>3, ShownIsTaken
<1>3. CASE ConfirmPrompt
  <2>1. PICK c \in Controls(nav) : c.op = "confirm" /\ did' = c /\ (conn' = conn \/ active' = Taken(prompt))
    BY <1>3 DEF ConfirmPrompt, Step, Taken
  <2>2. c.profile = prompt /\ prompt \in ToSet(profiles)
    BY <2>1, ControlsSane DEF Sane, StoreOK
  <2> QED BY <2>1, <2>2 DEF Taken
<1>4. CASE TrayToggle
  <2>1. \/ Disconnect
        \/ did' = Control("connect", ActiveProfile) /\ Connect(active, <<>>)
    BY <1>4 DEF TrayToggle, Step
  <2>2. ~Disconnect
    BY DisconnectEffect
  <2>3. profiles # <<>> /\ active' = Taken(active)
    BY <2>1, <2>2, <1>0, ConnectEffect
  <2> QED BY <2>1, <2>2, <2>3, ShownIsTaken, ControlFields
<1>5. CASE NetworkOnline
  <2>1. did' = Control("connect", ActiveProfile) /\ Connect(active, <<"INFO">>)
    BY <1>5 DEF NetworkOnline, Step
  <2>2. profiles # <<>> /\ active' = Taken(active)
    BY <2>1, <1>0, ConnectEffect
  <2> QED BY <2>1, <2>2, ShownIsTaken, ControlFields
<1>6. CASE PressDisconnect
  BY <1>6, DisconnectEffect DEF PressDisconnect
<1>7. CASE PressRetry \/ PressFavorite \/ PressDelete \/ PressKillSwitch \/ ClosePrompt \/ Reload
  BY <1>7 DEF PressRetry, PressFavorite, PressDelete, PressKillSwitch, ClosePrompt, Reload
<1>8. CASE OnVpnStatus \/ OnDaemonStatus
  <2>1. did' = Open("event")
    BY <1>8 DEF OnVpnStatus, OnDaemonStatus, Step
  <2>2. Open("event").op = "event"
    BY ControlFields
  <2> QED BY <2>1, <2>2
<1> QED BY <1>1, <1>2, <1>3, <1>4, <1>5, <1>6, <1>7, <1>8 DEF Next, QuietNext

-----------------------------------------------------------------------------
(* The view and the preferences *)

PaneType == [width : MinWidth..MaxWidth, collapsed : BOOLEAN, dragging : BOOLEAN]
LibType == [search : {"", "text"}, filter : {"all", "favorites", "openvpn", "wireguard"}, mode : {"grid", "table"}]
SavedType == [width : Nat, collapsed : BOOLEAN, settings : SettingsType]
CallType == [op : {"query", "enable", "disable"}, seen : BOOLEAN]

ViewOK == nav \in NavType /\ query \in {"", "text"} /\ width \in ToSet(Widths) /\ lib \in LibType
PrefOK ==
    /\ pane \in PaneType /\ settings \in SettingsType /\ saved \in SavedType
    /\ autostart \in BOOLEAN /\ osCalls \subseteq CallType

\* What is in memory is what localStorage would bring back.
Sync == settings = saved.settings /\ pane.collapsed = saved.collapsed /\ pane.width = PaneFrom(saved).width

LEMMA FreshTyped == FreshNav \in NavType /\ ~FreshNav.compact /\ FreshLib \in LibType
BY DEF FreshNav, FreshLib, NavType, LibType, Tabs

\* Where a control for navigation leads.
LEMMA NavEffect ==
    ASSUME nav \in NavType, CompactClear, PressNav
    PROVE  \E n \in NavType : (n.compact => ~n.spotlight) /\ Show(n)
<1>1. PICK c \in Controls(nav) :
        /\ c.op \in {"tab", "spotlight", "close_spotlight", "compact", "expand"}
        /\ Show(CASE c.op = "tab" -> [nav EXCEPT !.tab = c.tab, !.spotlight = FALSE]
                  [] c.op = "spotlight" -> [nav EXCEPT !.spotlight = TRUE]
                  [] c.op = "close_spotlight" -> [nav EXCEPT !.spotlight = FALSE]
                  [] c.op = "compact" -> [nav EXCEPT !.compact = TRUE]
                  [] c.op = "expand" -> [nav EXCEPT !.compact = FALSE])
  BY DEF PressNav
<1>2. Sane(c) /\ (nav.compact => c.op \in {"connect", "disconnect", "expand"})
  BY ControlsSane
<1>3. CASE c.op = "tab"
  <2> DEFINE n == [nav EXCEPT !.tab = c.tab, !.spotlight = FALSE]
  <2>1. Show(n)
    BY <1>1, <1>3
  <2>2. n \in NavType /\ ~n.spotlight
    BY <1>2, <1>3 DEF Sane, NavType
  <2> QED BY <2>1, <2>2
<1>4. CASE c.op = "spotlight"
  <2> DEFINE n == [nav EXCEPT !.spotlight = TRUE]
  <2>1. Show(n)
    BY <1>1, <1>4
  <2>2. n \in NavType /\ ~n.compact
    BY <1>2, <1>4 DEF NavType
  <2> QED BY <2>1, <2>2
<1>5. CASE c.op = "close_spotlight"
  <2> DEFINE n == [nav EXCEPT !.spotlight = FALSE]
  <2>1. Show(n)
    BY <1>1, <1>5
  <2>2. n \in NavType /\ ~n.spotlight
    BY DEF NavType
  <2> QED BY <2>1, <2>2
<1>6. CASE c.op = "compact"
  <2> DEFINE n == [nav EXCEPT !.compact = TRUE]
  <2>1. Show(n)
    BY <1>1, <1>6
  <2>2. n \in NavType /\ ~n.spotlight
    BY <1>2, <1>6 DEF Sane, NavType
  <2> QED BY <2>1, <2>2
<1>7. CASE c.op = "expand"
  <2> DEFINE n == [nav EXCEPT !.compact = FALSE]
  <2>1. Show(n)
    BY <1>1, <1>7
  <2>2. n \in NavType /\ ~n.compact
    BY DEF NavType
  <2> QED BY <2>1, <2>2
<1> QED BY <1>1, <1>3, <1>4, <1>5, <1>6, <1>7

LEMMA ViewStep ==
    ASSUME ViewOK, CompactClear, Next
    PROVE  ViewOK' /\ CompactClear'
<1> DEFINE Stays == nav' = nav /\ query' = query /\ width' = width /\ lib' = lib
           Closed == SpotlightCloses /\ query' = query /\ width' = width /\ lib' = lib
<1>1. CASE Stays
  BY <1>1 DEF ViewOK, CompactClear
<1>2. CASE Closed
  <2>1. nav' \in NavType /\ ~nav'.spotlight
    BY <1>2 DEF SpotlightCloses, ViewOK, NavType
  <2> QED BY <1>2, <2>1 DEF ViewOK, CompactClear
<1>3. PressDisconnect \/ PressRetry \/ PressFavorite \/ PressDelete \/ ConfirmPrompt \/ ClosePrompt => Stays
  BY DEF PressDisconnect, PressRetry, PressFavorite, PressDelete, ConfirmPrompt, ClosePrompt, viewVars
<1>4. ChangeLogView \/ ResetFilters \/ ClearLogs \/ TestEvent => Stays
  BY DEF ChangeLogView, ResetFilters, ClearLogs, TestEvent, viewVars
<1>5. ToggleAutoLaunch \/ ChangeSetting \/ ResetDefaults \/ OsCallEnds => Stays
  BY DEF ToggleAutoLaunch, ChangeSetting, ResetDefaults, OsCallEnds, viewVars
<1>6. ToggleCollapse \/ DragStart \/ DragMove \/ DragEnd => Stays
  BY DEF ToggleCollapse, DragStart, DragMove, DragEnd
<1>7. TrayToggle \/ NetworkOnline \/ OnVpnStatus \/ OnDaemonStatus => Stays
  BY DEF TrayToggle, NetworkOnline, OnVpnStatus, OnDaemonStatus, viewVars
<1>8. PressConnect \/ PressKillSwitch => Closed
  BY DEF PressConnect, PressKillSwitch
<1>9. CASE PressNav
  <2>1. PICK n \in NavType : (n.compact => ~n.spotlight) /\ Show(n)
    BY <1>9, NavEffect DEF ViewOK
  <2>2. nav' = n /\ lib' \in {lib, FreshLib} /\ query' \in {query, ""}
    BY <2>1 DEF Show
  <2>3. width' = width
    BY <1>9 DEF PressNav
  <2> QED BY <2>1, <2>2, <2>3, FreshTyped DEF ViewOK, CompactClear
<1>10. CASE SpotlightKey
  <2>1. nav' \in NavType /\ ~nav'.compact
    BY <1>10 DEF SpotlightKey, ViewOK, NavType
  <2>2. query' = query /\ width' = width /\ lib' = lib
    BY <1>10 DEF SpotlightKey
  <2> QED BY <2>1, <2>2 DEF ViewOK, CompactClear
<1>11. CASE TypeQuery
  <2>1. nav' = nav /\ query' \in {"", "text"} /\ width' = width /\ lib' = lib
    BY <1>11 DEF TypeQuery
  <2> QED BY <2>1 DEF ViewOK, CompactClear
<1>12. CASE ChangeLibrary
  <2>1. nav' = nav /\ query' = query /\ width' = width
    BY <1>12 DEF ChangeLibrary
  <2>2. lib' \in LibType
    BY <1>12 DEF ChangeLibrary, ViewOK, LibType
  <2> QED BY <2>1, <2>2 DEF ViewOK, CompactClear
<1>13. CASE Resize
  <2>1. nav' = nav /\ query' = query /\ width' \in ToSet(Widths) /\ lib' = lib
    BY <1>13 DEF Resize
  <2> QED BY <2>1 DEF ViewOK, CompactClear
<1>14. CASE Reload
  <2>1. nav' = FreshNav /\ query' = "" /\ lib' = FreshLib /\ width' = width
    BY <1>14 DEF Reload
  <2> QED BY <2>1, FreshTyped DEF ViewOK, CompactClear
<1> HIDE DEF Stays, Closed
<1> QED
  BY <1>1, <1>2, <1>3, <1>4, <1>5, <1>6, <1>7, <1>8, <1>9, <1>10, <1>11, <1>12, <1>13, <1>14 DEF Next

\* Clamp of handleMouseMove and of the sidebar's first state.
Clamped(x) == IF x < MinWidth THEN MinWidth ELSE IF x > MaxWidth THEN MaxWidth ELSE x

LEMMA ClampedFacts ==
    ASSUME NEW x \in Nat
    PROVE  /\ Clamped(x) \in MinWidth..MaxWidth /\ Clamped(x) \in Nat
           /\ Clamped(Clamped(x)) = Clamped(x)
BY ShellAssumption DEF Clamped

LEMMA PaneFromFacts ==
    ASSUME NEW s \in SavedType
    PROVE  /\ PaneFrom(s) \in PaneType
           /\ PaneFrom(s).width = Clamped(s.width) /\ PaneFrom(s).collapsed = s.collapsed
<1>1. s.width \in Nat /\ s.collapsed \in BOOLEAN
  BY DEF SavedType
<1>2. Clamped(s.width) \in MinWidth..MaxWidth
  BY <1>1, ClampedFacts
<1>3. PaneFrom(s) = [width |-> Clamped(s.width), collapsed |-> s.collapsed, dragging |-> FALSE]
  BY DEF PaneFrom, Clamped
<1>4. PaneFrom(s).width = Clamped(s.width) /\ PaneFrom(s).collapsed = s.collapsed
  BY <1>3
<1> QED BY <1>1, <1>2, <1>3, <1>4 DEF PaneType

\* updateAppSettings changes the setting and its copy together.
LEMMA UpdateSynced ==
    ASSUME PrefOK, Sync, NEW new \in SettingsType, UpdateAppSettings(new), pane' = pane
    PROVE  settings' \in SettingsType /\ saved' \in SavedType /\ Sync'
<1>1. settings' = new /\ saved' = [saved EXCEPT !.settings = new]
  BY DEF UpdateAppSettings
<1>2. saved' \in SavedType /\ saved'.settings = new /\ saved'.width = saved.width /\ saved'.collapsed = saved.collapsed
  BY <1>1 DEF PrefOK, SavedType
<1>3. PaneFrom(saved').width = PaneFrom(saved).width
  BY <1>2, PaneFromFacts DEF PrefOK
<1>4. settings' = saved'.settings /\ pane'.collapsed = saved'.collapsed /\ pane'.width = PaneFrom(saved').width
  BY <1>1, <1>2, <1>3 DEF Sync
<1> QED BY <1>1, <1>2, <1>4 DEF Sync

PrefStays == pane' = pane /\ settings' = settings /\ saved' = saved /\ autostart' = autostart /\ osCalls' = osCalls

LEMMA PrefQuiet ==
    (\/ PressConnect \/ PressDisconnect \/ PressRetry \/ PressFavorite \/ PressDelete \/ PressKillSwitch
     \/ ConfirmPrompt \/ ClosePrompt \/ SpotlightKey \/ TypeQuery \/ ChangeLibrary
     \/ ChangeLogView \/ ResetFilters \/ ClearLogs \/ TestEvent
     \/ Resize \/ TrayToggle \/ NetworkOnline \/ OnVpnStatus \/ OnDaemonStatus)
      => PrefStays
<1>1. PressConnect \/ PressDisconnect \/ PressRetry \/ PressFavorite \/ PressDelete \/ PressKillSwitch => PrefStays
  BY DEF PressConnect, PressDisconnect, PressRetry, PressFavorite, PressDelete, PressKillSwitch,
         viewVars, prefVars, PrefStays
<1>2. ConfirmPrompt \/ ClosePrompt \/ SpotlightKey \/ TypeQuery \/ ChangeLibrary => PrefStays
  BY DEF ConfirmPrompt, ClosePrompt, SpotlightKey, TypeQuery, ChangeLibrary, viewVars, prefVars, PrefStays
<1>3. ChangeLogView \/ ResetFilters \/ ClearLogs \/ TestEvent => PrefStays
  BY DEF ChangeLogView, ResetFilters, ClearLogs, TestEvent, viewVars, prefVars, PrefStays
<1>4. Resize \/ TrayToggle \/ NetworkOnline \/ OnVpnStatus \/ OnDaemonStatus => PrefStays
  BY DEF Resize, TrayToggle, NetworkOnline, OnVpnStatus, OnDaemonStatus, viewVars, prefVars, PrefStays
<1> QED BY <1>1, <1>2, <1>3, <1>4

\* What a step does to the settings, besides leaving them.
SettingsStep ==
    /\ pane' = pane
    /\ \/ \E new \in SettingsType : UpdateAppSettings(new)
       \/ settings' = settings /\ saved' = saved
    /\ autostart' \in BOOLEAN /\ osCalls' \subseteq CallType

LEMMA SettingsSteps ==
    ASSUME PrefOK, ToggleAutoLaunch \/ ChangeSetting \/ ResetDefaults \/ OsCallEnds
    PROVE  SettingsStep
<1>1. CASE ToggleAutoLaunch
  <2> DEFINE call == [op |-> IF settings.autoLaunch THEN "disable" ELSE "enable", seen |-> FALSE]
  <2>1. [settings EXCEPT !.autoLaunch = ~@] \in SettingsType
    BY DEF PrefOK, SettingsType
  <2>2. call \in CallType
    BY DEF CallType
  <2>3. /\ UpdateAppSettings([settings EXCEPT !.autoLaunch = ~@])
        /\ osCalls' = osCalls \cup {call} /\ autostart' = autostart /\ pane' = pane
    BY <1>1 DEF ToggleAutoLaunch, viewVars
  <2> QED BY <2>1, <2>2, <2>3 DEF SettingsStep, PrefOK
<1>2. CASE ChangeSetting
  <2>1. \A l \in {"en", "fr"} : [settings EXCEPT !.language = l] \in SettingsType
    BY DEF PrefOK, SettingsType
  <2>2. [settings EXCEPT !.autoReconnect = ~@] \in SettingsType
    BY DEF PrefOK, SettingsType
  <2>3. /\ \/ UpdateAppSettings([settings EXCEPT !.autoReconnect = ~@])
           \/ \E l \in {"en", "fr"} : UpdateAppSettings([settings EXCEPT !.language = l])
        /\ osCalls' = osCalls /\ autostart' = autostart /\ pane' = pane
    BY <1>2 DEF ChangeSetting, viewVars
  <2> QED BY <2>1, <2>2, <2>3 DEF SettingsStep, PrefOK
<1>3. CASE ResetDefaults
  <2>1. DefaultSettings \in SettingsType
    BY DEF DefaultSettings, SettingsType
  <2>2. UpdateAppSettings(DefaultSettings) /\ osCalls' = osCalls /\ autostart' = autostart /\ pane' = pane
    BY <1>3 DEF ResetDefaults, viewVars
  <2> QED BY <2>1, <2>2 DEF SettingsStep, PrefOK
<1>4. CASE OsCallEnds
  <2>1. [settings EXCEPT !.autoLaunch = autostart] \in SettingsType
    BY DEF PrefOK, SettingsType
  <2>2. pane' = pane /\ osCalls' \subseteq CallType
    BY <1>4 DEF OsCallEnds, viewVars, PrefOK
  <2>3. \/ UpdateAppSettings([settings EXCEPT !.autoLaunch = autostart]) /\ autostart' = autostart
        \/ settings' = settings /\ saved' = saved /\ autostart' \in BOOLEAN
    BY <1>4 DEF OsCallEnds, PrefOK
  <2> QED BY <2>1, <2>2, <2>3 DEF SettingsStep, PrefOK
<1> QED BY <1>1, <1>2, <1>3, <1>4

\* Every step keeps the preferences and their stored copy together, the step of a
\* drag as well.
LEMMA PrefStep ==
    ASSUME PrefOK, Sync, ViewOK, CompactClear, Next
    PROVE  PrefOK' /\ Sync'
<1>0. saved \in SavedType /\ pane \in PaneType
  BY DEF PrefOK
<1>1. CASE PrefStays
  <2>1. PrefOK'
    BY <1>1 DEF PrefStays, PrefOK
  <2>2. PaneFrom(saved').width = PaneFrom(saved).width
    BY <1>1 DEF PrefStays
  <2> QED BY <1>1, <2>1, <2>2 DEF PrefStays, Sync
<1>2. CASE SettingsStep
  <2>1. CASE \E new \in SettingsType : UpdateAppSettings(new)
    BY <1>2, <2>1, UpdateSynced DEF SettingsStep, PrefOK
  <2>2. CASE settings' = settings /\ saved' = saved
    <3>1. PaneFrom(saved').width = PaneFrom(saved).width
      BY <2>2
    <3> QED BY <1>2, <2>2, <3>1 DEF SettingsStep, PrefOK, Sync
  <2> QED BY <1>2, <2>1, <2>2 DEF SettingsStep
<1>3. CASE PressNav
  <2>1. PICK n \in NavType : Show(n)
    BY <1>3, NavEffect DEF ViewOK
  <2>2. settings' = settings /\ saved' = saved /\ autostart' = autostart
    BY <1>3 DEF PressNav
  <2>3. pane' \in {pane, PaneFrom(saved)}
    BY <2>1 DEF Show
  <2>4. osCalls' \subseteq CallType
    <3>1. [op |-> "query", seen |-> settings.autoLaunch] \in CallType
      BY DEF PrefOK, SettingsType, CallType
    <3> QED BY <2>1, <3>1 DEF Show, PrefOK
  <2>5. pane' \in PaneType /\ pane'.width = PaneFrom(saved).width /\ pane'.collapsed = saved.collapsed
    BY <1>0, <2>3, PaneFromFacts DEF Sync
  <2>6. PaneFrom(saved').width = PaneFrom(saved).width
    BY <2>2
  <2> QED BY <2>2, <2>4, <2>5, <2>6 DEF PrefOK, Sync
<1>4. CASE Reload
  <2>1. settings' = saved.settings /\ saved' = saved /\ pane' = PaneFrom(saved) /\ autostart' = autostart /\ osCalls' = {}
    BY <1>4 DEF Reload
  <2>2. pane' \in PaneType /\ pane'.collapsed = saved.collapsed /\ settings' \in SettingsType
    BY <1>0, <2>1, PaneFromFacts DEF SavedType
  <2>3. PaneFrom(saved').width = pane'.width
    BY <2>1
  <2> QED BY <2>1, <2>2, <2>3 DEF PrefOK, Sync
<1> DEFINE Aside == settings' = settings /\ autostart' = autostart /\ osCalls' = osCalls
<1>5. ASSUME Aside, pane' \in PaneType, saved' \in SavedType, saved'.settings = saved.settings,
             pane'.collapsed = saved'.collapsed, pane'.width = Clamped(saved'.width)
      PROVE  PrefOK' /\ Sync'
  <2>1. PaneFrom(saved').width = pane'.width
    BY <1>5, PaneFromFacts
  <2> QED BY <1>5, <2>1 DEF PrefOK, Sync
<1>6. pane.width = Clamped(saved.width) /\ pane.collapsed = saved.collapsed
  BY <1>0, PaneFromFacts DEF Sync
<1>7. CASE ToggleCollapse
  <2>1. Aside /\ pane' = [pane EXCEPT !.collapsed = ~@] /\ saved' = [saved EXCEPT !.collapsed = ~pane.collapsed]
    BY <1>7 DEF ToggleCollapse
  <2>2. pane' \in PaneType /\ pane'.width = pane.width /\ pane'.collapsed = ~pane.collapsed
    BY <1>0, <2>1 DEF PaneType
  <2>3. /\ saved' \in SavedType /\ saved'.settings = saved.settings /\ saved'.width = saved.width
        /\ saved'.collapsed = ~pane.collapsed
    BY <1>0, <2>1 DEF SavedType, PaneType
  <2> QED BY <1>5, <1>6, <2>1, <2>2, <2>3
<1>8. CASE DragStart
  <2>1. Aside /\ pane' = [pane EXCEPT !.dragging = TRUE, !.collapsed = FALSE] /\ saved' = [saved EXCEPT !.collapsed = FALSE]
    BY <1>8 DEF DragStart
  <2>2. pane' \in PaneType /\ pane'.width = pane.width /\ pane'.collapsed = FALSE
    BY <1>0, <2>1 DEF PaneType
  <2>3. /\ saved' \in SavedType /\ saved'.settings = saved.settings /\ saved'.width = saved.width
        /\ saved'.collapsed = FALSE
    BY <1>0, <2>1 DEF SavedType
  <2> QED BY <1>5, <1>6, <2>1, <2>2, <2>3
<1>9. CASE DragMove
  <2>1. PICK x \in DragTo : pane' = [pane EXCEPT !.width = Clamped(x)] /\ saved' = [saved EXCEPT !.width = Clamped(x)]
    BY <1>9 DEF DragMove, Clamped
  <2>2. Aside
    BY <1>9 DEF DragMove
  <2>3. Clamped(x) \in MinWidth..MaxWidth /\ Clamped(x) \in Nat /\ Clamped(Clamped(x)) = Clamped(x)
    BY ClampedFacts, ShellAssumption
  <2>4. pane' \in PaneType /\ pane'.width = Clamped(x) /\ pane'.collapsed = pane.collapsed
    BY <1>0, <2>1, <2>3 DEF PaneType
  <2>5. /\ saved' \in SavedType /\ saved'.settings = saved.settings /\ saved'.width = Clamped(x)
        /\ saved'.collapsed = saved.collapsed
    BY <1>0, <2>1, <2>3 DEF SavedType
  <2> HIDE DEF Aside
  <2> QED BY <1>5, <1>6, <2>2, <2>3, <2>4, <2>5
<1>10. CASE DragEnd
  <2>1. Aside /\ pane' = [pane EXCEPT !.dragging = FALSE] /\ saved' = saved
    BY <1>10 DEF DragEnd, prefVars
  <2>2. pane' \in PaneType /\ pane'.width = pane.width /\ pane'.collapsed = pane.collapsed
    BY <1>0, <2>1 DEF PaneType
  <2> QED BY <1>0, <1>5, <1>6, <2>1, <2>2
<1>11. ToggleAutoLaunch \/ ChangeSetting \/ ResetDefaults \/ OsCallEnds => SettingsStep
  BY SettingsSteps
<1>12. \/ PrefStays \/ SettingsStep \/ PressNav \/ Reload
       \/ ToggleCollapse \/ DragStart \/ DragMove \/ DragEnd
  BY <1>11, PrefQuiet DEF Next
<1> QED BY <1>1, <1>2, <1>3, <1>4, <1>7, <1>8, <1>9, <1>10, <1>12

-----------------------------------------------------------------------------
(* Every step writes to the log, clears it or leaves it *)

Logs == \E levels \in Seq(Levels) : AddLogs(levels)
ClearsLog == logs' = <<>> /\ cleared' = written /\ written' = written

LEMMA OneLog == \A level \in Levels : AddLog(level) => Logs
<1>1. \A level \in Levels : <<level>> \in Seq(Levels)
  OBVIOUS
<1> QED BY <1>1 DEF AddLog, Logs

LEMMA LogStep ==
    ASSUME StoreOK, Next
    PROVE  Logs \/ ClearsLog \/ UNCHANGED logVars
<1>0. <<>> \in Seq(Levels) /\ <<"INFO">> \in Seq(Levels)
  BY DEF Levels
<1>1. (AddLog("INFO") => Logs) /\ (AddLog("WARN") => Logs) /\ (AddLog("ERROR") => Logs)
  BY OneLog DEF Levels
<1>2. ASSUME NEW target, NEW logged \in Seq(Levels), Connect(target, logged) PROVE Logs
  BY <1>2, ConnectEffect DEF Logs
<1>3. Disconnect => Logs \/ UNCHANGED logVars
  BY DisconnectEffect DEF Logs
<1>4. ASSUME NEW new, UpdateAppSettings(new) PROVE Logs
  BY <1>1, <1>4 DEF UpdateAppSettings
<1>5. PressConnect \/ NetworkOnline => Logs
  BY <1>0, <1>2 DEF PressConnect, NetworkOnline
<1>6. PressDisconnect \/ TrayToggle => Logs \/ UNCHANGED logVars
  BY <1>0, <1>2, <1>3 DEF PressDisconnect, TrayToggle
<1>7. PressRetry => Logs
  BY <1>1 DEF PressRetry
<1>8. PressDelete \/ PressKillSwitch \/ TestEvent => Logs
  BY <1>1 DEF PressDelete, PressKillSwitch, TestEvent, SetKillSwitch
<1>9. PressFavorite \/ PressNav \/ ClosePrompt \/ SpotlightKey \/ TypeQuery \/ ChangeLibrary => UNCHANGED logVars
  BY DEF PressFavorite, PressNav, ClosePrompt, SpotlightKey, TypeQuery, ChangeLibrary
<1>10. ConfirmPrompt => Logs \/ UNCHANGED logVars
  BY <1>1 DEF ConfirmPrompt
<1>11. ChangeLogView \/ ResetFilters => UNCHANGED logVars
  BY DEF ChangeLogView, ResetFilters
<1>12. ClearLogs \/ Reload => ClearsLog
  BY DEF ClearLogs, Reload, ClearsLog
<1>13. ToggleAutoLaunch \/ ChangeSetting \/ ResetDefaults => Logs
  BY <1>4 DEF ToggleAutoLaunch, ChangeSetting, ResetDefaults
<1>14. OsCallEnds => Logs \/ UNCHANGED logVars
  BY <1>4 DEF OsCallEnds, logVars
<1>15. ToggleCollapse \/ DragStart \/ DragMove \/ DragEnd \/ Resize => UNCHANGED logVars
  BY DEF ToggleCollapse, DragStart, DragMove, DragEnd, Resize
<1>16. OnVpnStatus \/ OnDaemonStatus => Logs \/ UNCHANGED logVars
  BY <1>1 DEF OnVpnStatus, OnDaemonStatus, logVars
<1> QED
  BY <1>5, <1>6, <1>7, <1>8, <1>9, <1>10, <1>11, <1>12, <1>13, <1>14, <1>15, <1>16 DEF Next

LEMMA ClearedKept ==
    ASSUME LogTyped, ClearsLog
    PROVE  LogTyped' /\ LogKept'
<1>1. written' \in Nat /\ cleared' \in Nat /\ cleared' = written' /\ logs' = <<>>
  BY DEF ClearsLog, LogTyped
<1>2. LogTyped'
  BY <1>1, EmptySeq DEF LogTyped
<1>3. Kept' = 0
  <2>0. \A a, b \in Nat : a = b => a - b = 0
    OBVIOUS
  <2>1. written' - cleared' = 0
    BY <1>1, <2>0, Zenon
  <2>2. ~(0 > LogCap)
    BY ShellAssumption
  <2> QED BY <2>1, <2>2 DEF Kept
<1>4. Len(logs') = 0 /\ \A i : i \notin 1..Kept'
  BY <1>1, <1>3
<1> QED BY <1>2, <1>3, <1>4 DEF LogKept

LEMMA LogKeptStep ==
    ASSUME LogTyped, LogKept, Logs \/ ClearsLog \/ UNCHANGED logVars
    PROVE  LogTyped' /\ LogKept'
<1>1. CASE Logs
  BY <1>1, AddLogsTyped DEF Logs
<1>2. CASE ClearsLog
  BY <1>2, ClearedKept
<1>3. CASE UNCHANGED logVars
  BY <1>3 DEF logVars, LogTyped, LogKept, Kept
<1> QED BY <1>1, <1>2, <1>3

LogViewOK == logView \in [level : Levels \cup {"ALL"}, search : Levels \cup {""}, auto : BOOLEAN]

LEMMA LogViewStep ==
    ASSUME LogViewOK, Next
    PROVE  LogViewOK'
<1>1. CASE logView' = logView
  BY <1>1 DEF LogViewOK
<1>2. CASE ChangeLogView
  BY <1>2 DEF ChangeLogView, LogViewOK
<1>3. CASE ResetFilters
  BY <1>3 DEF ResetFilters, LogViewOK
<1>4. CASE Reload
  BY <1>4 DEF Reload, LogViewOK
<1>5. PressConnect \/ PressDisconnect \/ PressRetry \/ PressFavorite \/ PressDelete \/ PressKillSwitch => logView' = logView
  BY DEF PressConnect, PressDisconnect, PressRetry, PressFavorite, PressDelete, PressKillSwitch
<1>6. PressNav \/ ConfirmPrompt \/ ClosePrompt \/ SpotlightKey \/ TypeQuery \/ ChangeLibrary => logView' = logView
  BY DEF PressNav, ConfirmPrompt, ClosePrompt, SpotlightKey, TypeQuery, ChangeLibrary
<1>7. ClearLogs \/ TestEvent \/ ToggleAutoLaunch \/ ChangeSetting \/ ResetDefaults \/ OsCallEnds => logView' = logView
  BY DEF ClearLogs, TestEvent, ToggleAutoLaunch, ChangeSetting, ResetDefaults, OsCallEnds
<1>8. ToggleCollapse \/ DragStart \/ DragMove \/ DragEnd \/ Resize => logView' = logView
  BY DEF ToggleCollapse, DragStart, DragMove, DragEnd, Resize
<1>9. TrayToggle \/ NetworkOnline \/ OnVpnStatus \/ OnDaemonStatus => logView' = logView
  BY DEF TrayToggle, NetworkOnline, OnVpnStatus, OnDaemonStatus
<1> QED BY <1>1, <1>2, <1>3, <1>4, <1>5, <1>6, <1>7, <1>8, <1>9 DEF Next

-----------------------------------------------------------------------------
(* The inductive invariant and what follows from it *)

\* The types, that no modal lies under the mini widget, that memory and
\* localStorage agree, and that the log has no gap.
ShellInv == StoreOK /\ ViewOK /\ CompactClear /\ PrefOK /\ Sync /\ LogTyped /\ LogKept /\ LogViewOK

LEMMA InitShell == Init => ShellInv
<1> SUFFICES ASSUME Init PROVE ShellInv
  OBVIOUS
<1>1. StoreOK
  <2>1. InitialProfiles \in Seq(ToSet(InitialProfiles))
    <3>1. InitialProfiles \in [1..Len(InitialProfiles) -> ToSet(InitialProfiles)] /\ Len(InitialProfiles) \in Nat
      BY LenProperties, ShellAssumption DEF ToSet
    <3> QED BY <3>1, SeqDef
  <2>2. Head(InitialProfiles) \in ToSet(InitialProfiles)
    BY HeadListed, ShellAssumption
  <2> QED BY <2>1, <2>2 DEF Init, StoreOK, States
<1>2. ViewOK /\ CompactClear
  BY FreshTyped, ShellAssumption DEF Init, ViewOK, CompactClear
<1>3. saved \in SavedType /\ saved.collapsed = TRUE /\ DefaultSettings \in SettingsType
  BY ShellAssumption DEF Init, SavedType, SettingsType, DefaultSettings
<1>4. pane = PaneFrom(saved) /\ settings = saved.settings /\ autostart = FALSE /\ osCalls = {}
  BY DEF Init
<1>5. PrefOK /\ Sync
  <2>1. pane \in PaneType /\ pane.collapsed = saved.collapsed /\ settings \in SettingsType
    BY <1>3, <1>4, PaneFromFacts DEF SavedType
  <2>2. pane.width = PaneFrom(saved).width
    BY <1>4
  <2> QED BY <1>3, <1>4, <2>1, <2>2 DEF PrefOK, Sync
<1>6. LogTyped /\ LogKept
  <2>1. logs = <<>> /\ written = 0 /\ cleared = 0
    BY DEF Init
  <2>2. LogTyped
    BY <2>1, EmptySeq DEF LogTyped
  <2>3. Kept = 0
    BY <2>1, ShellAssumption DEF Kept
  <2> QED BY <2>1, <2>2, <2>3, EmptySeq DEF LogKept
<1>7. LogViewOK
  BY DEF Init, LogViewOK
<1> QED BY <1>1, <1>2, <1>5, <1>6, <1>7 DEF ShellInv

LEMMA ShellInductive == ShellInv /\ [Next]_vars => ShellInv'
<1> SUFFICES ASSUME ShellInv, [Next]_vars PROVE ShellInv'
  OBVIOUS
<1>1. CASE Next
  <2>1. StoreOK /\ ViewOK /\ CompactClear /\ PrefOK /\ Sync /\ LogTyped /\ LogKept /\ LogViewOK
    BY DEF ShellInv
  <2>2. StoreOK'
    BY <1>1, <2>1, StoreStep
  <2>3. ViewOK' /\ CompactClear'
    BY <1>1, <2>1, ViewStep
  <2>4. PrefOK' /\ Sync'
    BY <1>1, <2>1, PrefStep
  <2>5. LogTyped' /\ LogKept'
    BY <1>1, <2>1, LogStep, LogKeptStep
  <2>6. LogViewOK'
    BY <1>1, <2>1, LogViewStep
  <2> QED BY <2>2, <2>3, <2>4, <2>5, <2>6 DEF ShellInv
<1>2. CASE UNCHANGED vars
  BY <1>2 DEF vars, storeVars, viewVars, prefVars, logVars, ShellInv, StoreOK, ViewOK, CompactClear, PrefOK, Sync,
              LogTyped, LogKept, Kept, LogViewOK
<1> QED BY <1>1, <1>2

LEMMA ShellInvariant == Spec => []ShellInv
BY InitShell, ShellInductive, PTL DEF Spec

\* Every variable of the window keeps its type: favourites and the prompt name
\* listed profiles, the sidebar's width is within its limits, entries are numbered
\* up to the last one written.
THEOREM ShellTypeCorrect == Spec => []TypeOK
<1>1. ShellInv => TypeOK
  BY DEF ShellInv, TypeOK, StoreOK, ViewOK, PrefOK, LogTyped, LogViewOK, NavType, LibType, PaneType, SavedType,
         CallType, Entry
<1> QED BY <1>1, ShellInvariant, PTL

\* However the window is covered, narrowed or navigated, a running tunnel can be
\* stopped within three presses.
THEOREM StopAlwaysWithinReach == Spec => []StopWithinReach
<1>1. ShellInv => StopWithinReach
  BY ReachFromClear DEF ShellInv, ViewOK
<1> QED BY <1>1, ShellInvariant, PTL

\* For any profiles, widths and presses, what the parts of the window claim at one
\* time agrees: one profile is connected, and the kill switch has one mode, because
\* the controls never set the one that the hero and the status bar read differently.
THEOREM WindowTellsOneStory == Spec => []OneStory
<1>1. ShellInv => OneStory
  BY HonestAgree DEF ShellInv, StoreOK, TwoModes
<1> QED BY <1>1, ShellInvariant, PTL

\* For every limit, the log is the gapless end of what was written since it was
\* cleared, the level buttons add up to it and the dashboard shows its end.
THEOREM LogIsNewest == Spec => []LogsAreNewest
<1>1. ShellInv => LogsAreNewest
  BY KeptShows DEF ShellInv
<1> QED BY <1>1, ShellInvariant, PTL

\* Whatever was written, cut, cleared and filtered, the console shows the entries
\* its filter lets through, each once and the newest first, and its level buttons
\* count what they will show.
THEOREM ConsoleIsExact == Spec => []ConsoleShowsLog
<1>1. ShellInv => ConsoleShowsLog
  BY KeptConsole DEF ShellInv
<1> QED BY <1>1, ShellInvariant, PTL

\* Every attempt is for the profile its control names: a card, the hero, the mini
\* widget, the tray, the network adapter and the password prompt.
THEOREM ConnectsShown == Spec => ConnectsWhatItShows
<1>1. ShellInv /\ [Next]_vars =>
        [conn # "connecting" /\ conn' = "connecting" /\ did'.op \in {"connect", "confirm"}
           => active' = did'.profile]_vars
  BY StartsShown DEF ShellInv
<1> QED BY <1>1, ShellInvariant, PTL DEF Spec, ConnectsWhatItShows

\* A restart and the mini widget, even in the middle of a drag, bring back the
\* settings and the sidebar as the user left them.
THEOREM PreferencesKept == Spec => PreferencesSurvive
<1> DEFINE Marked == did'.op \in {"reload", "compact", "expand"}
           Same == settings' = settings /\ pane'.width = pane.width /\ pane'.collapsed = pane.collapsed
<1>1. ASSUME ShellInv, Next, Marked PROVE Same
  <2>0. ViewOK /\ CompactClear /\ PrefOK /\ Sync
    BY <1>1 DEF ShellInv
  <2>1. PrefStays => Same
    BY DEF PrefStays
  <2>2. CASE PressNav
    <3>1. PICK n \in NavType : Show(n)
      BY <2>0, <2>2, NavEffect DEF ViewOK
    <3>2. settings' = settings /\ pane' \in {pane, PaneFrom(saved)}
      BY <2>2, <3>1 DEF PressNav, Show
    <3>3. PaneFrom(saved).width = pane.width /\ PaneFrom(saved).collapsed = pane.collapsed
      BY <2>0, PaneFromFacts DEF Sync, PrefOK
    <3> QED BY <3>2, <3>3
  <2>3. CASE Reload
    <3>1. settings' = saved.settings /\ pane' = PaneFrom(saved)
      BY <2>3 DEF Reload
    <3>2. PaneFrom(saved).width = pane.width /\ PaneFrom(saved).collapsed = pane.collapsed
      BY <2>0, PaneFromFacts DEF Sync, PrefOK
    <3> QED BY <2>0, <3>1, <3>2 DEF Sync
  <2>4. \A what \in {"auto_launch", "setting", "reset", "event", "collapse", "grab", "drag", "drop"} :
          Open(what).op \notin {"reload", "compact", "expand"}
    BY ControlFields
  <2>5. ~(ToggleAutoLaunch \/ ChangeSetting \/ ResetDefaults \/ OsCallEnds)
    BY <1>1, <2>4 DEF ToggleAutoLaunch, ChangeSetting, ResetDefaults, OsCallEnds, Tweak
  <2>6. ~(ToggleCollapse \/ DragStart \/ DragMove \/ DragEnd)
    BY <1>1, <2>4 DEF ToggleCollapse, DragStart, DragMove, DragEnd, Tweak
  <2>7. PrefStays \/ PressNav \/ Reload
    BY <1>1, <2>5, <2>6, PrefQuiet DEF Next
  <2> QED BY <2>1, <2>2, <2>3, <2>7
<1>2. ShellInv /\ [Next]_vars => [Marked => Same]_vars
  BY <1>1
<1> QED BY <1>2, ShellInvariant, PTL DEF Spec, PreferencesSurvive
=============================================================================
