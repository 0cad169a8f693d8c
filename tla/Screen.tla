------------------------------- MODULE Screen -------------------------------
(***************************************************************************)
(* What the window shows and which controls it offers, as functions of the *)
(* store and of the components' own state.  A control is what pressing it  *)
(* calls and the profile it names; a fact is something the window claims.  *)
(* Every component decides by itself, from the same state, and several of  *)
(* them are on the screen at once.                                         *)
(***************************************************************************)
EXTENDS Naturals, Sequences, FiniteSets, SequencesExt

CONSTANTS
    Matching,   \* the profiles whose name matches what is typed in a search
    OpenVpn     \* the profiles with an OpenVPN protocol; the others use WireGuard

VARIABLES
    conn,       \* connectionState
    health,     \* daemonHealth
    active,     \* activeProfileId (0: "")
    profiles,   \* the ids of profiles, in order
    favorites,  \* the ids of those with isFavorite
    killSwitch, \* securitySettings.killSwitch
    prompt,     \* mfaPromptProfile (0: null)
    nav,        \* activeTab, isCompactWidget, isSpotlightOpen
    query,      \* the text of the spotlight
    lib,        \* the profile library: search, activeFilter, viewMode
    width,      \* the width of the window
    logs,       \* the log entries kept, the newest last
    logView     \* logFilterLevel, logSearchQuery, isLogAutoScroll

States == {"disconnected", "connecting", "connected", "disconnecting", "reconnecting", "error"}
Tabs == {"dashboard", "profiles", "security", "logs", "settings"}
Levels == {"INFO", "WARN", "ERROR"}

\* The breakpoints of the components, 640, 920, 1024 and 1180 pixels, cut the
\* widths into five ranges.
Widths == <<"phone", "small", "medium", "large", "wide">>
UpTo(w) == {Widths[i] : i \in 1..(CHOOSE k \in DOMAIN Widths : Widths[k] = w)}

Control(op, p) == [op |-> op, profile |-> p]

\* profiles.find(activeProfileId) || profiles[0]; 0 if there is none.
ActiveProfile ==
    IF active \in ToSet(profiles) THEN active ELSE IF profiles = <<>> THEN 0 ELSE Head(profiles)

Linking == conn \in {"connecting", "reconnecting"}

\* What is claimed of a live tunnel, and only of one.
IfConnected(facts) == IF conn = "connected" THEN facts ELSE {}

-----------------------------------------------------------------------------
(***************************************************************************)
(* HeroCockpitBanner                                                       *)
(***************************************************************************)
\* handleToggle; there is nothing to do while disconnecting.
HeroToggle ==
    IF health = "offline" THEN {Control("retry", 0)}
    ELSE IF conn = "connected" \/ Linking THEN {Control("disconnect", ActiveProfile)}
    ELSE IF conn \in {"disconnected", "error"} THEN {Control("connect", ActiveProfile)}
    ELSE {}

\* The power button is disabled while disconnecting, even if the daemon is offline;
\* the retry link next to the offline badge is not.
HeroControls ==
    (IF conn = "disconnecting" THEN {} ELSE HeroToggle)
      \cup (IF health = "offline" THEN {Control("retry", 0)} ELSE {})

\* getStatusText: a daemon that is offline takes the badge's place.
HeroBadge ==
    IF health = "offline" THEN {} ELSE IfConnected({<<"connected", ActiveProfile>>})

\* The three layouts: each shows its part of the same facts.
HeroMobileHead == HeroBadge \cup IfConnected({<<"uptime">>})
HeroMobileMetrics == IfConnected({<<"addresses">>, <<"rates">>})
HeroTabletHead == HeroBadge \cup IfConnected({<<"uptime">>})
HeroTabletMetrics == IfConnected({<<"addresses">>, <<"rates">>})
HeroDesktopHead == HeroBadge \cup IfConnected({<<"uptime">>})
\* The desktop calls every mode of the kill switch but "off" the strict lock.
HeroDesktopSecurity ==
    IfConnected({<<"addresses">>, <<"encrypted">>})
      \cup {<<"kill_switch", IF killSwitch # "off" THEN "strict" ELSE "off">>}
HeroDesktopTraffic == IfConnected({<<"rates">>, <<"total">>})

HeroFacts ==
    IF width = "phone" THEN HeroMobileHead \cup HeroMobileMetrics
    ELSE IF width \in UpTo("large") THEN HeroTabletHead \cup HeroTabletMetrics
    ELSE HeroDesktopHead \cup HeroDesktopSecurity \cup HeroDesktopTraffic

-----------------------------------------------------------------------------
(***************************************************************************)
(* The profiles: the deck of the dashboard, and the cards and the table of *)
(* the library                                                             *)
(***************************************************************************)
CardIs(p, states) == p = active /\ conn \in states

Says(p, states) == IF CardIs(p, states) THEN {<<"connected", p>>} ELSE {}

\* A card of the deck calls connect, whatever the state, and can be starred; on the
\* phone and the tablet that is all.
DeckMobileCard(p) == {Control("connect", p), Control("favorite", p)}
DeckTabletCard(p) == {Control("connect", p), Control("favorite", p)}

\* On the desktop there is a button, too: it disconnects the tunnel that is up.
DeckDesktopCard(p) ==
    {Control("connect", p), Control("favorite", p)}
      \cup {Control(IF CardIs(p, {"connected"}) THEN "disconnect" ELSE "connect", p)}

DeckControls ==
    UNION {CASE width = "phone" -> DeckMobileCard(p)
             [] width \in {"small", "medium"} -> DeckTabletCard(p)
             [] OTHER -> DeckDesktopCard(p) : p \in ToSet(profiles)}

\* ACTIVE or CONNECTED on the card of the active profile.
DeckFacts == UNION {Says(p, {"connected"}) : p \in ToSet(profiles)}

\* filteredProfiles.
Filtered ==
    {p \in ToSet(profiles) :
       /\ lib.search # "" => p \in Matching
       /\ lib.filter = "favorites" => p \in favorites
       /\ lib.filter = "wireguard" => p \notin OpenVpn
       /\ lib.filter = "openvpn" => p \in OpenVpn}

\* The button of ProfileCard: getButtonProps makes it a spinner while disconnecting.
CardButton(p) ==
    IF CardIs(p, {"disconnecting"}) THEN {}
    ELSE IF CardIs(p, {"connected", "connecting", "reconnecting"}) THEN {Control("disconnect", p)}
    ELSE {Control("connect", p)}

\* The rest of the card: the star and the menu.
CardMenu(p) == {Control("favorite", p), Control("delete", p)}

\* renderStatusBadge.
CardBadge(p) == Says(p, {"connected"})

\* The row of the table; its button is a spinner while connecting, too, so that
\* its "Cancel" cannot be pressed.
RowControls(p) ==
    {Control("favorite", p)}
      \cup (IF CardIs(p, {"connecting", "reconnecting", "disconnecting"}) THEN {}
            ELSE IF CardIs(p, {"connected"}) THEN {Control("disconnect", p)}
            ELSE {Control("connect", p)})
RowFacts(p) == Says(p, {"connected"})

AsTable == width # "phone" /\ lib.mode = "table"

LibraryControls ==
    UNION {IF AsTable THEN RowControls(p) ELSE CardButton(p) \cup CardMenu(p) : p \in Filtered}
LibraryFacts ==
    UNION {IF AsTable THEN RowFacts(p) ELSE CardBadge(p) : p \in Filtered}

-----------------------------------------------------------------------------
(***************************************************************************)
(* The frame: navigation, status bar, spotlight, prompt, mini widget       *)
(***************************************************************************)
Go(tab) == [op |-> "tab", profile |-> 0, tab |-> tab]
Open(what) == [op |-> what, profile |-> 0]

\* Mutant: the sidebar gives way to the bottom bar on tablets already.
SidebarTabsDesktopOnly ==
    IF width \in {"phone", "small"} THEN {} ELSE {Go(tab) : tab \in Tabs}

\* SplitPaneLayout drops the sidebar on a phone, where the bottom bar appears.
SidebarTabs == IF width = "phone" THEN {} ELSE {Go(tab) : tab \in Tabs}
MobileTabs == IF width # "phone" THEN {} ELSE {Go(tab) : tab \in Tabs}

\* Titlebar: the spotlight and the mini widget.
TitlebarControls == {Open("spotlight"), Open("compact")}

\* The deck's "manage all" and add card, and the log stream's link.
DashboardLinks == {Go("profiles"), Go("logs")}

\* SpotlightSearch: its profiles and its commands; each closes it.
SpotlightControls ==
    {Control("connect", p) : p \in {q \in ToSet(profiles) : query # "" => q \in Matching}}
      \cup (IF query # "" THEN {}
            ELSE {Go(tab) : tab \in Tabs \ {"settings"}} \cup {Open("kill_switch")})
      \cup {Open("close_spotlight")}

\* ConnectMfaModal.
PromptControls == {Control("confirm", prompt), Control("close_prompt", prompt)}

\* MiniTrayWidget: its button takes "reconnecting" for idle.
MiniToggle ==
    IF conn \in {"connected", "connecting"} THEN {Control("disconnect", ActiveProfile)}
    ELSE {Control("connect", ActiveProfile)}
MiniControls ==
    MiniToggle
      \cup {Control("connect", profiles[i]) : i \in DOMAIN profiles \cap 1..3}
      \cup {Open("expand")}
MiniFacts == IfConnected({<<"connected", ActiveProfile>>, <<"uptime">>, <<"rates">>})

\* BottomStatusBar: getKsDisplay has a label for each mode.
StatusBarFacts ==
    IF width = "phone" THEN {} ELSE IfConnected({<<"interface">>}) \cup {<<"kill_switch", killSwitch>>}

\* SecurityHubView: the badge and the switch of the kill switch say whether it is
\* enforced, not how.
SecurityFacts == {<<IF killSwitch # "off" THEN "kill_switch_enforced" ELSE "kill_switch_not_enforced">>}
SecurityControls == {Open("kill_switch")}

\* renderActiveView, for the tab of n.
ViewControls(n) ==
    CASE n.tab = "dashboard" -> HeroControls \cup DeckControls \cup DashboardLinks
      [] n.tab = "profiles"  -> LibraryControls
      [] n.tab = "security"  -> SecurityControls
      [] n.tab = "settings"  -> {Open("spotlight")}
      [] OTHER -> {}
ViewFacts(n) ==
    CASE n.tab = "dashboard" -> HeroFacts \cup DeckFacts
      [] n.tab = "profiles"  -> LibraryFacts
      [] n.tab = "security"  -> SecurityFacts
      [] OTHER -> {}

\* AppShell: the mini widget alone, or the frame around the view; what is below
\* an open modal cannot be pressed.
Controls(n) ==
    IF n.compact THEN MiniControls
    ELSE IF prompt # 0 \/ n.spotlight
    THEN (IF n.spotlight THEN SpotlightControls ELSE {})
           \cup (IF prompt # 0 THEN PromptControls ELSE {})
    ELSE TitlebarControls \cup SidebarTabs \cup MobileTabs \cup ViewControls(n)

Facts(n) == IF n.compact THEN MiniFacts ELSE ViewFacts(n) \cup StatusBarFacts

-----------------------------------------------------------------------------
(***************************************************************************)
(* The log: LogConsoleView and DashboardFullLogStream                      *)
(***************************************************************************)
\* The positions in the log that the level and the query let through; a query
\* finds an entry by its level.
Matched ==
    {i \in DOMAIN logs : logView.level \in {"ALL", logs[i].level} /\ logView.search \in {"", logs[i].level}}

\* Mutant: the oldest first.
FilteredLogsOldestFirst ==
    [k \in 1..Cardinality(Matched) |->
        logs[CHOOSE i \in Matched : Cardinality({j \in Matched : j <= i}) = k]]

\* filteredLogs, the newest first: in place k the entry that k matched ones,
\* itself included, are not older than.
FilteredLogs ==
    [k \in 1..Cardinality(Matched) |->
        logs[CHOOSE i \in Matched : Cardinality({j \in Matched : j >= i}) = k]]

\* stats.
Stats(level) == Cardinality({i \in DOMAIN logs : logs[i].level = level})

\* slice(-n).
Newest(s, n) == SubSeq(s, IF Len(s) > n THEN Len(s) - n + 1 ELSE 1, Len(s))

\* recentLogs of the dashboard, of which there are `n`.
RecentLogs(n) == Newest(logs, n)
=============================================================================
