------------------------------ MODULE AppShell ------------------------------
(***************************************************************************)
(* The window of the application in use: the user presses what Screen      *)
(* offers, the tray and the network adapter act on their own, the daemon's *)
(* events change the connection state under everybody's hands, and the     *)
(* window is resized, turned into the mini widget and reloaded.            *)
(*                                                                         *)
(* The operations of the store are taken up to their first await; what     *)
(* comes of them arrives as an event (VpnStore follows them to the daemon, *)
(* ProfileStorage to the disk).                                            *)
(***************************************************************************)
EXTENDS Screen

CONSTANTS
    InitialProfiles, \* the profiles loadStorage brings, in order
    Prompting,       \* those in dynamic_prompt mode
    MinWidth, MaxWidth, \* of the sidebar
    SavedWidth,      \* what an earlier version left in localStorage
    StartWidths,     \* how wide the window may be at first
    DragTo,          \* where the mouse drags the sidebar's edge
    LogCap,          \* 500: entries the store keeps
    RecentCap,       \* 30: entries the dashboard shows
    MaxActs,         \* bound: presses and events
    MaxTweaks        \* bound: changes of filters, of the log view, of settings, of the window and its sidebar

ASSUME ShellAssumption ==
    /\ InitialProfiles \in Seq(Nat \ {0}) /\ InitialProfiles # <<>>
    /\ \A i, j \in DOMAIN InitialProfiles : InitialProfiles[i] = InitialProfiles[j] => i = j
    /\ MinWidth \in Nat /\ MaxWidth \in Nat /\ MinWidth <= MaxWidth /\ SavedWidth \in Nat
    /\ StartWidths \subseteq ToSet(Widths) /\ DragTo \subseteq Nat
    /\ LogCap \in Nat \ {0} /\ RecentCap \in Nat \ {0}
    /\ MaxActs \in Nat /\ MaxTweaks \in Nat

VARIABLES
    pane,       \* SplitPaneLayout: expandedWidth, isCollapsed, isDragging
    settings,   \* appSettings: autoLaunch, autoReconnect, language
    saved,      \* localStorage: the sidebar's width and collapse, the settings
    autostart,  \* whether the operating system starts the application
    osCalls,    \* queries and changes of the autostart under way
    written,    \* how many entries were logged; their numbers
    cleared,    \* written, when the log was last cleared
    did,        \* the last step: what was pressed and the profile it named
    acts, tweaks

storeVars == <<conn, health, active, profiles, favorites, killSwitch, prompt>>
viewVars == <<nav, query, lib, width, pane>>
prefVars == <<settings, saved, autostart, osCalls>>
logVars == <<logs, written, cleared>>
vars == <<storeVars, viewVars, prefVars, logVars, logView, did, acts, tweaks>>

DefaultSettings == [autoLaunch |-> FALSE, autoReconnect |-> TRUE, language |-> "en"]
FreshLib == [search |-> "", filter |-> "all", mode |-> "grid"]
FreshNav == [tab |-> "dashboard", compact |-> FALSE, spotlight |-> FALSE]

\* Mutant: the width that was saved is not clamped.
PaneFromUnclamped(s) == [width |-> s.width, collapsed |-> s.collapsed, dragging |-> FALSE]

\* The state SplitPaneLayout starts with: what localStorage has, within the limits.
PaneFrom(s) ==
    [width |-> IF s.width < MinWidth THEN MinWidth ELSE IF s.width > MaxWidth THEN MaxWidth ELSE s.width,
     collapsed |-> s.collapsed, dragging |-> FALSE]

\* The store after loadStorage, the sidebar collapsed.
Init ==
    /\ conn = "disconnected" /\ health = "connected"
    /\ profiles = InitialProfiles /\ active = Head(InitialProfiles)
    /\ favorites = {}
    /\ killSwitch = "strict"
    /\ prompt = 0
    /\ nav = FreshNav /\ query = "" /\ lib = FreshLib
    /\ width \in StartWidths
    /\ saved = [width |-> SavedWidth, collapsed |-> TRUE, settings |-> DefaultSettings]
    /\ pane = PaneFrom(saved)
    /\ settings = saved.settings
    /\ autostart = FALSE /\ osCalls = {}
    /\ logs = <<>> /\ written = 0 /\ cleared = 0
    /\ logView = [level |-> "ALL", search |-> "", auto |-> TRUE]
    /\ did = Open("start")
    /\ acts = 0 /\ tweaks = 0

-----------------------------------------------------------------------------
(***************************************************************************)
(* The operations of the store                                             *)
(***************************************************************************)
\* Mutant: one entry more is kept.
AddLogsOneMore(levels) ==
    LET entries == [i \in DOMAIN levels |-> [id |-> written + i, level |-> levels[i]]]
    IN  /\ written' = written + Len(levels)
        /\ logs' = Newest(logs \o entries, LogCap + 1)
        /\ UNCHANGED cleared

\* addLog, once for each level: [...logs.slice(-499), newEntry], that is, each
\* entry is appended and the newest 500 are kept.
AddLogs(levels) ==
    LET entries == [i \in DOMAIN levels |-> [id |-> written + i, level |-> levels[i]]]
    IN  /\ written' = written + Len(levels)
        /\ logs' = Newest(logs \o entries, LogCap)
        /\ UNCHANGED cleared

AddLog(level) == AddLogs(<<level>>)

\* connect(target) up to its request, after its caller has logged something; a
\* profile may ask for its password first.
Connect(target, logged) ==
    LET p == IF target \in ToSet(profiles) THEN target ELSE Head(profiles)
    IN  IF conn \in {"connecting", "connected"} \/ profiles = <<>>
        THEN AddLogs(logged) /\ UNCHANGED <<conn, active, prompt>>
        ELSE IF p \in Prompting
        THEN prompt' = p /\ AddLogs(logged) /\ UNCHANGED <<conn, active>>
        ELSE /\ conn' = "connecting" /\ active' = p
             /\ AddLogs(Append(logged, "INFO")) /\ UNCHANGED prompt

\* disconnect up to its request.
Disconnect ==
    IF conn \in {"disconnected", "disconnecting"}
    THEN UNCHANGED <<conn, logVars>>
    ELSE /\ conn' = IF conn = "connecting" THEN "disconnected" ELSE "disconnecting"
         /\ AddLog("WARN")

\* setKillSwitch.
SetKillSwitch(mode) == killSwitch' = mode /\ AddLog("INFO")

\* updateAppSettings.
UpdateAppSettings(new) ==
    /\ settings' = new
    /\ saved' = [saved EXCEPT !.settings = new]
    /\ AddLog("INFO")

-----------------------------------------------------------------------------
(***************************************************************************)
(* What the user presses.  `did` is the control.                           *)
(***************************************************************************)
Step(what) == acts < MaxActs /\ acts' = acts + 1 /\ did' = what /\ UNCHANGED tweaks
Tweak(what) == tweaks < MaxTweaks /\ tweaks' = tweaks + 1 /\ did' = what /\ UNCHANGED acts

\* A control of the spotlight closes it.
SpotlightCloses == nav' = [nav EXCEPT !.spotlight = FALSE]

\* A component that leaves the screen loses its own state; the settings view asks
\* for the autostart when it appears.
Show(n) ==
    /\ nav' = n
    /\ lib' = IF n.tab = "profiles" /\ nav.tab = "profiles" /\ ~n.compact /\ ~nav.compact
              THEN lib ELSE FreshLib
    /\ query' = IF n.compact THEN "" ELSE query
    /\ pane' = IF n.compact # nav.compact THEN PaneFrom(saved) ELSE pane
    /\ osCalls' = IF n.tab = "settings" /\ ~n.compact /\ (nav.tab # "settings" \/ nav.compact)
                  THEN osCalls \cup {[op |-> "query", seen |-> settings.autoLaunch]} ELSE osCalls

PressConnect ==
    \E c \in Controls(nav) :
      /\ c.op = "connect" /\ Step(c)
      /\ Connect(c.profile, <<>>)
      /\ SpotlightCloses
      /\ UNCHANGED <<health, profiles, favorites, killSwitch, query, lib, width, pane, prefVars, logView>>

PressDisconnect ==
    \E c \in Controls(nav) :
      /\ c.op = "disconnect" /\ Step(c)
      /\ Disconnect
      /\ UNCHANGED <<health, active, profiles, favorites, killSwitch, prompt, viewVars, prefVars, logView>>

\* retryDaemonIpc and the answer of the daemon.
PressRetry ==
    \E c \in Controls(nav), alive \in BOOLEAN :
      /\ c.op = "retry" /\ Step(c)
      /\ health' = IF alive THEN "connected" ELSE "offline"
      /\ conn' = IF alive /\ conn = "error" THEN "disconnected" ELSE conn
      /\ AddLog(IF alive THEN "INFO" ELSE "ERROR")
      /\ UNCHANGED <<active, profiles, favorites, killSwitch, prompt, viewVars, prefVars, logView>>

\* toggleFavorite.
PressFavorite ==
    \E c \in Controls(nav) :
      /\ c.op = "favorite" /\ Step(c)
      /\ favorites' = IF c.profile \in favorites THEN favorites \ {c.profile} ELSE favorites \cup {c.profile}
      /\ UNCHANGED <<conn, health, active, profiles, killSwitch, prompt, viewVars, prefVars, logVars, logView>>

\* profiles.filter: no two profiles have the same id.
Without(p) == RemoveAt(profiles, CHOOSE i \in DOMAIN profiles : profiles[i] = p)

\* deleteProfile: the next active profile is the first of the list as it was, so
\* deleting the first, active profile leaves its id behind.
PressDelete ==
    \E c \in Controls(nav) :
      /\ c.op = "delete" /\ Step(c)
      /\ profiles' = Without(c.profile)
      /\ active' = IF active = c.profile THEN Head(profiles) ELSE active
      /\ favorites' = favorites \ {c.profile}
      /\ AddLog("WARN")
      /\ UNCHANGED <<conn, health, killSwitch, prompt, viewVars, prefVars, logView>>

\* Mutant: the spotlight's command steps down to "standard".
PressKillSwitchStandard ==
    \E c \in Controls(nav) :
      /\ c.op = "kill_switch" /\ Step(c)
      /\ SetKillSwitch(IF nav.spotlight THEN IF killSwitch = "strict" THEN "standard" ELSE "strict"
                       ELSE IF killSwitch # "off" THEN "off" ELSE "strict")
      /\ SpotlightCloses
      /\ UNCHANGED <<conn, health, active, profiles, favorites, prompt, query, lib, width, pane, prefVars, logView>>

\* The switch of the security view and the command of the spotlight would differ
\* on "standard": the one turns it off, the other makes it strict.
PressKillSwitch ==
    \E c \in Controls(nav) :
      /\ c.op = "kill_switch" /\ Step(c)
      /\ SetKillSwitch(IF nav.spotlight THEN IF killSwitch = "strict" THEN "off" ELSE "strict"
                       ELSE IF killSwitch # "off" THEN "off" ELSE "strict")
      /\ SpotlightCloses
      /\ UNCHANGED <<conn, health, active, profiles, favorites, prompt, query, lib, width, pane, prefVars, logView>>

\* Navigation: a tab, the spotlight, the mini widget.
PressNav ==
    \E c \in Controls(nav) :
      /\ c.op \in {"tab", "spotlight", "close_spotlight", "compact", "expand"} /\ Step(c)
      /\ Show(CASE c.op = "tab" -> [nav EXCEPT !.tab = c.tab, !.spotlight = FALSE]
                [] c.op = "spotlight" -> [nav EXCEPT !.spotlight = TRUE]
                [] c.op = "close_spotlight" -> [nav EXCEPT !.spotlight = FALSE]
                [] c.op = "compact" -> [nav EXCEPT !.compact = TRUE]
                [] c.op = "expand" -> [nav EXCEPT !.compact = FALSE])
      /\ UNCHANGED <<storeVars, width, settings, saved, autostart, logVars, logView>>

\* Mutant: what is typed goes to the active profile.
ConfirmPromptActive ==
    \E c \in Controls(nav) :
      /\ c.op = "confirm" /\ Step(c)
      /\ LET p == active
         IN  IF conn \in {"connecting", "connected"} THEN UNCHANGED <<conn, active, logVars>>
             ELSE conn' = "connecting" /\ active' = p /\ AddLog("INFO")
      /\ prompt' = 0
      /\ UNCHANGED <<health, profiles, favorites, killSwitch, viewVars, prefVars, logView>>

\* ConnectMfaModal is confirmed: onConfirm connects its profile, onClose ends it.
ConfirmPrompt ==
    \E c \in Controls(nav) :
      /\ c.op = "confirm" /\ Step(c)
      /\ LET p == IF prompt \in ToSet(profiles) THEN prompt ELSE Head(profiles)
         IN  IF conn \in {"connecting", "connected"} THEN UNCHANGED <<conn, active, logVars>>
             ELSE conn' = "connecting" /\ active' = p /\ AddLog("INFO")
      /\ prompt' = 0
      /\ UNCHANGED <<health, profiles, favorites, killSwitch, viewVars, prefVars, logView>>

ClosePrompt ==
    \E c \in Controls(nav) :
      /\ c.op = "close_prompt" /\ Step(c)
      /\ prompt' = 0
      /\ UNCHANGED <<conn, health, active, profiles, favorites, killSwitch, viewVars, prefVars, logVars, logView>>

\* Ctrl+K; the listener is there unless the mini widget is.
SpotlightKey ==
    /\ ~nav.compact /\ Step(Open("ctrl_k"))
    /\ nav' = [nav EXCEPT !.spotlight = ~@]
    /\ UNCHANGED <<storeVars, query, lib, width, pane, prefVars, logVars, logView>>

\* Typing into the spotlight; its text stays when it is closed.
TypeQuery ==
    /\ ~nav.compact /\ nav.spotlight /\ Tweak(Open("type"))
    /\ \E text \in {"", "text"} \ {query} : query' = text
    /\ UNCHANGED <<storeVars, nav, lib, width, pane, prefVars, logVars, logView>>

\* No modal is open over the tab.
At(tab) == ~nav.compact /\ nav.tab = tab /\ ~nav.spotlight /\ prompt = 0

\* The search field, the filter pills and the view switch of the library.
ChangeLibrary ==
    /\ At("profiles") /\ Tweak(Open("library"))
    /\ \/ \E text \in {"", "text"} : lib' = [lib EXCEPT !.search = text]
       \/ \E f \in {"all", "favorites", "openvpn", "wireguard"} : lib' = [lib EXCEPT !.filter = f]
       \/ width # "phone" /\ \E m \in {"grid", "table"} : lib' = [lib EXCEPT !.mode = m]
    /\ lib' # lib
    /\ UNCHANGED <<storeVars, nav, query, width, pane, prefVars, logVars, logView>>

-----------------------------------------------------------------------------
(***************************************************************************)
(* The console                                                             *)
(***************************************************************************)
\* Level, search, auto-scroll; the last two are offered by the dashboard, too.
ChangeLogView ==
    /\ Tweak(Open("log_view"))
    /\ \/ At("logs") /\ \E l \in Levels \cup {"ALL"} : logView' = [logView EXCEPT !.level = l]
       \/ At("logs") /\ \E l \in Levels \cup {""} : logView' = [logView EXCEPT !.search = l]
       \/ (At("logs") \/ At("dashboard")) /\ logView' = [logView EXCEPT !.auto = ~@]
    /\ logView' # logView
    /\ UNCHANGED <<storeVars, viewVars, prefVars, logVars>>

\* The button of an empty console whose filter hides every entry.
ResetFilters ==
    /\ At("logs") /\ FilteredLogs = <<>> /\ logs # <<>> /\ Step(Open("reset_filters"))
    /\ logView' = [logView EXCEPT !.level = "ALL", !.search = ""]
    /\ UNCHANGED <<storeVars, viewVars, prefVars, logVars>>

\* clearLogs; the console's button is disabled when there is nothing to clear.
ClearLogs ==
    /\ (At("logs") /\ logs # <<>>) \/ At("dashboard")
    /\ Tweak(Open("clear"))
    /\ logs' = <<>> /\ cleared' = written
    /\ UNCHANGED <<storeVars, viewVars, prefVars, written, logView>>

\* The test event: not on a phone or a tablet, unless the log is empty.
TestEvent ==
    /\ At("logs") /\ (width \notin UpTo("medium") \/ logs = <<>>)
    /\ Tweak(Open("test_event"))
    /\ AddLog("INFO")
    /\ UNCHANGED <<storeVars, viewVars, prefVars, logView>>

-----------------------------------------------------------------------------
(***************************************************************************)
(* The settings view and the autostart of the operating system             *)
(***************************************************************************)
\* handleToggleAutoLaunch: the setting changes at once, the system later.
ToggleAutoLaunch ==
    /\ At("settings") /\ Tweak(Open("auto_launch"))
    /\ UpdateAppSettings([settings EXCEPT !.autoLaunch = ~@])
    /\ osCalls' = osCalls \cup {[op |-> IF settings.autoLaunch THEN "disable" ELSE "enable", seen |-> FALSE]}
    /\ UNCHANGED <<storeVars, viewVars, autostart, logView>>

\* The other switches and the language.
ChangeSetting ==
    /\ At("settings") /\ Tweak(Open("setting"))
    /\ \/ UpdateAppSettings([settings EXCEPT !.autoReconnect = ~@])
       \/ \E l \in {"en", "fr"} \ {settings.language} : UpdateAppSettings([settings EXCEPT !.language = l])
    /\ UNCHANGED <<storeVars, viewVars, autostart, osCalls, logView>>

\* handleResetDefaults leaves the system's autostart as it is.
ResetDefaults ==
    /\ At("settings") /\ Tweak(Open("reset"))
    /\ UpdateAppSettings(DefaultSettings)
    /\ UNCHANGED <<storeVars, viewVars, autostart, osCalls, logView>>

\* A call ends: either kind may fail; a query compares with what it saw.
OsCallEnds ==
    \E call \in osCalls :
      /\ osCalls' = osCalls \ {call}
      /\ CASE call.op = "query" ->
                \/ /\ autostart # call.seen
                   /\ UpdateAppSettings([settings EXCEPT !.autoLaunch = autostart])
                   /\ UNCHANGED autostart
                \/ UNCHANGED <<settings, saved, autostart, logVars>>
           [] OTHER -> /\ autostart' \in {autostart, call.op = "enable"}
                       /\ UNCHANGED <<settings, saved, logVars>>
      /\ did' = Open("event")
      /\ UNCHANGED <<storeVars, viewVars, logView, acts, tweaks>>

-----------------------------------------------------------------------------
(***************************************************************************)
(* The split pane                                                          *)
(***************************************************************************)
\* handleToggleCollapse: the sidebar's button, Ctrl+B, a double click.
ToggleCollapse ==
    /\ ~nav.compact /\ width # "phone" /\ Tweak(Open("collapse"))
    /\ pane' = [pane EXCEPT !.collapsed = ~@]
    /\ saved' = [saved EXCEPT !.collapsed = ~pane.collapsed]
    /\ UNCHANGED <<storeVars, nav, query, lib, width, settings, autostart, osCalls, logVars, logView>>

\* Mutant: the sidebar that a drag opens is not remembered as open.
DragStartUnsaved ==
    /\ ~nav.compact /\ width \notin UpTo("small") /\ ~pane.dragging /\ Tweak(Open("grab"))
    /\ pane' = [pane EXCEPT !.dragging = TRUE, !.collapsed = FALSE]
    /\ UNCHANGED <<storeVars, nav, query, lib, width, settings, saved, autostart, osCalls, logVars, logView>>

\* handleMouseDown on the splitter: a collapsed sidebar opens.
DragStart ==
    /\ ~nav.compact /\ width \notin UpTo("small") /\ ~pane.dragging /\ Tweak(Open("grab"))
    /\ pane' = [pane EXCEPT !.dragging = TRUE, !.collapsed = FALSE]
    /\ saved' = [saved EXCEPT !.collapsed = FALSE]
    /\ UNCHANGED <<storeVars, nav, query, lib, width, settings, autostart, osCalls, logVars, logView>>

\* handleMouseMove: clamped, then saved.
DragMove ==
    /\ ~nav.compact /\ pane.dragging
    /\ did' = Open("drag") /\ UNCHANGED <<acts, tweaks>>
    /\ \E x \in DragTo :
         LET w == IF x < MinWidth THEN MinWidth ELSE IF x > MaxWidth THEN MaxWidth ELSE x
         IN  pane' = [pane EXCEPT !.width = w] /\ saved' = [saved EXCEPT !.width = w]
    /\ UNCHANGED <<storeVars, nav, query, lib, width, settings, autostart, osCalls, logVars, logView>>

\* handleMouseUp.
DragEnd ==
    /\ ~nav.compact /\ pane.dragging
    /\ pane' = [pane EXCEPT !.dragging = FALSE]
    /\ did' = Open("drop")
    /\ UNCHANGED <<storeVars, nav, query, lib, width, prefVars, logVars, logView, acts, tweaks>>

-----------------------------------------------------------------------------
(***************************************************************************)
(* What happens to the window                                              *)
(***************************************************************************)
\* The window is resized.
Resize ==
    /\ Tweak(Open("resize"))
    /\ \E w \in ToSet(Widths) \ {width} : width' = w
    /\ UNCHANGED <<storeVars, nav, query, lib, pane, prefVars, logVars, logView>>

\* onTrayToggle.
TrayToggle ==
    /\ IF conn = "connected" \/ Linking
       THEN Step(Control("disconnect", ActiveProfile)) /\ Disconnect /\ UNCHANGED <<active, prompt>>
       ELSE Step(Control("connect", ActiveProfile)) /\ Connect(active, <<>>)
    /\ UNCHANGED <<health, profiles, favorites, killSwitch, viewVars, prefVars, logView>>

\* handleOnline: the network is back.
NetworkOnline ==
    /\ settings.autoReconnect /\ active # 0 /\ conn \notin {"connected", "connecting"}
    /\ Step(Control("connect", ActiveProfile))
    /\ Connect(active, <<"INFO">>)
    /\ UNCHANGED <<health, profiles, favorites, killSwitch, viewVars, prefVars, logView>>

\* The store's state changes: a poll, an answer, the daemon gone or back.
OnVpnStatus ==
    /\ Step(Open("event"))
    /\ \E s \in States \ {conn} :
         /\ conn' = s
         /\ CASE s = "error" -> AddLog("ERROR")
              [] s = "connected" \/ (s = "disconnected" /\ conn \in {"connected", "connecting", "disconnecting"})
                   -> AddLog("INFO")
              [] OTHER -> UNCHANGED logVars
    /\ UNCHANGED <<health, active, profiles, favorites, killSwitch, prompt, viewVars, prefVars, logView>>

OnDaemonStatus ==
    /\ Step(Open("event"))
    /\ \E h \in {"connected", "offline"} \ {health} : health' = h
    /\ IF health' = "offline" /\ conn \in {"connected", "connecting"}
       THEN conn' = "error" /\ AddLog("ERROR") ELSE UNCHANGED <<conn, logVars>>
    /\ UNCHANGED <<active, profiles, favorites, killSwitch, prompt, viewVars, prefVars, logView>>

\* The application is started again: getSavedAppSettings, SplitPaneLayout's first
\* state and loadStorage, which takes the first favourite, or else the first
\* profile, for the active one; what is not stored is lost.
Reload ==
    /\ Step(Open("reload"))
    /\ conn' = "disconnected" /\ health' = "connected" /\ prompt' = 0
    /\ \/ profiles = <<>> /\ active' = 0
       \/ \E i \in DOMAIN profiles :
            /\ IF favorites \cap ToSet(profiles) = {} THEN i = 1
               ELSE profiles[i] \in favorites /\ \A j \in 1..(i - 1) : profiles[j] \notin favorites
            /\ active' = profiles[i]
    /\ nav' = FreshNav /\ query' = "" /\ lib' = FreshLib
    /\ pane' = PaneFrom(saved)
    /\ settings' = saved.settings
    /\ osCalls' = {}
    /\ logs' = <<>> /\ cleared' = written
    /\ logView' = [level |-> "ALL", search |-> "", auto |-> TRUE]
    /\ UNCHANGED <<profiles, favorites, killSwitch, width, saved, autostart, written>>

-----------------------------------------------------------------------------
Next ==
    \/ PressConnect \/ PressDisconnect \/ PressRetry \/ PressFavorite \/ PressDelete
    \/ PressKillSwitch \/ PressNav \/ ConfirmPrompt \/ ClosePrompt
    \/ SpotlightKey \/ TypeQuery \/ ChangeLibrary
    \/ ChangeLogView \/ ResetFilters \/ ClearLogs \/ TestEvent
    \/ ToggleAutoLaunch \/ ChangeSetting \/ ResetDefaults \/ OsCallEnds
    \/ ToggleCollapse \/ DragStart \/ DragMove \/ DragEnd
    \/ Resize \/ TrayToggle \/ NetworkOnline \/ OnVpnStatus \/ OnDaemonStatus \/ Reload

Spec == Init /\ [][Next]_vars

-----------------------------------------------------------------------------
(***************************************************************************)
(* Properties                                                              *)
(***************************************************************************)
SettingsType == [autoLaunch : BOOLEAN, autoReconnect : BOOLEAN, language : {"en", "fr"}]

\* Type invariant.
TypeOK ==
    /\ conn \in States /\ health \in {"connected", "offline"}
    /\ profiles \in Seq(ToSet(InitialProfiles)) /\ favorites \subseteq ToSet(profiles)
    /\ active \in ToSet(InitialProfiles) \cup {0}
    /\ prompt \in ToSet(profiles) \cup {0}
    /\ killSwitch \in {"off", "standard", "strict"}
    /\ nav \in [tab : Tabs, compact : BOOLEAN, spotlight : BOOLEAN]
    /\ query \in {"", "text"} /\ width \in ToSet(Widths)
    /\ lib \in [search : {"", "text"}, filter : {"all", "favorites", "openvpn", "wireguard"},
                mode : {"grid", "table"}]
    /\ pane \in [width : MinWidth..MaxWidth, collapsed : BOOLEAN, dragging : BOOLEAN]
    /\ settings \in SettingsType
    /\ saved \in [width : Nat, collapsed : BOOLEAN, settings : SettingsType]
    /\ autostart \in BOOLEAN
    /\ osCalls \subseteq [op : {"query", "enable", "disable"}, seen : BOOLEAN]
    /\ logs \in Seq([id : 1..written, level : Levels])
    /\ written \in Nat /\ cleared \in 0..written
    /\ logView \in [level : Levels \cup {"ALL"}, search : Levels \cup {""}, auto : BOOLEAN]

\* A connection attempt that a control starts is for the profile this control
\* names (the hero, the mini widget, the tray and the network adapter name the
\* profile shown as the active one), through deletions that leave activeProfileId
\* pointing nowhere and prompts that come in between (connect, deleteProfile,
\* AppShell's onConfirm).
ConnectsWhatItShows ==
    [][conn # "connecting" /\ conn' = "connecting" /\ did'.op \in {"connect", "confirm"}
         => active' = did'.profile]_vars

\* The screens one press of a control for navigation away from n.
After(n) ==
    {CASE c.op = "tab" -> [n EXCEPT !.tab = c.tab, !.spotlight = FALSE]
       [] c.op = "expand" -> [n EXCEPT !.compact = FALSE]
       [] c.op = "close_spotlight" -> [n EXCEPT !.spotlight = FALSE]
       [] OTHER -> n : c \in Controls(n)}

\* While the daemon answers and a tunnel is up, being built or coming back, the
\* user can stop it: at most three presses from wherever the window is - its
\* width, view, mini widget, spotlight, filters - there is a control that calls
\* disconnect, unless the password prompt has to be answered first.
StopWithinReach ==
    health = "connected" /\ (conn = "connected" \/ Linking) /\ prompt = 0
      => \E n1 \in After(nav) : \E n2 \in After(n1) :
           \E c \in Controls(nav) \cup Controls(n1) \cup Controls(n2) : c.op = "disconnect"

\* What the window claims at one time is one story, although its parts decide each
\* for itself: the hero, the deck, the library and the mini widget name one profile
\* as connected, and the hero, the status bar and the security view agree on the
\* kill switch.  The last holds for what the controls reach, not for every mode the
\* store may hold: for "standard" the hero reads "Strict Lock" and the status bar
\* below it "AUTO DROPOUT" (HeroCockpitBanner, BottomStatusBar, SecurityHubView), so
\* it rests on no control of the window ever setting that mode.
OneStory ==
    LET facts == Facts(nav)
    IN  /\ \A f, g \in facts : f[1] = g[1] /\ f[1] \in {"connected", "kill_switch"} => f = g
        /\ <<"kill_switch", "off">> \in facts => <<"kill_switch_enforced">> \notin facts
        /\ <<"kill_switch", "strict">> \in facts => <<"kill_switch_not_enforced">> \notin facts

\* The log holds the newest entries since it was cleared, in order and without a
\* gap, as many as the limit allows, the numbers on the console's level buttons add
\* up to it, and the dashboard shows its end (addLog, stats, recentLogs).
LogsAreNewest ==
    LET kept == IF written - cleared > LogCap THEN LogCap ELSE written - cleared
    IN  /\ Len(logs) = kept
        /\ \A i \in 1..kept : logs[i].id = written - kept + i
        /\ Stats("INFO") + Stats("WARN") + Stats("ERROR") = kept
        /\ Len(RecentLogs(RecentCap)) = (IF kept < RecentCap THEN kept ELSE RecentCap)

\* The console shows every entry that passes its filter once, strictly newest
\* first, under any filter and however the log was cut or cleared meanwhile; as
\* many as the chosen level's button says, and without a filter the whole log
\* down from the last entry written (filteredLogs, stats).
ConsoleShowsLog ==
    /\ \A k, l \in DOMAIN FilteredLogs : k < l => FilteredLogs[k].id > FilteredLogs[l].id
    /\ {FilteredLogs[k].id : k \in DOMAIN FilteredLogs} = {logs[i].id : i \in Matched}
    /\ logView.search = "" =>
        /\ Len(FilteredLogs) = (IF logView.level = "ALL" THEN Len(logs) ELSE Stats(logView.level))
        /\ logView.level = "ALL" /\ logs # <<>> => FilteredLogs[1].id = written

\* Starting the application again, and going to the mini widget and back, change
\* nothing of what the user has set: the sidebar and the settings, even in the
\* middle of a drag (SplitPaneLayout, updateAppSettings).
PreferencesSurvive ==
    [][did'.op \in {"reload", "compact", "expand"}
         => /\ settings' = settings
            /\ pane'.width = pane.width /\ pane'.collapsed = pane.collapsed]_vars
=============================================================================
