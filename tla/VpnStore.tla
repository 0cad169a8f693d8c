------------------------------ MODULE VpnStore ------------------------------
(***************************************************************************)
(* The connection state of the desktop application.  useVpnStore keeps an  *)
(* optimistic copy of the daemon's state; its asynchronous operations      *)
(* (connect, disconnect, retryDaemonIpc, the resynchronisation after the   *)
(* daemon is back) go through the IPC client, and a worker polls the       *)
(* daemon and sends events that overwrite the copy.                        *)
(*                                                                         *)
(* What makes it hard: a command and its answer, a poll and its event take *)
(* time, and anything may happen in between; commands run concurrently in  *)
(* the back end and reach the daemon in any order; a request that times    *)
(* out leaves its answer in the stream, where the next request takes it    *)
(* for its own; and another instance of the application that quits tells   *)
(* the daemon to disconnect over a connection of its own.                  *)
(***************************************************************************)
EXTENDS Naturals, Sequences, FiniteSets

CONSTANTS
    Profiles,   \* the profiles, numbered from 1
    PasswordMode,\* profile -> "static", "dynamic_prompt" or "totp_auto"
    AutoConnect,\* appSettings.autoConnect
    MaxActs,    \* bound: what the user, the tray and the network adapter do
    MaxFaults,  \* bound: daemon crashes, request timeouts, other instances that quit
    MaxQueue,   \* bound: events on their way to the user interface
    MaxCalls    \* bound: operations under way when the next poll begins

ASSUME StoreAssumption ==
    /\ Profiles \subseteq Nat \ {0} /\ 1 \in Profiles
    /\ PasswordMode \in [Profiles -> {"static", "dynamic_prompt", "totp_auto"}]
    /\ AutoConnect \in BOOLEAN
    /\ MaxActs \in Nat /\ MaxFaults \in Nat /\ MaxQueue \in Nat /\ MaxCalls \in Nat

VARIABLES
    conn,       \* connectionState
    health,     \* daemonHealth
    active,     \* activeProfileId
    prompt,     \* mfaPromptProfile (0: none)
    typed,      \* the profile whose password is in the prompt's fields (0: empty)
    subscribed, \* loadStorage has filled the store and setupIpcSubscriptions has run
    timer,      \* the auto-connect timer is armed
    calls,      \* asynchronous operations under way
    daemon,     \* up, its session state, whether it has started a driver, and
                \* whether another connection is, or has been, disconnecting it
    unread,     \* answers left in the stream by requests that timed out
    worker,     \* the poll worker: the request it makes next, was_online
    events,     \* events on their way to the user interface
    acts, faults

uiVars == <<conn, health, active, prompt, typed, subscribed, timer>>
backVars == <<daemon, unread, worker, events>>
counters == <<acts, faults>>
vars == <<uiVars, calls, backVars, counters>>

States == {"disconnected", "connecting", "connected", "disconnecting", "reconnecting", "error"}

CallKinds == {"connect", "abort", "disconnect", "retry", "resync"}

\* Answers of the daemon (DaemonResponse).
Answer(type, state) == [type |-> type, state |-> state]
Success == Answer("success", "none")
Refused == Answer("error", "none")
Pong    == Answer("pong", "none")
Metrics == Answer("metrics", "none")

\* An asynchronous operation: `profile` and `pw` are those of a connect, `seen`
\* is the state a retry has read, `n` tells it from its like under way.
Call(n, kind, at, profile, pw, seen) ==
    [n |-> n, kind |-> kind, at |-> at, profile |-> profile, pw |-> pw, seen |-> seen,
     answer |-> Success]

\* The ping sent when the module is loaded has been answered.
Init ==
    /\ conn = "disconnected"
    /\ active = 1
    /\ prompt = 0 /\ typed = 0
    /\ subscribed = FALSE /\ timer = FALSE
    /\ calls = {}
    /\ daemon = [up |-> TRUE, state |-> "disconnected", started |-> FALSE, other |-> "none"]
    /\ health = "connected"
    /\ unread = <<>>
    /\ worker = [next |-> "ping", online |-> FALSE, first |-> TRUE]
    /\ events = <<>>
    /\ acts = 0 /\ faults = 0

-----------------------------------------------------------------------------
(***************************************************************************)
(* The asynchronous operations of the store, up to their first await       *)
(***************************************************************************)
NewCall(kind, at, profile, pw, seen) ==
    LET n == CHOOSE k \in 0..Cardinality(calls) : \A c \in calls : c.kind = kind => c.n # k
    IN  calls' = calls \cup {Call(n, kind, at, profile, pw, seen)}

\* Mutant: the fields keep what was typed for another profile.
ShowPromptKeepsFields(p) ==
    /\ prompt' = p
    /\ typed' = typed

\* The prompt appears or changes its profile: its effect empties the fields.
ShowPrompt(p) ==
    /\ prompt' = p
    /\ typed' = IF p = prompt THEN typed ELSE 0

\* connect(p), without a password of the user; its request is sent once a one-time
\* code is generated, if the profile has one, and before the storage is loaded
\* there is no profile to connect to.
ConnectProfile(p) ==
    IF ~subscribed \/ conn \in {"connecting", "connected"}
    THEN UNCHANGED <<conn, active, prompt, typed, calls>>
    ELSE IF PasswordMode[p] = "dynamic_prompt"
    THEN ShowPrompt(p) /\ UNCHANGED <<conn, active, calls>>
    ELSE /\ conn' = "connecting"
         /\ active' = p
         /\ NewCall("connect", "sent", p, 0, "none")
         /\ UNCHANGED <<prompt, typed>>

\* connect(prompt, password) when the prompt is confirmed; it closes in any case.
ConfirmPrompt ==
    IF conn \in {"connecting", "connected"}
    THEN UNCHANGED <<conn, active, calls>>
    ELSE /\ conn' = "connecting"
         /\ active' = prompt
         /\ NewCall("connect", "sent", prompt, typed, "none")

\* disconnect: from "connecting" the state changes before the request is sent.
DisconnectNow ==
    IF conn \in {"disconnected", "disconnecting"}
    THEN UNCHANGED <<conn, calls>>
    ELSE IF conn = "connecting"
    THEN conn' = "disconnected" /\ NewCall("abort", "sent", 0, 0, "none")
    ELSE conn' = "disconnecting" /\ NewCall("disconnect", "sent", 0, 0, "none")

-----------------------------------------------------------------------------
(***************************************************************************)
(* What the user, the tray, the network adapter and the start-up do        *)
(***************************************************************************)
Act == acts < MaxActs /\ acts' = acts + 1
NoModal == prompt = 0

\* A card, the deck, the spotlight, the mini widget or the hero button.
UserConnect(p) ==
    /\ Act /\ NoModal
    /\ ConnectProfile(p)
    /\ UNCHANGED <<health, subscribed, timer, backVars, faults>>

UserDisconnect ==
    /\ Act /\ NoModal
    /\ DisconnectNow
    /\ UNCHANGED <<health, active, prompt, typed, subscribed, timer, backVars, faults>>

\* The prompt: typing, confirming, closing.
TypePassword ==
    /\ prompt # 0
    /\ typed' = prompt
    /\ UNCHANGED <<conn, health, active, prompt, subscribed, timer, calls, backVars, counters>>

SubmitPrompt ==
    /\ prompt # 0
    /\ ConfirmPrompt
    /\ prompt' = 0 /\ typed' = 0
    /\ UNCHANGED <<health, subscribed, timer, backVars, counters>>

ClosePrompt ==
    /\ prompt # 0
    /\ prompt' = 0 /\ typed' = 0
    /\ UNCHANGED <<conn, health, active, subscribed, timer, calls, backVars, counters>>

\* onTrayToggle, whatever is on the screen.
TrayToggle ==
    /\ Act /\ subscribed
    /\ IF conn \in {"connected", "connecting", "reconnecting"}
       THEN DisconnectNow /\ UNCHANGED <<active, prompt, typed>>
       ELSE ConnectProfile(active)
    /\ UNCHANGED <<health, subscribed, timer, backVars, faults>>

\* handleOnline of AppShell, with autoReconnect on.
NetworkOnline ==
    /\ Act /\ conn \notin {"connected", "connecting"}
    /\ ConnectProfile(active)
    /\ UNCHANGED <<health, subscribed, timer, backVars, faults>>

\* retryDaemonIpc: the state it compares with later is the one of now.
RetryDaemonIpc ==
    /\ Act /\ NoModal /\ health = "offline"
    /\ NewCall("retry", "sent", 0, 0, conn)
    /\ UNCHANGED <<uiVars, backVars, faults>>

\* The end of loadStorage.
Subscribe ==
    /\ ~subscribed
    /\ subscribed' = TRUE
    /\ timer' = AutoConnect
    /\ UNCHANGED <<conn, health, active, prompt, typed, calls, backVars, counters>>

\* 600 ms later: connect, if still disconnected.
AutoConnectTimer ==
    /\ timer
    /\ timer' = FALSE
    /\ IF conn = "disconnected" THEN ConnectProfile(active)
       ELSE UNCHANGED <<conn, active, prompt, typed, calls>>
    /\ UNCHANGED <<health, subscribed, backVars, counters>>

-----------------------------------------------------------------------------
(***************************************************************************)
(* The IPC client: send_request.  The stream is locked from the request to *)
(* its answer, so a request is one step; what comes back is the oldest     *)
(* answer in the stream.                                                   *)
(***************************************************************************)
\* What the daemon may do with a request, and answer.  A driver may fail to start.
\* A disconnect fails when the state has moved between its own transitions: to
\* Disconnected by the driver or another disconnect, and on to Connecting by an
\* event of the driver that it stops.
Outcome(state, answer) == [state |-> state, answer |-> answer]
Handled(kind) ==
    CASE kind = "connect" /\ daemon.state \in {"disconnected", "error"} ->
            {Outcome("connecting", Success), Outcome("error", Refused)}
      [] kind = "connect" /\ daemon.state \notin {"disconnected", "error"} ->
            {Outcome(daemon.state, Refused)}
      [] kind \in {"abort", "disconnect"} /\ (daemon.state = "disconnected" \/ ~daemon.started) ->
            {Outcome("disconnected", Success)}
      [] kind \in {"abort", "disconnect"} /\ daemon.state # "disconnected" /\ daemon.started ->
            {Outcome("disconnected", Success), Outcome("disconnected", Refused), Outcome("connecting", Refused)}
      [] kind \in {"retry", "ping"} -> {Outcome(daemon.state, Pong)}
      [] OTHER -> {Outcome(daemon.state, Answer("status", daemon.state))}

\* The daemon in that state; it is Connecting only with a driver.
Moved(state) == [daemon EXCEPT !.state = state, !.started = @ \/ state = "connecting"]

\* The answer a request of this kind reads is `answer`.
Request(kind, answer) ==
    IF ~daemon.up
    THEN answer = Refused /\ unread' = <<>> /\ UNCHANGED daemon
    ELSE \E o \in Handled(kind) :
            /\ daemon' = Moved(o.state)
            /\ answer = Head(Append(unread, o.answer))
            /\ unread' = Tail(Append(unread, o.answer))

Answers == {Success, Refused, Pong, Metrics} \cup {Answer("status", s) : s \in States}

\* What was sent is of no interest any more.
Answered(c, answer) == [c EXCEPT !.at = "answered", !.answer = answer, !.profile = 0, !.pw = 0]

SendRequest(c) ==
    /\ c.at = "sent"
    /\ \E answer \in Answers :
         /\ Request(c.kind, answer)
         /\ calls' = (calls \ {c}) \cup {Answered(c, answer)}
    /\ UNCHANGED <<uiVars, worker, events, counters>>

\* The answer takes more than ten seconds: the caller gets an error, the
\* answer stays in the stream.
RequestTimesOut(c) ==
    /\ c.at = "sent" /\ daemon.up /\ unread = <<>> /\ faults < MaxFaults
    /\ \E o \in Handled(c.kind) : daemon' = Moved(o.state) /\ unread' = <<o.answer>>
    /\ calls' = (calls \ {c}) \cup {Answered(c, Refused)}
    /\ faults' = faults + 1
    /\ UNCHANGED <<uiVars, worker, events, acts>>

-----------------------------------------------------------------------------
(***************************************************************************)
(* The rest of the asynchronous operations                                 *)
(***************************************************************************)
Ends(c) == c.at = "answered" /\ calls' = calls \ {c}

ConnectReturns(c) ==
    /\ c.kind = "connect" /\ Ends(c)
    /\ conn' = IF c.answer = Refused THEN "error" ELSE conn
    /\ UNCHANGED <<health, active, prompt, typed, subscribed, timer, backVars, counters>>

\* Mutant: the catch branch does not set the state.
DisconnectReturnsKeepsState(c) ==
    /\ c.kind \in {"disconnect", "abort"} /\ Ends(c)
    /\ conn' = IF c.kind = "disconnect" /\ c.answer # Refused THEN "disconnected" ELSE conn
    /\ UNCHANGED <<health, active, prompt, typed, subscribed, timer, backVars, counters>>

\* Both branches of disconnect set the state; an abort leaves it alone.
DisconnectReturns(c) ==
    /\ c.kind \in {"disconnect", "abort"} /\ Ends(c)
    /\ conn' = IF c.kind = "disconnect" THEN "disconnected" ELSE conn
    /\ UNCHANGED <<health, active, prompt, typed, subscribed, timer, backVars, counters>>

RetryReturns(c) ==
    /\ c.kind = "retry" /\ Ends(c)
    /\ health' = IF c.answer = Pong THEN "connected" ELSE "offline"
    /\ conn' = IF c.answer = Pong /\ c.seen = "error" THEN "disconnected" ELSE conn
    /\ UNCHANGED <<active, prompt, typed, subscribed, timer, backVars, counters>>

\* getDaemonStatus().then: the state is set, whatever it is by now.
ResyncReturns(c) ==
    /\ c.kind = "resync" /\ Ends(c)
    /\ conn' = IF c.answer.type = "status" THEN c.answer.state ELSE conn
    /\ UNCHANGED <<health, active, prompt, typed, subscribed, timer, backVars, counters>>

-----------------------------------------------------------------------------
(***************************************************************************)
(* The poll worker and its events                                          *)
(***************************************************************************)
Emit(e) == events' = Append(events, e)

\* ping: a change of health is an event.
WorkerPing ==
    /\ worker.next = "ping" /\ Len(events) < MaxQueue /\ Cardinality(calls) < MaxCalls
    /\ \E answer \in Answers :
         LET alive == answer = Pong
         IN  /\ Request("ping", answer)
             /\ worker' = [next |-> IF alive THEN "status" ELSE "ping", online |-> alive, first |-> FALSE]
             /\ IF alive # worker.online \/ worker.first
                THEN Emit([kind |-> "health", state |-> IF alive THEN "connected" ELSE "offline"])
                ELSE UNCHANGED events
    /\ UNCHANGED <<uiVars, calls, counters>>

\* GetStatus and GetMetrics.  Whatever comes back is emitted; the store looks at
\* a status only, and what the metrics are for is not modelled here.
WorkerStatus ==
    /\ worker.next = "status" /\ Len(events) < MaxQueue
    /\ worker' = [worker EXCEPT !.next = "ping"]
    /\ IF ~daemon.up
       THEN unread' = <<>> /\ UNCHANGED events
       ELSE LET stream == unread \o <<Answer("status", daemon.state), Metrics>>
            IN  /\ unread' = Tail(Tail(stream))
                /\ IF Head(stream).type = "status"
                   THEN Emit([kind |-> "status", state |-> Head(stream).state])
                   ELSE UNCHANGED events
    /\ UNCHANGED <<uiVars, calls, daemon, counters>>

\* Mutant: only the health is updated.
OnDaemonStatusHealthOnly(bottomFirst) ==
    /\ events # <<>> /\ Head(events).kind = "health"
    /\ health' = Head(events).state
    /\ events' = Tail(events)
    /\ UNCHANGED <<conn, calls, active, prompt, typed, subscribed, timer, daemon, unread, worker, counters>>

\* daemon-status.  There are two listeners: the one registered at start-up sets
\* the health, and that of setupIpcSubscriptions also repairs the state; if the
\* former runs first, the latter finds the new health to be the old one.
OnDaemonStatus(bottomFirst) ==
    /\ events # <<>> /\ Head(events).kind = "health"
    /\ LET status == Head(events).state
           prevDaemon == IF bottomFirst THEN status ELSE health
       IN  /\ health' = status
           /\ IF subscribed /\ status = "offline" /\ conn \in {"connected", "connecting"}
              THEN conn' = "error" /\ UNCHANGED <<calls>>
              ELSE IF subscribed /\ status = "connected" /\ prevDaemon = "offline"
              THEN NewCall("resync", "sent", 0, 0, "none") /\ UNCHANGED conn
              ELSE UNCHANGED <<conn, calls>>
    /\ events' = Tail(events)
    /\ UNCHANGED <<active, prompt, typed, subscribed, timer, daemon, unread, worker, counters>>

\* Mutant: a poll does not overwrite an attempt the user has started.
OnVpnStatusKeepsConnecting ==
    /\ events # <<>> /\ Head(events).kind = "status"
    /\ conn' = IF subscribed /\ (conn = "connecting" => Head(events).state = "connected")
               THEN Head(events).state ELSE conn
    /\ events' = Tail(events)
    /\ UNCHANGED <<health, active, prompt, typed, subscribed, timer, calls, daemon, unread, worker, counters>>

\* vpn-status-update: the daemon's state replaces the store's.
OnVpnStatus ==
    /\ events # <<>> /\ Head(events).kind = "status"
    /\ conn' = IF subscribed THEN Head(events).state ELSE conn
    /\ events' = Tail(events)
    /\ UNCHANGED <<health, active, prompt, typed, subscribed, timer, calls, daemon, unread, worker, counters>>

-----------------------------------------------------------------------------
(***************************************************************************)
(* The daemon by itself                                                    *)
(***************************************************************************)
\* The monitor of a driver follows its events, those of a driver that is being
\* stopped included, where the state machine allows the transition.
DaemonMoves(state) ==
    /\ daemon.up /\ daemon.started
    /\ \/ state = "connecting" /\ daemon.state \in {"disconnected", "error"}
       \/ state = "connected" /\ daemon.state = "connecting"
       \/ state = "disconnected" /\ daemon.state \in {"disconnecting", "error"}
       \/ state = "error" /\ daemon.state \in {"connecting", "connected", "disconnecting"}
    /\ daemon' = [daemon EXCEPT !.state = state]
    /\ UNCHANGED <<uiVars, calls, unread, worker, events, counters>>

\* Another instance of the application quits: send_synchronous_disconnect, over a
\* connection of its own.  The polls of this one see the daemon disconnecting.
OtherDisconnect ==
    /\ daemon.up /\ daemon.other # "closing" /\ daemon.state # "disconnected"
    /\ faults < MaxFaults
    /\ daemon' = [daemon EXCEPT !.state = "disconnecting", !.other = "closing"]
    /\ faults' = faults + 1
    /\ UNCHANGED <<uiVars, calls, unread, worker, events, acts>>

\* That disconnect ends, unless the state has moved on.
OtherDisconnectEnds ==
    /\ daemon.other = "closing"
    /\ daemon' = [daemon EXCEPT !.state = IF @ \in {"disconnecting", "error"} THEN "disconnected" ELSE @,
                                !.other = "closed"]
    /\ UNCHANGED <<uiVars, calls, unread, worker, events, counters>>

DaemonDies ==
    /\ daemon.up /\ faults < MaxFaults
    /\ daemon' = [up |-> FALSE, state |-> "disconnected", started |-> FALSE,
                  other |-> IF daemon.other = "none" THEN "none" ELSE "closed"]
    /\ unread' = <<>>
    /\ faults' = faults + 1
    /\ UNCHANGED <<uiVars, calls, worker, events, acts>>

DaemonStarts ==
    /\ ~daemon.up
    /\ daemon' = [daemon EXCEPT !.up = TRUE]
    /\ UNCHANGED <<uiVars, calls, unread, worker, events, counters>>

-----------------------------------------------------------------------------
Returns(c) ==
    ConnectReturns(c) \/ DisconnectReturns(c) \/ RetryReturns(c) \/ ResyncReturns(c)

Poll == WorkerPing \/ WorkerStatus
Deliver == OnVpnStatus \/ \E first \in BOOLEAN : OnDaemonStatus(first)

Next ==
    \/ \E p \in Profiles : UserConnect(p)
    \/ UserDisconnect \/ TypePassword \/ SubmitPrompt \/ ClosePrompt
    \/ TrayToggle \/ NetworkOnline \/ RetryDaemonIpc
    \/ Subscribe \/ AutoConnectTimer
    \/ \E c \in calls : SendRequest(c) \/ RequestTimesOut(c) \/ Returns(c)
    \/ WorkerPing \/ WorkerStatus
    \/ Deliver
    \/ \E state \in States : DaemonMoves(state)
    \/ OtherDisconnect \/ OtherDisconnectEnds
    \/ DaemonDies \/ DaemonStarts

\* The worker polls every second, events are delivered, promises resolve, the
\* storage is loaded and its timer fires, and a disconnect of the daemon ends.
\* Nobody has to click anything.
Fairness ==
    /\ WF_vars(Poll) /\ WF_vars(Deliver)
    /\ WF_vars(Subscribe) /\ WF_vars(AutoConnectTimer)
    /\ WF_vars(OtherDisconnectEnds)
    /\ \A kind \in CallKinds :
         /\ WF_vars(\E c \in calls : c.kind = kind /\ SendRequest(c))
         /\ WF_vars(\E c \in calls : c.kind = kind /\ Returns(c))

Spec == Init /\ [][Next]_vars

\* Spec under that fairness.
FairSpec == Spec /\ Fairness

-----------------------------------------------------------------------------
(***************************************************************************)
(* Properties                                                              *)
(***************************************************************************)
\* An operation under way, and an event of either kind.
CallType ==
    [n : Nat, kind : CallKinds, at : {"sent", "answered"}, profile : Profiles \cup {0},
     pw : Profiles \cup {0}, seen : States \cup {"none"}, answer : Answers]
EventType ==
    [kind : {"health"}, state : {"connected", "offline"}] \cup [kind : {"status"}, state : States]

\* Type invariant.
TypeOK ==
    /\ conn \in States
    /\ health \in {"offline", "connected"}
    /\ active \in Profiles
    /\ prompt \in Profiles \cup {0} /\ typed \in Profiles \cup {0}
    /\ subscribed \in BOOLEAN /\ timer \in BOOLEAN
    /\ daemon \in [up : BOOLEAN, state : States, started : BOOLEAN, other : {"none", "closing", "closed"}]
    /\ unread \in Seq(Answers)
    /\ worker \in [next : {"ping", "status"}, online : BOOLEAN, first : BOOLEAN]
    /\ events \in Seq(EventType)
    /\ acts \in Nat /\ faults \in Nat
    /\ calls \subseteq CallType

\* A password typed into the prompt goes to the profile it was asked for, even
\* if the tray, the network adapter or the timer put another profile's prompt
\* in its place meanwhile (connect, AppShell's onConfirm, ConnectMfaModal).
PasswordGoesToItsProfile ==
    \A c \in calls : c.kind = "connect" /\ c.pw # 0 => c.pw = c.profile

\* If the daemon stays up in one state and the stream to it is in step, the user
\* interface ends up showing that state, whatever stale polls, late answers and
\* lost races came before.
UiFollowsDaemon ==
    \A s \in States :
        <>[](daemon.up /\ daemon.state = s /\ unread = <<>>) => <>[](conn = s)

\* If the daemon is gone for good, having been online for the poll worker, the
\* interface does not go on showing a tunnel, or the attempt to build or rebuild
\* one.  Two daemons are left out, because nothing tells the store of their end:
\* one that lived so briefly that no poll saw it, and one whose last answer to a
\* resynchronisation returns after the news of its death.  The listener for
\* daemon-status leaves "reconnecting" alone; the daemon never reports that state.
NoGhostTunnel ==
    [](/\ ~daemon.up /\ worker.online
       /\ ~ \E c \in calls : c.kind = "resync" /\ c.at = "answered"
       => <>daemon.up \/ <>[](conn \notin {"connected", "connecting", "reconnecting"}))

\* While the store shows "disconnecting", which disables the button of the hero,
\* the disconnect that will reset it is under way: no late event, answer or
\* resynchronisation brings the state back after that disconnect has returned,
\* unless another instance of the application has had the daemon disconnect.
DisconnectingIsAwaited ==
    daemon.other = "none" /\ conn = "disconnecting" => \E c \in calls : c.kind = "disconnect"

\* The button of the hero is disabled while disconnecting.  That ends: with the
\* application's own disconnect in any case, and otherwise, the state having come
\* from another instance's disconnect, if the daemon and the stream to it last.
DisconnectingEnds ==
    /\ conn = "disconnecting" /\ (\E c \in calls : c.kind = "disconnect") ~> conn # "disconnecting"
    /\ <>[](daemon.up /\ unread = <<>>) => (conn = "disconnecting" ~> conn # "disconnecting")
=============================================================================
