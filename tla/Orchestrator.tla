---------------------------- MODULE Orchestrator ----------------------------
(***************************************************************************)
(* DaemonOrchestrator, its StateManager, and the driver event bridges and  *)
(* monitor tasks it spawns (packages/daemon/src/core, src/engine).         *)
(*                                                                         *)
(* Requests of different IPC clients run concurrently on a multi-threaded  *)
(* runtime; every connect that reaches driver.start leaves a monitor task  *)
(* behind that outlives the request.  All of them share the state channel, *)
(* active_session, active_driver and the network manager.  An action ends  *)
(* where another task can observe or change what comes next: at an await,  *)
(* a mutex, or between the read and the store of the session state.        *)
(***************************************************************************)
EXTENDS Naturals, Sequences, FiniteSets

CONSTANTS
    Clients,      \* tasks that submit requests (GUI connection, exit path, ...)
    Disconnectors, \* those of them that submit disconnect requests
    MaxSessions,  \* bound on the connect attempts that reach driver.start
    Kinds,        \* drivers available: a subset of {"openvpn", "wireguard"}
    KillSwitches, \* kill-switch choices of the profiles: a subset of BOOLEAN
    Toggles,      \* kill-switch requests clients may send: a subset of BOOLEAN
    MaxRemotes,   \* addresses an OpenVPN session tries before it gives up
    Faults,       \* failures of the environment: a subset of FaultKinds
    NoSession     \* None

Sessions == 1..MaxSessions   \* connect attempts, numbered in order of their start

\* "proxy": the profile dials through a SOCKS5 or HTTP proxy, which may never answer.
FaultKinds == {"start", "wg_quick", "dial", "proxy", "pipeline"}

ASSUME SessionsAssumption == MaxSessions \in Nat
ASSUME ClientsAssumption == Clients \cap Sessions = {}
ASSUME DisconnectorsAssumption == Disconnectors \subseteq Clients
ASSUME NoSessionAssumption == NoSession \notin Sessions
ASSUME KindsAssumption == Kinds \subseteq {"openvpn", "wireguard"}
ASSUME KillSwitchesAssumption == KillSwitches \subseteq BOOLEAN
ASSUME TogglesAssumption == Toggles \subseteq BOOLEAN
ASSUME MaxRemotesAssumption == MaxRemotes \in Nat
ASSUME FaultsAssumption == Faults \subseteq FaultKinds

States == {"Disconnected", "Connecting", "Connected", "Reconnecting",
           "Disconnecting", "Error"}

VARIABLES
    state,          \* StateManager::state_tx, the watched session state
    session_start,  \* session_start_epoch_secs is set
    active_session, \* session described by active_session, or NoSession
    assigned_ip,    \* session whose address active_session carries, or NoSession
    active_driver,  \* session whose driver active_driver holds, or NoSession
    collecting,     \* MetricsCollector::is_running
    pc,             \* where each client task stands
    own,            \* the session a client task is starting or stopping
    pending,        \* state a task has validated but not stored yet
    started,        \* number of sessions started so far
    kind,           \* driver kind of each session
    engage,         \* kill-switch policy of each session's profile
    drv,            \* progress of each session's driver
    tried,          \* addresses an OpenVPN session has tried
    told,           \* what the driver has been told: "run", "stop" or "drop"
    provisioned,    \* sessions whose pushed configuration the driver holds
    chan,           \* driver events not yet received by the monitor
    mon,            \* where each session's monitor task stands
    goal,           \* state the monitor is bringing about
    view,           \* session whose pushed configuration the monitor copied
    tunnel,         \* NetworkManager: session of the tunnel context
    killSwitch      \* NetworkManager: kill switch engaged

stateVars  == <<state, session_start, pending>>
sharedVars == <<active_session, assigned_ip, active_driver, collecting>>
clientVars == <<pc, own>>
driverVars == <<started, kind, engage, drv, tried, told, provisioned>>
monVars    == <<mon, goal, view>>
netVars    == <<tunnel, killSwitch>>
vars == <<stateVars, sharedVars, clientVars, driverVars, chan, monVars, netVars>>

Tasks == Clients \cup Sessions   \* a session's monitor task is named after it

\* NetworkManager as its contract describes it; the host is clean exactly when
\* no tunnel context is remembered.
Net == INSTANCE NetworkContract WITH clean <- (tunnel = NoSession)

ClientPCs == {"idle", "c_trans", "c_store", "c_start", "c_session", "c_driver",
              "c_spawn", "c_fail", "c_failstore", "d_trans", "d_store", "d_take",
              "d_stop", "d_teardown", "d_clear", "d_final", "d_finalstore"}
MonPCs == {"none", "recv", "read", "ip", "setup", "trans", "store", "done"}
DrvStates == {"none", "dialing", "proxy", "handshake", "confirmed", "up", "fallback", "ended"}
Events == {"Connecting", "Connected", "Disconnected", "Fatal"}

TypeOK ==
    /\ state \in States
    /\ session_start \in BOOLEAN
    /\ pending \in [Tasks -> States \cup {"none"}]
    /\ active_session \in Sessions \cup {NoSession}
    /\ assigned_ip \in Sessions \cup {NoSession}
    /\ active_driver \in Sessions \cup {NoSession}
    /\ collecting \in BOOLEAN
    /\ pc \in [Clients -> ClientPCs]
    /\ own \in [Clients -> Sessions \cup {NoSession}]
    /\ started \in {0} \cup Sessions
    /\ kind \in [Sessions -> {"openvpn", "wireguard"}]
    /\ engage \in [Sessions -> BOOLEAN]
    /\ drv \in [Sessions -> DrvStates]
    /\ tried \in [Sessions -> 0..MaxRemotes]
    /\ told \in [Sessions -> {"run", "stop", "drop"}]
    /\ provisioned \subseteq Sessions
    /\ chan \in [Sessions -> Seq(Events)]
    /\ mon \in [Sessions -> MonPCs]
    /\ goal \in [Sessions -> Events \cup {"none"}]
    /\ view \in [Sessions -> Sessions \cup {NoSession}]
    /\ tunnel \in Sessions \cup {NoSession}
    /\ killSwitch \in BOOLEAN

Init ==
    /\ state = "Disconnected"
    /\ session_start = FALSE
    /\ pending = [t \in Tasks |-> "none"]
    /\ active_session = NoSession
    /\ assigned_ip = NoSession
    /\ active_driver = NoSession
    /\ collecting = FALSE
    /\ pc = [c \in Clients |-> "idle"]
    /\ own = [c \in Clients |-> NoSession]
    /\ started = 0
    /\ kind = [s \in Sessions |-> "openvpn"]
    /\ engage = [s \in Sessions |-> FALSE]
    /\ drv = [s \in Sessions |-> "none"]
    /\ tried = [s \in Sessions |-> 0]
    /\ told = [s \in Sessions |-> "run"]
    /\ provisioned = {}
    /\ chan = [s \in Sessions |-> <<>>]
    /\ mon = [s \in Sessions |-> "none"]
    /\ goal = [s \in Sessions |-> "none"]
    /\ view = [s \in Sessions |-> NoSession]
    /\ tunnel = NoSession
    /\ killSwitch = FALSE
-----------------------------------------------------------------------------
(* StateManager *)

is_valid_transition(from, to) ==
    <<from, to>> \in
        ({"Disconnected"} \X {"Connecting"})
        \cup ({"Connecting"} \X {"Connected", "Error", "Disconnecting", "Reconnecting"})
        \cup ({"Connected"} \X {"Reconnecting", "Disconnecting", "Error"})
        \cup ({"Reconnecting"} \X {"Connected", "Disconnecting", "Error"})
        \cup ({"Disconnecting"} \X {"Disconnected", "Error"})
        \cup ({"Error"} \X {"Disconnected", "Connecting", "Disconnecting"})

\* transition_to, first half: read the current state and decide.
TransitionNoop(new) == state = new
TransitionRefused(new) == state # new /\ ~is_valid_transition(state, new)
TransitionAccepted(t, new) ==
    /\ state # new
    /\ is_valid_transition(state, new)
    /\ pending' = [pending EXCEPT ![t] = new]

\* transition_to, second half: the store does not look at the state again.
TransitionStore(t) ==
    /\ state' = pending[t]
    /\ session_start' = IF pending[t] = "Connected" THEN TRUE
                        ELSE IF pending[t] = "Disconnected" THEN FALSE
                        ELSE session_start
    /\ pending' = [pending EXCEPT ![t] = "none"]

\* A task at pc "at" calls transition_to(new): a no-op and an accepted call
\* succeed, a refused one fails.
ClientTransition(c, at, new, store, ok, err) ==
    /\ pc[c] = at
    /\ \/ /\ TransitionNoop(new)
          /\ pc' = [pc EXCEPT ![c] = ok]
          /\ UNCHANGED pending
       \/ /\ TransitionRefused(new)
          /\ pc' = [pc EXCEPT ![c] = err]
          /\ UNCHANGED pending
       \/ /\ TransitionAccepted(c, new)
          /\ pc' = [pc EXCEPT ![c] = store]
    /\ UNCHANGED <<state, session_start, own>>

ClientStore(c, at, next) ==
    /\ pc[c] = at
    /\ TransitionStore(c)
    /\ pc' = [pc EXCEPT ![c] = next]
    /\ UNCHANGED own

Goto(c, at, next) ==
    /\ pc[c] = at
    /\ pc' = [pc EXCEPT ![c] = next]

\* disconnect keeps the active_driver mutex while driver.stop() runs.
DriverMutexFree == \A c \in Clients : pc[c] # "d_stop"
-----------------------------------------------------------------------------
(* DaemonOrchestrator::connect *)

\* Connects on their way to driver.start; bounds the number of sessions.
Reserved == {c \in Clients : pc[c] \in {"c_trans", "c_store", "c_start"}}

\* The entry check; a client that finds another state gets an error response.
ConnectCheck(c) ==
    /\ started + Cardinality(Reserved) + 1 \in Sessions
    /\ state \in {"Disconnected", "Error"}
    /\ Goto(c, "idle", "c_trans")
    /\ UNCHANGED <<own, stateVars, sharedVars, driverVars, chan, monVars, netVars>>

ConnectTransition(c) ==
    /\ ClientTransition(c, "c_trans", "Connecting", "c_store", "c_start", "idle")
    /\ UNCHANGED <<sharedVars, driverVars, chan, monVars, netVars>>

ConnectStore(c) ==
    /\ ClientStore(c, "c_store", "c_start")
    /\ UNCHANGED <<sharedVars, driverVars, chan, monVars, netVars>>

ConnectStarted(c, s, k, ks) ==
    /\ Goto(c, "c_start", "c_session")
    /\ own' = [own EXCEPT ![c] = s]
    /\ kind' = [kind EXCEPT ![s] = k]
    /\ engage' = [engage EXCEPT ![s] = ks]

\* OpenVpnDriver::start spawns the session and its bridge, which begins with
\* Connecting, and returns.
StartOpenVpn(s) ==
    /\ drv' = [drv EXCEPT ![s] = "dialing"]
    /\ chan' = [chan EXCEPT ![s] = <<"Connecting">>]
    /\ UNCHANGED provisioned

\* WireGuardDriver::start reports Connecting, runs wg-quick, reports Connected
\* whatever wg-quick answered, and drops its end of the event channel.
StartWireGuard(s) ==
    /\ \E d \in {"up"} \cup (IF "wg_quick" \in Faults THEN {"fallback"} ELSE {}) :
          drv' = [drv EXCEPT ![s] = d]
    /\ provisioned' = provisioned \cup {s}
    /\ chan' = [chan EXCEPT ![s] = <<"Connecting", "Connected">>]

\* driver.start of either driver; it may also fail.
ConnectStart(c) ==
    /\ started + 1 \in Sessions
    /\ \E k \in Kinds, ks \in KillSwitches :
         LET s == started + 1 IN
         /\ started' = s
         /\ \/ /\ "start" \in Faults
               /\ Goto(c, "c_start", "c_fail")
               /\ UNCHANGED <<own, kind, engage, drv, provisioned, chan>>
            \/ /\ k = "openvpn"
               /\ ConnectStarted(c, s, k, ks)
               /\ StartOpenVpn(s)
            \/ /\ k = "wireguard"
               /\ ConnectStarted(c, s, k, ks)
               /\ StartWireGuard(s)
    /\ UNCHANGED <<tried, told, stateVars, sharedVars, monVars, netVars>>

ConnectFail(c) ==
    /\ ClientTransition(c, "c_fail", "Error", "c_failstore", "idle", "idle")
    /\ UNCHANGED <<sharedVars, driverVars, chan, monVars, netVars>>

ConnectFailStore(c) ==
    /\ ClientStore(c, "c_failstore", "idle")
    /\ UNCHANGED <<sharedVars, driverVars, chan, monVars, netVars>>

\* OpenVPN's address is read with try_read, before the mutex is taken: it is
\* recorded with the new session only if the driver had it by then.
ConnectSetSession(c) ==
    /\ Goto(c, "c_session", "c_driver")
    /\ active_session' = own[c]
    /\ assigned_ip' \in IF kind[own[c]] = "wireguard" THEN {own[c]}
                        ELSE {NoSession} \cup ({own[c]} \cap provisioned)
    /\ UNCHANGED <<own, active_driver, collecting, stateVars, driverVars, chan,
                   monVars, netVars>>

\* Mutant: the replaced driver is leaked instead of dropped.
ConnectSetDriver_Leaked(c) ==
    /\ DriverMutexFree
    /\ Goto(c, "c_driver", "c_spawn")
    /\ active_driver' = own[c]
    /\ UNCHANGED <<own, active_session, assigned_ip, collecting, stateVars,
                   driverVars, chan, monVars, netVars>>

\* Mutant: a connect that a disconnect has overtaken returns early.
ConnectSetDriver_GivesUp(c) ==
    /\ DriverMutexFree
    /\ Goto(c, "c_driver", IF state = "Connecting" THEN "c_spawn" ELSE "idle")
    /\ active_driver' = own[c]
    /\ told' = [s \in Sessions |-> IF s = active_driver THEN "drop" ELSE told[s]]
    /\ UNCHANGED <<own, active_session, assigned_ip, collecting, stateVars, started,
                   kind, engage, drv, tried, provisioned, chan, monVars,
                   netVars>>

\* Storing the driver drops the one it replaces: an OpenVPN session notices
\* that its handle is gone, a WireGuard interface stays up.
ConnectSetDriver(c) ==
    /\ DriverMutexFree
    /\ Goto(c, "c_driver", "c_spawn")
    /\ active_driver' = own[c]
    /\ told' = [s \in Sessions |-> IF s = active_driver THEN "drop" ELSE told[s]]
    /\ UNCHANGED <<own, active_session, assigned_ip, collecting, stateVars, started,
                   kind, engage, drv, tried, provisioned, chan, monVars,
                   netVars>>

ConnectSpawn(c) ==
    /\ Goto(c, "c_spawn", "idle")
    /\ collecting' = TRUE
    /\ mon' = [mon EXCEPT ![own[c]] = "recv"]
    /\ own' = [own EXCEPT ![c] = NoSession]
    /\ UNCHANGED <<active_session, assigned_ip, active_driver, stateVars, driverVars,
                   chan, goal, view, netVars>>
-----------------------------------------------------------------------------
(* DaemonOrchestrator::disconnect; the daemon's exit path calls it too *)

\* In state Disconnected the request succeeds without doing anything.
DisconnectCheck(c) ==
    /\ c \in Disconnectors
    /\ state # "Disconnected"
    /\ Goto(c, "idle", "d_trans")
    /\ UNCHANGED <<own, stateVars, sharedVars, driverVars, chan, monVars, netVars>>

DisconnectTransition(c) ==
    /\ ClientTransition(c, "d_trans", "Disconnecting", "d_store", "d_take", "idle")
    /\ UNCHANGED <<sharedVars, driverVars, chan, monVars, netVars>>

DisconnectStore(c) ==
    /\ ClientStore(c, "d_store", "d_take")
    /\ UNCHANGED <<sharedVars, driverVars, chan, monVars, netVars>>

\* Mutant: without a driver the request returns early.
DisconnectTake_EarlyReturn(c) ==
    /\ DriverMutexFree
    /\ Goto(c, "d_take", IF active_driver = NoSession THEN "idle" ELSE "d_stop")
    /\ collecting' = FALSE
    /\ own' = [own EXCEPT ![c] = active_driver]
    /\ active_driver' = NoSession
    /\ UNCHANGED <<active_session, assigned_ip, stateVars, driverVars, chan, monVars,
                   netVars>>

\* metrics_collector.stop(), then take the driver out under its mutex.
DisconnectTake(c) ==
    /\ DriverMutexFree
    /\ Goto(c, "d_take", IF active_driver = NoSession THEN "d_teardown" ELSE "d_stop")
    /\ collecting' = FALSE
    /\ own' = [own EXCEPT ![c] = active_driver]
    /\ active_driver' = NoSession
    /\ UNCHANGED <<active_session, assigned_ip, stateVars, driverVars, chan, monVars,
                   netVars>>

\* Mutant: stop waits for the session to end before it queues the command.
DisconnectStop_Joins(c) ==
    /\ Goto(c, "d_stop", "d_teardown")
    /\ drv[own[c]] = "ended"
    /\ told' = [told EXCEPT ![own[c]] = "stop"]
    /\ own' = [own EXCEPT ![c] = NoSession]
    /\ UNCHANGED <<stateVars, sharedVars, started, kind, engage, drv, tried,
                   provisioned, chan, monVars, netVars>>

\* driver.stop(): OpenVPN queues a command for its session, WireGuard takes the
\* interface down.
DisconnectStop(c) ==
    /\ Goto(c, "d_stop", "d_teardown")
    /\ told' = [told EXCEPT ![own[c]] = "stop"]
    /\ drv' = [drv EXCEPT ![own[c]] = IF kind[own[c]] = "wireguard" THEN "ended" ELSE @]
    /\ own' = [own EXCEPT ![c] = NoSession]
    /\ UNCHANGED <<stateVars, sharedVars, started, kind, engage, tried,
                   provisioned, chan, monVars, netVars>>

DisconnectTeardown(c) ==
    /\ Goto(c, "d_teardown", "d_clear")
    /\ Net!Teardown
    /\ UNCHANGED <<own, stateVars, sharedVars, driverVars, chan, monVars>>

DisconnectClear(c) ==
    /\ Goto(c, "d_clear", "d_final")
    /\ active_session' = NoSession
    /\ assigned_ip' = NoSession
    /\ UNCHANGED <<own, active_driver, collecting, stateVars, driverVars, chan,
                   monVars, netVars>>

DisconnectFinal(c) ==
    /\ ClientTransition(c, "d_final", "Disconnected", "d_finalstore", "idle", "idle")
    /\ UNCHANGED <<sharedVars, driverVars, chan, monVars, netVars>>

DisconnectFinalStore(c) ==
    /\ ClientStore(c, "d_finalstore", "idle")
    /\ UNCHANGED <<sharedVars, driverVars, chan, monVars, netVars>>

\* SetKillSwitch request: one call under the network mutex.
RequestKillSwitch(c, enabled) ==
    /\ pc[c] = "idle"
    /\ Net!SetKillSwitch(enabled)
    /\ UNCHANGED <<stateVars, sharedVars, clientVars, driverVars, chan, monVars>>
-----------------------------------------------------------------------------
(* OpenVpnDriver's session task and event bridge.  The broadcast queue between
   the two preserves order, so they are one process, observed at the bridge. *)

Send(s, e) == chan' = [chan EXCEPT ![s] = Append(@, e)]

DriverStep(s, from, to) ==
    /\ kind[s] = "openvpn"
    /\ drv[s] \in from
    /\ drv' = [drv EXCEPT ![s] = to]
    /\ UNCHANGED <<stateVars, sharedVars, clientVars, started, kind, engage, told,
                   monVars, netVars>>

\* The next resolved address: no socket, or a pipeline that starts a handshake.
\* The engine's states up to PullingConfig all reach the daemon as Connecting.
DialFails(s) ==
    /\ "dial" \in Faults
    /\ tried[s] < MaxRemotes
    /\ DriverStep(s, {"dialing"}, "dialing")
    /\ tried' = [tried EXCEPT ![s] = @ + 1]
    /\ UNCHANGED <<chan, provisioned>>

Dial(s) ==
    /\ tried[s] < MaxRemotes
    /\ DriverStep(s, {"dialing"}, "handshake")
    /\ tried' = [tried EXCEPT ![s] = @ + 1]
    /\ Send(s, "Connecting")
    /\ UNCHANGED provisioned

\* Socks5Client and HttpConnectClient await the proxy's answers without a timeout,
\* and no command is read meanwhile.
DialProxy(s) ==
    /\ "proxy" \in Faults
    /\ tried[s] < MaxRemotes
    /\ DriverStep(s, {"dialing"}, "proxy")
    /\ tried' = [tried EXCEPT ![s] = @ + 1]
    /\ UNCHANGED <<chan, provisioned>>

ProxyConnects(s) ==
    /\ DriverStep(s, {"proxy"}, "handshake")
    /\ Send(s, "Connecting")
    /\ UNCHANGED <<tried, provisioned>>

ProxyRefuses(s) ==
    /\ DriverStep(s, {"proxy"}, "dialing")
    /\ UNCHANGED <<tried, chan, provisioned>>

\* Every address failed, or the proxy's own address does not parse.
AllRemotesFailed(s) ==
    /\ tried[s] = MaxRemotes \/ "proxy" \in Faults
    /\ DriverStep(s, {"dialing"}, "ended")
    /\ Send(s, "Fatal")
    /\ UNCHANGED <<tried, provisioned>>

\* PUSH_REPLY: the engine announces Connected before the network configuration,
\* and the bridge forwards the one before it stores the other.
HandshakeDone(s) ==
    /\ DriverStep(s, {"handshake"}, "confirmed")
    /\ Send(s, "Connected")
    /\ UNCHANGED <<tried, provisioned>>

NetworkConfigured(s) ==
    /\ DriverStep(s, {"confirmed"}, "up")
    /\ provisioned' = provisioned \cup {s}
    /\ UNCHANGED <<tried, chan>>

\* Any engine or transport error ends the pipeline without an event.
PipelineFails(s) ==
    /\ "pipeline" \in Faults
    /\ DriverStep(s, {"handshake", "up"}, "dialing")
    /\ UNCHANGED <<tried, provisioned, chan>>

\* Mutant: commands are read only once the tunnel is up.
ObeyStop_UpOnly(s) ==
    /\ told[s] = "stop"
    /\ DriverStep(s, {"up"}, "ended")
    /\ Send(s, "Disconnected")
    /\ UNCHANGED <<tried, provisioned>>

\* Commands are read inside the pipeline loop only.
ObeyStop(s) ==
    /\ told[s] = "stop"
    /\ DriverStep(s, {"handshake", "up"}, "ended")
    /\ Send(s, "Disconnected")
    /\ UNCHANGED <<tried, provisioned>>

HandleDropped(s) ==
    /\ told[s] = "drop"
    /\ DriverStep(s, {"handshake", "up"}, "ended")
    /\ UNCHANGED <<tried, provisioned, chan>>
-----------------------------------------------------------------------------
(* Monitor task: one per session *)

MonitorUnchanged == UNCHANGED <<clientVars, driverVars, active_session,
                                active_driver, collecting>>

\* The reported state that makes the monitor set the network up first.
NeedsSetup(e) == e = "Connected"

\* Receive an event; a state that is already current needs no work.
MonitorRecv(s) ==
    /\ mon[s] = "recv"
    /\ chan[s] # <<>>
    /\ chan' = [chan EXCEPT ![s] = Tail(@)]
    /\ \/ /\ Head(chan[s]) = state
          /\ UNCHANGED <<goal, mon>>
       \/ /\ Head(chan[s]) # state
          /\ goal' = [goal EXCEPT ![s] = Head(chan[s])]
          /\ mon' = [mon EXCEPT ![s] = IF NeedsSetup(Head(chan[s])) THEN "read"
                                       ELSE "trans"]
    /\ MonitorUnchanged
    /\ UNCHANGED <<view, stateVars, assigned_ip, netVars>>

\* The sender is gone and the channel is drained.
MonitorEnd(s) ==
    /\ mon[s] = "recv"
    /\ chan[s] = <<>>
    /\ kind[s] = "wireguard" \/ drv[s] = "ended"
    /\ mon' = [mon EXCEPT ![s] = "done"]
    /\ MonitorUnchanged
    /\ UNCHANGED <<goal, view, chan, stateVars, assigned_ip, netVars>>

\* Copy what whichever driver is active now holds.
MonitorReadDriver(s) ==
    /\ mon[s] = "read"
    /\ DriverMutexFree
    /\ view' = [view EXCEPT ![s] = IF active_driver \in provisioned
                                   THEN active_driver ELSE NoSession]
    /\ mon' = [mon EXCEPT ![s] = "ip"]
    /\ MonitorUnchanged
    /\ UNCHANGED <<goal, chan, stateVars, assigned_ip, netVars>>

MonitorSetIp(s) ==
    /\ mon[s] = "ip"
    /\ assigned_ip' = IF active_session # NoSession /\ view[s] # NoSession
                      THEN view[s] ELSE assigned_ip
    /\ mon' = [mon EXCEPT ![s] = "setup"]
    /\ MonitorUnchanged
    /\ UNCHANGED <<goal, view, chan, stateVars, netVars>>

MonitorSetup(s) ==
    /\ mon[s] = "setup"
    /\ Net!Setup(s, engage[s])
    /\ mon' = [mon EXCEPT ![s] = "trans"]
    /\ view' = [view EXCEPT ![s] = NoSession]
    /\ MonitorUnchanged
    /\ UNCHANGED <<goal, chan, stateVars, assigned_ip>>

\* transition_to, its result ignored; a fatal error ends the task.
MonitorLoop(s) ==
    /\ mon' = [mon EXCEPT ![s] = IF goal[s] = "Fatal" THEN "done" ELSE "recv"]
    /\ goal' = [goal EXCEPT ![s] = "none"]

MonitorTransition(s) ==
    LET new == IF goal[s] = "Fatal" THEN "Error" ELSE goal[s] IN
    /\ mon[s] = "trans"
    /\ \/ /\ TransitionNoop(new) \/ TransitionRefused(new)
          /\ MonitorLoop(s)
          /\ UNCHANGED pending
       \/ /\ TransitionAccepted(s, new)
          /\ mon' = [mon EXCEPT ![s] = "store"]
          /\ UNCHANGED goal
    /\ MonitorUnchanged
    /\ UNCHANGED <<view, chan, state, session_start, assigned_ip, netVars>>

\* Mutant: a fatal error tears the network down.
MonitorStore_Teardown(s) ==
    /\ mon[s] = "store"
    /\ TransitionStore(s)
    /\ MonitorLoop(s)
    /\ IF goal[s] = "Fatal" THEN Net!Teardown ELSE UNCHANGED netVars
    /\ MonitorUnchanged
    /\ UNCHANGED <<view, chan, assigned_ip>>

MonitorStore(s) ==
    /\ mon[s] = "store"
    /\ TransitionStore(s)
    /\ MonitorLoop(s)
    /\ MonitorUnchanged
    /\ UNCHANGED <<view, chan, assigned_ip, netVars>>
-----------------------------------------------------------------------------
\* The steps of a request once it has been submitted.
ClientStep(c) ==
    \/ ConnectTransition(c) \/ ConnectStore(c) \/ ConnectStart(c)
    \/ ConnectFail(c) \/ ConnectFailStore(c)
    \/ ConnectSetSession(c) \/ ConnectSetDriver(c) \/ ConnectSpawn(c)
    \/ DisconnectTransition(c) \/ DisconnectStore(c) \/ DisconnectTake(c)
    \/ DisconnectStop(c) \/ DisconnectTeardown(c) \/ DisconnectClear(c)
    \/ DisconnectFinal(c) \/ DisconnectFinalStore(c)

ClientRequest(c) ==
    \/ ConnectCheck(c)
    \/ DisconnectCheck(c)
    \/ \E enabled \in Toggles : RequestKillSwitch(c, enabled)

MonitorStep(s) ==
    \/ MonitorRecv(s) \/ MonitorEnd(s) \/ MonitorReadDriver(s) \/ MonitorSetIp(s)
    \/ MonitorSetup(s) \/ MonitorTransition(s) \/ MonitorStore(s)

\* What the session does on its own account, whatever the network does.
SessionStep(s) ==
    \/ Dial(s) \/ DialFails(s) \/ DialProxy(s) \/ AllRemotesFailed(s)
    \/ NetworkConfigured(s) \/ ObeyStop(s) \/ HandleDropped(s)

NetworkStep(s) ==
    HandshakeDone(s) \/ PipelineFails(s) \/ ProxyConnects(s) \/ ProxyRefuses(s)

Next ==
    \/ \E c \in Clients : ClientRequest(c) \/ ClientStep(c)
    \/ \E s \in Sessions : SessionStep(s) \/ NetworkStep(s) \/ MonitorStep(s)

Spec == Init /\ [][Next]_vars

\* Tasks that can run are scheduled; users, proxies and the network owe nothing.
FairSpec ==
    /\ Spec
    /\ \A c \in Clients : WF_vars(ClientStep(c))
    /\ \A s \in Sessions : WF_vars(SessionStep(s)) /\ WF_vars(MonitorStep(s))
-----------------------------------------------------------------------------
(* Properties *)

\* The task of an OpenVPN session is running and nobody has told it to end.
Unattended(s) ==
    kind[s] = "openvpn" /\ drv[s] \notin {"none", "ended"} /\ told[s] = "run"

\* Client c has the driver of session s in its hands: not stored yet, or taken
\* out of active_driver to be stopped.
Holds(c, s) == own[c] = s /\ pc[c] \in {"c_session", "c_driver", "d_stop"}

\* No orphaned tunnel: whatever connects and disconnects overlap, a session that
\* has not been told to end is reachable, through active_driver or through a
\* request that is still holding its driver, so a disconnect can stop it.
NoOrphanedSession ==
    \A s \in Sessions :
        Unattended(s) => active_driver = s \/ \E c \in Clients : Holds(c, s)

\* A driver is in one place, and in none once it has been told to end: no two
\* disconnects stop the same session, and a connect that stores its driver late
\* drops the one stored before it and never its own.
OneHolder(s) ==
    /\ \A c, d \in Clients : Holds(c, s) /\ Holds(d, s) => c = d
    /\ \A c \in Clients : Holds(c, s) => active_driver # s
    /\ told[s] # "run" => active_driver # s /\ \A c \in Clients : ~Holds(c, s)

\* The events of a started session have a monitor, or a connect in flight that
\* will spawn it, even if a disconnect has stopped the session meanwhile.
Watched(s) ==
    drv[s] # "none" /\ mon[s] = "none" =>
        \E c \in Clients : own[c] = s /\ pc[c] \in {"c_session", "c_driver", "c_spawn"}

\* However connects and disconnects overlap, every session that driver.start
\* returned is handed on without being held twice and without losing its
\* monitor; StoppedSessionEnds and RequestsAnswered rest on it.
SessionsAccountedFor == \A s \in Sessions : OneHolder(s) /\ Watched(s)

\* The daemon never wedges in Disconnecting, a state from which connect is
\* refused: whatever requests, late events and half-done transitions interleave,
\* some disconnect that has still to store Disconnected is in flight.
DisconnectingHasOwner ==
    state = "Disconnecting" =>
        \E c \in Clients : pc[c] \in {"d_take", "d_stop", "d_teardown", "d_clear",
                                    "d_final", "d_finalstore"}

\* Fail-closed: a dropped tunnel, a fatal error, a fail-over or a state change
\* never lifts the kill switch; only teardown and an explicit request do.
FailClosed ==
    [][killSwitch /\ ~killSwitch' => UNCHANGED <<drv, chan, mon, state>>]_vars

\* A stopped session winds down: its task ends, its events are drained and its
\* monitor exits, so nothing is left that could act on a later session.  A session
\* that waits for a proxy for ever is the exception: it never reads its command.
StoppedSessionEnds ==
    \A s \in Sessions :
        []<>(drv[s] # "proxy") =>
            (told[s] = "stop" ~> drv[s] = "ended" /\ mon[s] = "done")

\* Every request is answered: no client waits forever on the driver mutex or on
\* another task.
RequestsAnswered == \A c \in Clients : pc[c] # "idle" ~> pc[c] = "idle"

\* All tasks are at rest: no request in flight and no event left to handle.
Quiescent ==
    /\ \A c \in Clients : pc[c] = "idle"
    /\ \A s \in Sessions : mon[s] \in {"none", "done"}

\* disconnect "rolls back all network state": once the daemon is at rest in
\* state Disconnected, no tunnel context and no kill switch remain.
DisconnectRollsBack ==
    Quiescent /\ state = "Disconnected" => tunnel = NoSession /\ ~killSwitch

(* Statements of the code's comments that the daemon does not keep; the README
   says under "Refuted without a run of its own" how TLC shows it. *)

\* The state machine is atomic and enforces its table: the stored state only
\* ever moves along is_valid_transition.
OnlyValidTransitions ==
    [][state' # state => is_valid_transition(state, state')]_vars

\* A monitor sets the network up from the configuration its own server pushed.
SetupUsesPushedConfig == \A s \in Sessions : mon[s] = "setup" => view[s] = s

\* The network is set up for tunnels that exist.
SetupOnlyEstablished == \A s \in Sessions : mon[s] = "setup" => drv[s] # "fallback"
=============================================================================
