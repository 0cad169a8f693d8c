------------------------- MODULE OrchestratorProofs -------------------------
(***************************************************************************)
(* What DaemonOrchestrator guarantees for any number of concurrent clients *)
(* and connect attempts, of either driver kind.                            *)
(***************************************************************************)
EXTENDS Orchestrator, TLAPS

\* A task that is about to store a state has validated one that fits the request
\* it serves, and a monitor at work has a goal.
TasksInStep ==
    /\ \A c \in Clients :
          /\ pc[c] = "c_store" => pending[c] = "Connecting"
          /\ pc[c] = "c_failstore" => pending[c] = "Error"
          /\ pc[c] = "d_store" => pending[c] = "Disconnecting"
          /\ pc[c] = "d_finalstore" => pending[c] = "Disconnected"
    /\ \A s \in Sessions :
          /\ mon[s] = "store" => pending[s] \in States \ {"Disconnecting"}
          /\ mon[s] \in {"read", "ip", "setup", "trans", "store"} => goal[s] \in Events

\* The inductive core of every proof below.
Core == TypeOK /\ TasksInStep

\* transition_to called by a client: what is validated fits the store that follows.
LEMMA ClientTransitionCore ==
    ASSUME Core, NEW c \in Clients, NEW at, NEW new \in States,
           NEW store, NEW ok \in {"idle", "c_start", "d_take"}, NEW err \in {"idle"},
           <<store, new>> \in {<<"c_store", "Connecting">>, <<"c_failstore", "Error">>,
                               <<"d_store", "Disconnecting">>,
                               <<"d_finalstore", "Disconnected">>},
           ClientTransition(c, at, new, store, ok, err),
           UNCHANGED <<sharedVars, driverVars, chan, monVars, netVars>>
    PROVE  Core'
<1>1. c \in Tasks /\ \A s \in Sessions : s \in Tasks /\ s # c
  BY ClientsAssumption DEF Tasks
<1>2. PICK p \in {store, ok, err} : pc' = [pc EXCEPT ![c] = p]
  BY DEF ClientTransition
<1>3. /\ pc' \in [Clients -> ClientPCs]
      /\ pending' \in [Tasks -> States \cup {"none"}]
  BY <1>1, <1>2 DEF Core, TypeOK, ClientPCs, ClientTransition, TransitionAccepted
<1>4. UNCHANGED <<state, session_start, own>>
  BY DEF ClientTransition
<1>5. TypeOK'
  BY <1>3, <1>4 DEF Core, TypeOK, sharedVars, driverVars, monVars, netVars
<1>6. \A s \in Sessions : pending'[s] = pending[s]
  BY <1>1 DEF Core, TypeOK, ClientTransition, TransitionAccepted
<1>7. \A d \in Clients \ {c} : pending'[d] = pending[d] /\ pc'[d] = pc[d]
  BY <1>1, <1>2 DEF Core, TypeOK, ClientTransition, TransitionAccepted, Tasks
<1>8. \/ pc'[c] = store /\ pending'[c] = new
      \/ pc'[c] \in {ok, err}
  BY <1>1 DEF Core, TypeOK, ClientTransition, TransitionAccepted
<1>9. TasksInStep'
  BY <1>6, <1>7, <1>8 DEF Core, TasksInStep, monVars
<1> QED BY <1>5, <1>9 DEF Core

\* Starting a driver keeps the core invariant.
LEMMA ConnectStartCore ==
    ASSUME Core, NEW c \in Clients, ConnectStart(c)
    PROVE  Core'
<1> USE DEF stateVars, sharedVars, monVars, netVars
<1> DEFINE s == started + 1
<1>1. s \in Sessions /\ started' = s
  BY DEF ConnectStart
<1>2. PICK k \in Kinds, ks \in KillSwitches :
        \/ /\ pc' = [pc EXCEPT ![c] = "c_fail"]
           /\ UNCHANGED <<own, kind, engage, drv, provisioned, chan>>
        \/ /\ ConnectStarted(c, s, k, ks)
           /\ \E d \in {"dialing", "up", "fallback"} : drv' = [drv EXCEPT ![s] = d]
           /\ provisioned' \in {provisioned, provisioned \cup {s}}
           /\ \E e \in {<<"Connecting">>, <<"Connecting", "Connected">>} :
                 chan' = [chan EXCEPT ![s] = e]
  BY DEF ConnectStart, StartOpenVpn, StartWireGuard, Goto
<1>3. UNCHANGED <<tried, told, stateVars, sharedVars, monVars, netVars>>
  BY DEF ConnectStart
<1> HIDE DEF s
<1>4. pc' \in [Clients -> ClientPCs] /\ own' \in [Clients -> Sessions \cup {NoSession}]
  BY <1>1, <1>2 DEF ConnectStarted, Goto, Core, TypeOK, ClientPCs
<1>5. kind' \in [Sessions -> {"openvpn", "wireguard"}]
  BY <1>1, <1>2, KindsAssumption DEF ConnectStarted, Core, TypeOK
<1>6. engage' \in [Sessions -> BOOLEAN]
  BY <1>1, <1>2, KillSwitchesAssumption DEF ConnectStarted, Core, TypeOK
<1>7. drv' \in [Sessions -> DrvStates]
  BY <1>1, <1>2 DEF Core, TypeOK, DrvStates
<1>8. provisioned' \subseteq Sessions
  BY <1>1, <1>2 DEF Core, TypeOK
<1>9. chan' \in [Sessions -> Seq(Events)]
  <2>1. <<"Connecting">> \in Seq(Events) /\ <<"Connecting", "Connected">> \in Seq(Events)
    BY DEF Events
  <2>2. \/ chan' = chan
        \/ \E e \in Seq(Events) : chan' = [chan EXCEPT ![s] = e]
    BY <1>2, <2>1
  <2> QED BY <1>1, <2>2 DEF Core, TypeOK
<1>10. TypeOK'
  BY <1>1, <1>3, <1>4, <1>5, <1>6, <1>7, <1>8, <1>9 DEF Core, TypeOK
<1>11. TasksInStep'
  BY <1>2, <1>3 DEF ConnectStarted, Goto, Core, TypeOK, TasksInStep
<1> QED BY <1>10, <1>11 DEF Core

\* Stopping a driver keeps the core invariant.
LEMMA DisconnectStopCore ==
    ASSUME Core, NEW c \in Clients, DisconnectStop(c)
    PROVE  Core'
<1>1. drv' \in [Sessions -> DrvStates]
  BY DEF DisconnectStop, Core, TypeOK, DrvStates
<1>2. told' \in [Sessions -> {"run", "stop", "drop"}]
  BY DEF DisconnectStop, Core, TypeOK
<1>3. TypeOK'
  BY <1>1, <1>2 DEF DisconnectStop, Goto, Core, TypeOK, ClientPCs, stateVars, sharedVars, monVars, netVars
<1>4. TasksInStep'
  BY DEF DisconnectStop, Goto, Core, TypeOK, TasksInStep, stateVars, monVars
<1> QED BY <1>3, <1>4 DEF Core

\* Receiving an event gives the monitor a goal the driver really reported.
LEMMA MonitorRecvCore ==
    ASSUME Core, NEW s \in Sessions, MonitorRecv(s)
    PROVE  Core'
<1> USE DEF stateVars, clientVars, driverVars, netVars, MonitorUnchanged
<1>1. Head(chan[s]) \in Events /\ Tail(chan[s]) \in Seq(Events)
  BY DEF MonitorRecv, Core, TypeOK
<1>2. chan' \in [Sessions -> Seq(Events)]
  BY <1>1 DEF MonitorRecv, Core, TypeOK
<1>3. goal' \in [Sessions -> Events \cup {"none"}] /\ mon' \in [Sessions -> MonPCs]
  BY <1>1 DEF MonitorRecv, Core, TypeOK, MonPCs
<1>4. TypeOK'
  BY <1>2, <1>3 DEF MonitorRecv, Core, TypeOK
<1>5. TasksInStep'
  BY <1>1 DEF MonitorRecv, Core, TypeOK, TasksInStep
<1> QED BY <1>4, <1>5 DEF Core

\* A monitor never validates Disconnecting.
LEMMA MonitorTransitionCore ==
    ASSUME Core, NEW s \in Sessions, MonitorTransition(s)
    PROVE  Core'
<1> USE DEF stateVars, clientVars, driverVars, netVars, MonitorUnchanged
<1> DEFINE new == IF goal[s] = "Fatal" THEN "Error" ELSE goal[s]
<1>1. new \in States \ {"Disconnecting"}
  BY DEF MonitorTransition, Core, TasksInStep, States, Events
<1>2. s \in Tasks /\ \A c \in Clients : c \in Tasks /\ c # s
  BY ClientsAssumption DEF Tasks
<1>3. \/ pending' = pending /\ MonitorLoop(s)
      \/ /\ pending' = [pending EXCEPT ![s] = new]
         /\ mon' = [mon EXCEPT ![s] = "store"]
         /\ goal' = goal
  BY DEF MonitorTransition, TransitionAccepted
<1>4. UNCHANGED <<view, chan, state, session_start, assigned_ip, netVars>> /\ MonitorUnchanged
  BY DEF MonitorTransition
<1> HIDE DEF new
<1>5. pending' \in [Tasks -> States \cup {"none"}]
  BY <1>1, <1>2, <1>3 DEF Core, TypeOK
<1>6. mon' \in [Sessions -> MonPCs] /\ goal' \in [Sessions -> Events \cup {"none"}]
  BY <1>3 DEF Core, TypeOK, MonitorLoop, MonPCs
<1>7. TypeOK'
  BY <1>4, <1>5, <1>6 DEF Core, TypeOK
<1>8. TasksInStep'
  <2>1. \A c \in Clients : pending'[c] = pending[c] /\ pc'[c] = pc[c]
    BY <1>2, <1>3, <1>4 DEF Core, TypeOK
  <2>2. ASSUME NEW u \in Sessions, u # s
        PROVE  pending'[u] = pending[u] /\ mon'[u] = mon[u] /\ goal'[u] = goal[u]
    BY <2>2, <1>2, <1>3 DEF Core, TypeOK, MonitorLoop, Tasks
  <2>3. \/ mon'[s] \in {"done", "recv"}
        \/ mon'[s] = "store" /\ pending'[s] = new /\ goal'[s] = goal[s]
    BY <1>2, <1>3 DEF Core, TypeOK, MonitorLoop
  <2>4. goal[s] \in Events
    BY DEF Core, TasksInStep, MonitorTransition
  <2> QED BY <1>1, <2>1, <2>2, <2>3, <2>4 DEF Core, TasksInStep
<1> QED BY <1>7, <1>8 DEF Core

\* Every action keeps the core invariant.
LEMMA CorePreserved ==
    ASSUME Core, [Next]_vars
    PROVE  Core'
<1> USE DEF Core, TypeOK, TasksInStep, stateVars, sharedVars, clientVars, driverVars,
            monVars, netVars
<1>1. ASSUME NEW c \in Clients, ConnectCheck(c)
      PROVE  Core'
  <2>1. TypeOK'
    BY <1>1 DEF ConnectCheck, Goto, ClientPCs
  <2>2. TasksInStep'
    BY <1>1 DEF ConnectCheck, Goto
  <2> QED BY <2>1, <2>2
<1>2. ASSUME NEW c \in Clients, ConnectTransition(c)
      PROVE  Core'
  BY <1>2, ClientTransitionCore DEF ConnectTransition, States
<1>3. ASSUME NEW c \in Clients, ConnectStore(c)
      PROVE  Core'
  <2>1. TypeOK'
    BY <1>3, ClientsAssumption DEF ConnectStore, ClientStore, TransitionStore, Tasks, States, ClientPCs
  <2>2. TasksInStep'
    BY <1>3, ClientsAssumption DEF ConnectStore, ClientStore, TransitionStore, Tasks, States
  <2> QED BY <2>1, <2>2
<1>4. ASSUME NEW c \in Clients, ConnectStart(c)
      PROVE  Core'
  BY <1>4, ConnectStartCore
<1>5. ASSUME NEW c \in Clients, ConnectFail(c)
      PROVE  Core'
  BY <1>5, ClientTransitionCore DEF ConnectFail, States
<1>6. ASSUME NEW c \in Clients, ConnectFailStore(c)
      PROVE  Core'
  <2>1. TypeOK'
    BY <1>6, ClientsAssumption DEF ConnectFailStore, ClientStore, TransitionStore, Tasks, States, ClientPCs
  <2>2. TasksInStep'
    BY <1>6, ClientsAssumption DEF ConnectFailStore, ClientStore, TransitionStore, Tasks, States
  <2> QED BY <2>1, <2>2
<1>7. ASSUME NEW c \in Clients, ConnectSetSession(c)
      PROVE  Core'
  <2>1. TypeOK'
    BY <1>7 DEF ConnectSetSession, Goto, ClientPCs
  <2>2. TasksInStep'
    BY <1>7 DEF ConnectSetSession, Goto
  <2> QED BY <2>1, <2>2
<1>8. ASSUME NEW c \in Clients, ConnectSetDriver(c)
      PROVE  Core'
  <2>1. TypeOK'
    BY <1>8 DEF ConnectSetDriver, Goto, ClientPCs
  <2>2. TasksInStep'
    BY <1>8 DEF ConnectSetDriver, Goto
  <2> QED BY <2>1, <2>2
<1>9. ASSUME NEW c \in Clients, ConnectSpawn(c)
      PROVE  Core'
  <2>1. TypeOK'
    BY <1>9 DEF ConnectSpawn, Goto, ClientPCs, MonPCs
  <2>2. TasksInStep'
    BY <1>9 DEF ConnectSpawn, Goto
  <2> QED BY <2>1, <2>2
<1>10. ASSUME NEW c \in Clients, DisconnectCheck(c)
       PROVE  Core'
  <2>1. TypeOK'
    BY <1>10 DEF DisconnectCheck, Goto, ClientPCs
  <2>2. TasksInStep'
    BY <1>10 DEF DisconnectCheck, Goto
  <2> QED BY <2>1, <2>2
<1>11. ASSUME NEW c \in Clients, DisconnectTransition(c)
       PROVE  Core'
  BY <1>11, ClientTransitionCore DEF DisconnectTransition, States
<1>12. ASSUME NEW c \in Clients, DisconnectStore(c)
       PROVE  Core'
  <2>1. TypeOK'
    BY <1>12, ClientsAssumption DEF DisconnectStore, ClientStore, TransitionStore, Tasks, States, ClientPCs
  <2>2. TasksInStep'
    BY <1>12, ClientsAssumption DEF DisconnectStore, ClientStore, TransitionStore, Tasks, States
  <2> QED BY <2>1, <2>2
<1>13. ASSUME NEW c \in Clients, DisconnectTake(c)
       PROVE  Core'
  <2>1. TypeOK'
    BY <1>13 DEF DisconnectTake, Goto, ClientPCs
  <2>2. TasksInStep'
    BY <1>13 DEF DisconnectTake, Goto
  <2> QED BY <2>1, <2>2
<1>14. ASSUME NEW c \in Clients, DisconnectStop(c)
       PROVE  Core'
  BY <1>14, DisconnectStopCore
<1>15. ASSUME NEW c \in Clients, DisconnectTeardown(c)
       PROVE  Core'
  <2>1. TypeOK'
    BY <1>15 DEF DisconnectTeardown, Goto, Net!Teardown, ClientPCs
  <2>2. TasksInStep'
    BY <1>15 DEF DisconnectTeardown, Goto, Net!Teardown
  <2> QED BY <2>1, <2>2
<1>16. ASSUME NEW c \in Clients, DisconnectClear(c)
       PROVE  Core'
  <2>1. TypeOK'
    BY <1>16 DEF DisconnectClear, Goto, ClientPCs
  <2>2. TasksInStep'
    BY <1>16 DEF DisconnectClear, Goto
  <2> QED BY <2>1, <2>2
<1>17. ASSUME NEW c \in Clients, DisconnectFinal(c)
       PROVE  Core'
  BY <1>17, ClientTransitionCore DEF DisconnectFinal, States
<1>18. ASSUME NEW c \in Clients, DisconnectFinalStore(c)
       PROVE  Core'
  <2>1. TypeOK'
    BY <1>18, ClientsAssumption DEF DisconnectFinalStore, ClientStore, TransitionStore, Tasks, States,
           ClientPCs
  <2>2. TasksInStep'
    BY <1>18, ClientsAssumption DEF DisconnectFinalStore, ClientStore, TransitionStore, Tasks, States
  <2> QED BY <2>1, <2>2
<1>19. ASSUME NEW s \in Sessions, Dial(s)
       PROVE  Core'
  <2>1. TypeOK'
    BY <1>19, MaxRemotesAssumption DEF Dial, DriverStep, Send, DrvStates, Events
  <2>2. TasksInStep'
    BY <1>19 DEF Dial, DriverStep, Send
  <2> QED BY <2>1, <2>2
<1>20. ASSUME NEW s \in Sessions, DialFails(s)
       PROVE  Core'
  <2>1. TypeOK'
    BY <1>20, MaxRemotesAssumption DEF DialFails, DriverStep, DrvStates, Events
  <2>2. TasksInStep'
    BY <1>20 DEF DialFails, DriverStep
  <2> QED BY <2>1, <2>2
<1>21. ASSUME NEW s \in Sessions, AllRemotesFailed(s)
       PROVE  Core'
  <2>1. TypeOK'
    BY <1>21 DEF AllRemotesFailed, DriverStep, Send, DrvStates, Events
  <2>2. TasksInStep'
    BY <1>21 DEF AllRemotesFailed, DriverStep, Send
  <2> QED BY <2>1, <2>2
<1>22. ASSUME NEW s \in Sessions, NetworkConfigured(s)
       PROVE  Core'
  <2>1. TypeOK'
    BY <1>22 DEF NetworkConfigured, DriverStep, DrvStates, Events
  <2>2. TasksInStep'
    BY <1>22 DEF NetworkConfigured, DriverStep
  <2> QED BY <2>1, <2>2
<1>23. ASSUME NEW s \in Sessions, ObeyStop(s)
       PROVE  Core'
  <2>1. TypeOK'
    BY <1>23 DEF ObeyStop, DriverStep, Send, DrvStates, Events
  <2>2. TasksInStep'
    BY <1>23 DEF ObeyStop, DriverStep, Send
  <2> QED BY <2>1, <2>2
<1>24. ASSUME NEW s \in Sessions, HandleDropped(s)
       PROVE  Core'
  <2>1. TypeOK'
    BY <1>24 DEF HandleDropped, DriverStep, DrvStates, Events
  <2>2. TasksInStep'
    BY <1>24 DEF HandleDropped, DriverStep
  <2> QED BY <2>1, <2>2
<1>25. ASSUME NEW s \in Sessions, HandshakeDone(s)
       PROVE  Core'
  <2>1. TypeOK'
    BY <1>25 DEF HandshakeDone, DriverStep, Send, DrvStates, Events
  <2>2. TasksInStep'
    BY <1>25 DEF HandshakeDone, DriverStep, Send
  <2> QED BY <2>1, <2>2
<1>26. ASSUME NEW s \in Sessions, PipelineFails(s)
       PROVE  Core'
  <2>1. TypeOK'
    BY <1>26 DEF PipelineFails, DriverStep, DrvStates, Events
  <2>2. TasksInStep'
    BY <1>26 DEF PipelineFails, DriverStep
  <2> QED BY <2>1, <2>2
<1>36. ASSUME NEW s \in Sessions, DialProxy(s)
       PROVE  Core'
  <2>1. TypeOK'
    BY <1>36, MaxRemotesAssumption DEF DialProxy, DriverStep, DrvStates, Events
  <2>2. TasksInStep'
    BY <1>36 DEF DialProxy, DriverStep
  <2> QED BY <2>1, <2>2
<1>37. ASSUME NEW s \in Sessions, ProxyConnects(s)
       PROVE  Core'
  <2>1. TypeOK'
    BY <1>37 DEF ProxyConnects, DriverStep, Send, DrvStates, Events
  <2>2. TasksInStep'
    BY <1>37 DEF ProxyConnects, DriverStep, Send
  <2> QED BY <2>1, <2>2
<1>38. ASSUME NEW s \in Sessions, ProxyRefuses(s)
       PROVE  Core'
  <2>1. TypeOK'
    BY <1>38 DEF ProxyRefuses, DriverStep, DrvStates, Events
  <2>2. TasksInStep'
    BY <1>38 DEF ProxyRefuses, DriverStep
  <2> QED BY <2>1, <2>2
<1>27. ASSUME NEW s \in Sessions, MonitorRecv(s)
       PROVE  Core'
  BY <1>27, MonitorRecvCore
<1>28. ASSUME NEW s \in Sessions, MonitorEnd(s)
       PROVE  Core'
  <2>1. TypeOK'
    BY <1>28 DEF MonitorEnd, MonitorUnchanged, MonPCs
  <2>2. TasksInStep'
    BY <1>28 DEF MonitorEnd, MonitorUnchanged
  <2> QED BY <2>1, <2>2
<1>29. ASSUME NEW s \in Sessions, MonitorReadDriver(s)
       PROVE  Core'
  <2>1. TypeOK'
    BY <1>29 DEF MonitorReadDriver, MonitorUnchanged, MonPCs
  <2>2. TasksInStep'
    BY <1>29 DEF MonitorReadDriver, MonitorUnchanged
  <2> QED BY <2>1, <2>2
<1>30. ASSUME NEW s \in Sessions, MonitorSetIp(s)
       PROVE  Core'
  <2>1. TypeOK'
    BY <1>30 DEF MonitorSetIp, MonitorUnchanged, MonPCs
  <2>2. TasksInStep'
    BY <1>30 DEF MonitorSetIp, MonitorUnchanged
  <2> QED BY <2>1, <2>2
<1>31. ASSUME NEW s \in Sessions, MonitorSetup(s)
       PROVE  Core'
  <2>1. TypeOK'
    BY <1>31 DEF MonitorSetup, MonitorUnchanged, Net!Setup, MonPCs
  <2>2. TasksInStep'
    BY <1>31 DEF MonitorSetup, MonitorUnchanged, Net!Setup
  <2> QED BY <2>1, <2>2
<1>32. ASSUME NEW s \in Sessions, MonitorTransition(s)
       PROVE  Core'
  BY <1>32, MonitorTransitionCore
<1>33. ASSUME NEW s \in Sessions, MonitorStore(s)
       PROVE  Core'
  <2>1. TypeOK'
    BY <1>33, ClientsAssumption DEF MonitorStore, MonitorUnchanged, MonitorLoop, TransitionStore, Tasks,
           States, MonPCs
  <2>2. TasksInStep'
    BY <1>33, ClientsAssumption DEF MonitorStore, MonitorUnchanged, MonitorLoop, TransitionStore, Tasks,
           States
  <2> QED BY <2>1, <2>2
<1>34. ASSUME NEW c \in Clients, NEW enabled \in Toggles, RequestKillSwitch(c, enabled)
      PROVE  Core'
  <2>1. killSwitch' \in BOOLEAN
    BY <1>34, TogglesAssumption DEF RequestKillSwitch, Net!SetKillSwitch
  <2> QED BY <1>34, <2>1 DEF RequestKillSwitch, Net!SetKillSwitch
<1>35. CASE UNCHANGED vars
  BY <1>35 DEF vars
<1> QED
  BY <1>1, <1>2, <1>3, <1>4, <1>5, <1>6, <1>7, <1>8, <1>9, <1>10, <1>11, <1>12,
     <1>13, <1>14, <1>15, <1>16, <1>17, <1>18, <1>19, <1>20, <1>21, <1>22, <1>23,
     <1>24, <1>25, <1>26, <1>27, <1>28, <1>29, <1>30, <1>31, <1>32, <1>33, <1>34,
     <1>35, <1>36, <1>37, <1>38
     DEF Next, ClientRequest, ClientStep, SessionStep, NetworkStep, MonitorStep

\* The core invariant holds when the daemon starts.
LEMMA CoreInitially == Init => Core
<1> SUFFICES ASSUME Init PROVE Core
  OBVIOUS
<1>1. chan \in [Sessions -> Seq(Events)]
  <2>1. <<>> \in Seq(Events)
    OBVIOUS
  <2> QED BY <2>1 DEF Init
<1>2. tried \in [Sessions -> 0..MaxRemotes]
  BY MaxRemotesAssumption DEF Init
<1>3. TypeOK
  BY <1>1, <1>2 DEF Init, TypeOK, States, ClientPCs, MonPCs, DrvStates
<1>4. TasksInStep
  BY DEF Init, TasksInStep
<1> QED BY <1>3, <1>4 DEF Core

\* The orchestrator's shared state, its tasks and its drivers keep their types.
THEOREM OrchestratorTypeCorrect == Spec => []TypeOK
<1>1. Core /\ [Next]_vars => Core'
  BY CorePreserved
<1>2. Core => TypeOK
  BY DEF Core
<1> QED BY CoreInitially, <1>1, <1>2, PTL DEF Spec
-----------------------------------------------------------------------------
(* The network contract, as the orchestrator uses it *)

\* What a step may do to the tunnel context and the kill switch: nothing, a
\* set-up by a monitor, a teardown by a disconnect, or a toggle.
LEMMA NetworkSteps ==
    ASSUME [Next]_vars
    PROVE  \/ UNCHANGED netVars
           \/ \E s \in Sessions : mon[s] = "setup" /\ Net!Setup(s, engage[s])
           \/ Net!Teardown /\ UNCHANGED <<drv, chan, mon, state>>
           \/ \E enabled \in Toggles :
                 Net!SetKillSwitch(enabled) /\ UNCHANGED <<drv, chan, mon, state>>
<1> USE DEF stateVars, sharedVars, clientVars, driverVars, monVars, netVars
<1>1. ASSUME NEW c \in Clients, ClientStep(c), ~DisconnectTeardown(c)
      PROVE  UNCHANGED netVars
  BY <1>1 DEF ClientStep, ConnectTransition, ConnectStore, ConnectStart, ConnectFail,
     ConnectFailStore, ConnectSetSession, ConnectSetDriver, ConnectSpawn,
     DisconnectTransition, DisconnectStore, DisconnectTake, DisconnectStop,
     DisconnectClear, DisconnectFinal, DisconnectFinalStore
<1>2. ASSUME NEW c \in Clients, DisconnectTeardown(c)
      PROVE  Net!Teardown /\ UNCHANGED <<drv, chan, mon, state>>
  BY <1>2 DEF DisconnectTeardown
<1>3. ASSUME NEW c \in Clients, ClientRequest(c)
      PROVE  \/ UNCHANGED netVars
             \/ \E enabled \in Toggles :
                   Net!SetKillSwitch(enabled) /\ UNCHANGED <<drv, chan, mon, state>>
  BY <1>3 DEF ClientRequest, ConnectCheck, DisconnectCheck, RequestKillSwitch
<1>4. ASSUME NEW s \in Sessions, SessionStep(s) \/ NetworkStep(s)
      PROVE  UNCHANGED netVars
  BY <1>4 DEF SessionStep, NetworkStep, Dial, DialFails, DialProxy,
     ProxyConnects, ProxyRefuses, AllRemotesFailed,
     NetworkConfigured, ObeyStop, HandleDropped, HandshakeDone, PipelineFails, DriverStep
<1>5. ASSUME NEW s \in Sessions, MonitorStep(s)
      PROVE  \/ UNCHANGED netVars
             \/ mon[s] = "setup" /\ Net!Setup(s, engage[s])
  <2>1. CASE MonitorSetup(s)
    BY <2>1 DEF MonitorSetup
  <2>2. CASE ~MonitorSetup(s)
    BY <1>5, <2>2 DEF MonitorStep, MonitorRecv, MonitorEnd, MonitorReadDriver,
       MonitorSetIp, MonitorTransition, MonitorStore
  <2> QED BY <2>1, <2>2
<1>6. CASE UNCHANGED vars
  BY <1>6 DEF vars
<1> QED BY <1>1, <1>2, <1>3, <1>4, <1>5, <1>6 DEF Next

\* The orchestrator's requests and monitors, in any interleaving, change tunnel
\* context and kill switch by calls of the contract only, so NetworkManager, which
\* implements the contract, can stand where the contract does.
THEOREM OrchestratorUsesContract == Spec => Net!ContractSpec
<1>1. Init => Net!ContractInit
  BY DEF Init, Net!ContractInit
<1>2. Core /\ [Next]_vars => [Net!ContractNext]_(Net!contractVars)
  <2> SUFFICES ASSUME Core, [Next]_vars
               PROVE  Net!ContractNext \/ UNCHANGED Net!contractVars
    OBVIOUS
  <2>1. CASE UNCHANGED netVars
    BY <2>1 DEF netVars, Net!contractVars
  <2>2. ASSUME NEW s \in Sessions, Net!Setup(s, engage[s])
        PROVE  Net!ContractNext
    <3>1. PICK ks \in BOOLEAN : ks = engage[s]
      BY DEF Core, TypeOK
    <3>2. Net!Setup(s, ks)
      BY <2>2, <3>1 DEF Net!Setup
    <3> QED BY <3>2 DEF Net!ContractNext
  <2>3. CASE Net!Teardown
    BY <2>3 DEF Net!ContractNext
  <2>4. ASSUME NEW enabled \in Toggles, Net!SetKillSwitch(enabled)
        PROVE  Net!ContractNext
    BY <2>4, TogglesAssumption DEF Net!ContractNext
  <2> QED BY <2>1, <2>2, <2>3, <2>4, NetworkSteps
<1>3. Core /\ [Next]_vars => Core'
  BY CorePreserved
<1> QED BY CoreInitially, <1>1, <1>2, <1>3, PTL DEF Spec, Net!ContractSpec

\* Only a teardown or an explicit request lifts the kill switch; no driver event,
\* state change or fail-over does.
THEOREM KillSwitchFailsClosed == Spec => FailClosed
<1> DEFINE Closed == killSwitch /\ ~killSwitch' => UNCHANGED <<drv, chan, mon, state>>
<1>1. Core /\ [Next]_vars => [Closed]_vars
  <2> SUFFICES ASSUME Core, [Next]_vars PROVE Closed
    OBVIOUS
  <2>1. CASE UNCHANGED netVars
    BY <2>1 DEF netVars
  <2>2. ASSUME NEW s \in Sessions, Net!Setup(s, engage[s])
        PROVE  Closed
    BY <2>2 DEF Net!Setup
  <2> QED BY <2>1, <2>2, NetworkSteps
<1>2. Core /\ [Next]_vars => Core'
  BY CorePreserved
<1> QED BY CoreInitially, <1>1, <1>2, PTL DEF Spec, FailClosed
-----------------------------------------------------------------------------
(* The daemon never wedges in Disconnecting *)

\* A disconnect that has stored Disconnecting and not yet stored Disconnected.
Owning == {"d_take", "d_stop", "d_teardown", "d_clear", "d_final", "d_finalstore"}

\* Whoever finds the daemon in Disconnecting finds a disconnect still at work.
THEOREM DisconnectingIsOwned == Spec => []DisconnectingHasOwner
<1>1. Init => DisconnectingHasOwner
  BY DEF Init, DisconnectingHasOwner
<1>2. Core /\ DisconnectingHasOwner /\ [Next]_vars => DisconnectingHasOwner'
  <2> SUFFICES ASSUME Core, DisconnectingHasOwner, [Next]_vars
               PROVE  DisconnectingHasOwner'
    OBVIOUS
  <2> USE DEF stateVars, sharedVars, clientVars, driverVars, monVars, netVars
  <2>1. CASE UNCHANGED <<state, pc>>
    BY <2>1 DEF DisconnectingHasOwner
  <2>2. ASSUME NEW c \in Clients, UNCHANGED state,
               \A d \in Clients \ {c} : pc'[d] = pc[d],
               pc[c] \in Owning => pc'[c] \in Owning
        PROVE  DisconnectingHasOwner'
    BY <2>2 DEF DisconnectingHasOwner, Owning
  <2>3. ASSUME NEW c \in Clients, ClientRequest(c)
        PROVE  DisconnectingHasOwner'
    <3>1. /\ UNCHANGED state
          /\ \A d \in Clients \ {c} : pc'[d] = pc[d]
          /\ pc[c] = "idle"
      BY <2>3 DEF ClientRequest, ConnectCheck, DisconnectCheck, RequestKillSwitch, Goto,
         Core, TypeOK
    <3> QED BY <3>1, <2>2 DEF Owning
  <2>4. ASSUME NEW c \in Clients,
               ConnectTransition(c) \/ ConnectFail(c) \/ DisconnectTransition(c)
        PROVE  DisconnectingHasOwner'
    <3>1. /\ UNCHANGED state
          /\ \A d \in Clients \ {c} : pc'[d] = pc[d]
          /\ pc[c] \in {"c_trans", "c_fail", "d_trans"}
      BY <2>4 DEF ConnectTransition, ConnectFail, DisconnectTransition,
         ClientTransition, Core, TypeOK
    <3> QED BY <3>1, <2>2 DEF Owning
  <2>5. ASSUME NEW c \in Clients,
               ConnectStore(c) \/ ConnectFailStore(c) \/ DisconnectFinalStore(c)
        PROVE  DisconnectingHasOwner'
    <3>1. state' \in {"Connecting", "Error", "Disconnected"}
      BY <2>5 DEF ConnectStore, ConnectFailStore, DisconnectFinalStore, ClientStore,
         TransitionStore, Core, TasksInStep
    <3> QED BY <3>1 DEF DisconnectingHasOwner
  <2>6. ASSUME NEW c \in Clients, DisconnectStore(c)
        PROVE  DisconnectingHasOwner'
    BY <2>6 DEF DisconnectStore, ClientStore, DisconnectingHasOwner, Core, TypeOK
  <2>7. ASSUME NEW c \in Clients,
               \/ ConnectStart(c) \/ ConnectSetSession(c) \/ ConnectSetDriver(c)
               \/ ConnectSpawn(c) \/ DisconnectTake(c) \/ DisconnectStop(c)
               \/ DisconnectTeardown(c) \/ DisconnectClear(c)
        PROVE  DisconnectingHasOwner'
    <3>1. /\ UNCHANGED state
          /\ \A d \in Clients \ {c} : pc'[d] = pc[d]
          /\ pc[c] \in Owning => pc'[c] \in Owning
      BY <2>7 DEF ConnectStart, ConnectStarted, ConnectSetSession, ConnectSetDriver,
         ConnectSpawn, DisconnectTake, DisconnectStop, DisconnectTeardown,
         DisconnectClear, Goto, Core, TypeOK, Owning
    <3> QED BY <3>1, <2>2
  <2>8. ASSUME NEW c \in Clients, DisconnectFinal(c)
        PROVE  DisconnectingHasOwner'
    <3>1. /\ UNCHANGED state
          /\ \A d \in Clients \ {c} : pc'[d] = pc[d]
      BY <2>8 DEF DisconnectFinal, ClientTransition, Core, TypeOK
    <3>2. state = "Disconnecting" => pc'[c] = "d_finalstore"
      BY <2>8 DEF DisconnectFinal, ClientTransition, TransitionNoop, TransitionRefused,
         is_valid_transition, Core, TypeOK
    <3> QED BY <3>1, <3>2 DEF DisconnectingHasOwner
  <2>9. ASSUME NEW s \in Sessions, SessionStep(s) \/ NetworkStep(s)
        PROVE  DisconnectingHasOwner'
    BY <2>1, <2>9 DEF SessionStep, NetworkStep, Dial, DialFails, DialProxy,
     ProxyConnects, ProxyRefuses, AllRemotesFailed,
       NetworkConfigured, ObeyStop, HandleDropped, HandshakeDone, PipelineFails,
       DriverStep
  <2>10. ASSUME NEW s \in Sessions, MonitorStep(s)
         PROVE  DisconnectingHasOwner'
    <3>1. CASE MonitorStore(s)
      <4>1. state' # "Disconnecting"
        BY <3>1 DEF MonitorStore, TransitionStore, Core, TasksInStep
      <4> QED BY <4>1 DEF DisconnectingHasOwner
    <3>2. CASE ~MonitorStore(s)
      <4>1. UNCHANGED <<state, pc>>
        BY <2>10, <3>2 DEF MonitorStep, MonitorRecv, MonitorEnd, MonitorReadDriver,
           MonitorSetIp, MonitorSetup, MonitorTransition, MonitorUnchanged
      <4> QED BY <4>1, <2>1
    <3> QED BY <3>1, <3>2
  <2>11. CASE UNCHANGED vars
    BY <2>1, <2>11 DEF vars
  <2> QED
    BY <2>3, <2>4, <2>5, <2>6, <2>7, <2>8, <2>9, <2>10, <2>11 DEF Next, ClientStep
<1>3. Core /\ [Next]_vars => Core'
  BY CorePreserved
<1> QED BY CoreInitially, <1>1, <1>2, <1>3, PTL DEF Spec
-----------------------------------------------------------------------------
(* No orphaned session *)

\* Session s can be reached by a disconnect, now or once a request moves on.
Reachable(s) == active_driver = s \/ \E c \in Clients : Holds(c, s)

\* A step that creates no session and moves no driver keeps sessions reachable.
LEMMA ReachableKept ==
    ASSUME Core, NoOrphanedSession,
           \A s \in Sessions : Unattended(s)' => Unattended(s),
           \A s \in Sessions : Reachable(s) => Reachable(s)'
    PROVE  NoOrphanedSession'
BY DEF NoOrphanedSession, Reachable, Holds

\* Whatever connects and disconnects overlap, an OpenVPN session that nobody told
\* to end is held by active_driver or by a request in flight.
THEOREM SessionsNeverOrphaned == Spec => []NoOrphanedSession
<1>1. Init => NoOrphanedSession
  BY DEF Init, NoOrphanedSession, Unattended
<1>2. Core /\ NoOrphanedSession /\ [Next]_vars => NoOrphanedSession'
  <2> SUFFICES ASSUME Core, NoOrphanedSession, [Next]_vars
               PROVE  NoOrphanedSession'
    OBVIOUS
  <2> USE DEF stateVars, sharedVars, clientVars, driverVars, monVars, netVars
  <2>1. CASE UNCHANGED <<active_driver, own, pc, kind, told, drv>>
    BY <2>1, ReachableKept DEF Reachable, Holds, Unattended
  <2>2. ASSUME NEW c \in Clients, UNCHANGED <<active_driver, own, kind, told, drv>>,
               \A d \in Clients \ {c} : pc'[d] = pc[d],
               \A s \in Sessions : Holds(c, s) => Holds(c, s)'
        PROVE  NoOrphanedSession'
    <3>1. \A s \in Sessions : Unattended(s)' => Unattended(s)
      BY <2>2 DEF Unattended
    <3>2. \A s \in Sessions : Reachable(s) => Reachable(s)'
      BY <2>2 DEF Reachable, Holds
    <3> QED BY <3>1, <3>2, ReachableKept
  <2>3. ASSUME NEW c \in Clients,
               \/ ClientRequest(c) \/ ConnectTransition(c) \/ ConnectStore(c)
               \/ ConnectFail(c) \/ ConnectFailStore(c) \/ ConnectSetSession(c)
               \/ DisconnectTransition(c) \/ DisconnectStore(c)
               \/ DisconnectTeardown(c) \/ DisconnectClear(c) \/ DisconnectFinal(c)
               \/ DisconnectFinalStore(c)
        PROVE  NoOrphanedSession'
    <3>1. /\ UNCHANGED <<active_driver, own, kind, told, drv>>
          /\ \A d \in Clients \ {c} : pc'[d] = pc[d]
          /\ pc[c] \in {"c_session", "c_driver", "d_stop"} => pc'[c] = "c_driver"
      BY <2>3 DEF ClientRequest, ConnectCheck, DisconnectCheck, RequestKillSwitch,
         ConnectTransition, ConnectStore, ConnectFail, ConnectFailStore,
         ConnectSetSession, DisconnectTransition, DisconnectStore, DisconnectTeardown,
         DisconnectClear, DisconnectFinal, DisconnectFinalStore, ClientTransition,
         ClientStore, Goto, Core, TypeOK
    <3> QED BY <3>1, <2>2 DEF Holds
  <2>4. ASSUME NEW c \in Clients, ConnectStart(c)
        PROVE  NoOrphanedSession'
    <3> DEFINE n == started + 1
    <3>1. n \in Sessions /\ pc[c] = "c_start" /\ UNCHANGED <<active_driver, told>>
      BY <2>4 DEF ConnectStart, ConnectStarted, Goto
    <3>2. /\ \A d \in Clients \ {c} : pc'[d] = pc[d] /\ own'[d] = own[d]
          /\ \A s \in Sessions \ {n} : kind'[s] = kind[s] /\ drv'[s] = drv[s]
      BY <2>4, <3>1 DEF ConnectStart, StartOpenVpn, StartWireGuard, ConnectStarted, Goto, Core, TypeOK
    <3>3. \/ UNCHANGED <<kind, drv>>
          \/ own'[c] = n /\ pc'[c] = "c_session"
      BY <2>4, <3>1 DEF ConnectStart, ConnectStarted, Goto, Core, TypeOK
    <3> HIDE DEF n
    <3>4. \A s \in Sessions : Reachable(s) => Reachable(s)'
      BY <3>1, <3>2 DEF Reachable, Holds
    <3>5. ASSUME NEW s \in Sessions, Unattended(s)'
          PROVE  Reachable(s)'
      <4>1. CASE Unattended(s)
        BY <3>4, <4>1 DEF NoOrphanedSession, Reachable, Holds
      <4>2. CASE ~Unattended(s)
        <5>1. s = n /\ ~UNCHANGED <<kind, drv>>
          BY <3>1, <3>2, <3>5, <4>2 DEF Unattended
        <5> QED BY <3>3, <5>1 DEF Reachable, Holds
      <4> QED BY <4>1, <4>2
    <3> QED BY <3>5 DEF NoOrphanedSession, Reachable, Holds
  <2>5. ASSUME NEW c \in Clients, ConnectSetDriver(c)
        PROVE  NoOrphanedSession'
    <3>1. /\ active_driver' = own[c] /\ UNCHANGED <<own, kind, drv>>
          /\ \A d \in Clients \ {c} : pc'[d] = pc[d]
          /\ \A s \in Sessions : told'[s] = IF s = active_driver THEN "drop" ELSE told[s]
      BY <2>5 DEF ConnectSetDriver, Goto, Core, TypeOK
    <3>2. ASSUME NEW s \in Sessions, Unattended(s)'
          PROVE  Reachable(s)'
      <4>1. Unattended(s) /\ active_driver # s
        BY <3>1, <3>2 DEF Unattended
      <4>2. PICK d \in Clients : Holds(d, s)
        BY <4>1 DEF NoOrphanedSession, Holds
      <4> QED BY <3>1, <4>2 DEF Reachable, Holds
    <3> QED BY <3>2 DEF NoOrphanedSession, Reachable, Holds
  <2>6. ASSUME NEW c \in Clients, ConnectSpawn(c)
        PROVE  NoOrphanedSession'
    <3>1. /\ UNCHANGED <<active_driver, kind, told, drv>> /\ pc[c] = "c_spawn"
          /\ \A d \in Clients \ {c} : pc'[d] = pc[d] /\ own'[d] = own[d]
      BY <2>6 DEF ConnectSpawn, Goto, Core, TypeOK
    <3>2. \A s \in Sessions : Reachable(s) => Reachable(s)'
      BY <3>1 DEF Reachable, Holds
    <3> QED BY <3>1, <3>2, ReachableKept DEF Unattended
  <2>7. ASSUME NEW c \in Clients, DisconnectTake(c)
        PROVE  NoOrphanedSession'
    <3>1. /\ UNCHANGED <<kind, told, drv>> /\ pc[c] = "d_take"
          /\ \A d \in Clients \ {c} : pc'[d] = pc[d] /\ own'[d] = own[d]
          /\ active_driver # NoSession => own'[c] = active_driver /\ pc'[c] = "d_stop"
      BY <2>7 DEF DisconnectTake, Goto, Core, TypeOK
    <3>2. \A s \in Sessions : Reachable(s) => Reachable(s)'
      BY <3>1, NoSessionAssumption DEF Reachable, Holds
    <3> QED BY <3>1, <3>2, ReachableKept DEF Unattended
  <2>8. ASSUME NEW c \in Clients, DisconnectStop(c)
        PROVE  NoOrphanedSession'
    <3>1. /\ UNCHANGED <<active_driver, kind>>
          /\ \A d \in Clients \ {c} : pc'[d] = pc[d] /\ own'[d] = own[d]
          /\ \A s \in Sessions \ {own[c]} : told'[s] = told[s] /\ drv'[s] = drv[s]
          /\ own[c] \in Sessions => told'[own[c]] = "stop"
      BY <2>8 DEF DisconnectStop, Goto, Core, TypeOK
    <3>2. ASSUME NEW s \in Sessions, Unattended(s)'
          PROVE  Reachable(s)'
      <4>1. s # own[c] /\ Unattended(s)
        BY <3>1, <3>2 DEF Unattended
      <4>2. Reachable(s)
        BY <4>1 DEF NoOrphanedSession, Reachable, Holds
      <4> QED BY <3>1, <4>1, <4>2 DEF Reachable, Holds
    <3> QED BY <3>2 DEF NoOrphanedSession, Reachable, Holds
  <2>9. ASSUME NEW s \in Sessions, SessionStep(s) \/ NetworkStep(s)
        PROVE  NoOrphanedSession'
    <3>1. /\ UNCHANGED <<active_driver, own, pc, kind, told>>
          /\ drv[s] \in {"dialing", "proxy", "handshake", "confirmed", "up"}
          /\ \A u \in Sessions \ {s} : drv'[u] = drv[u]
      BY <2>9 DEF SessionStep, NetworkStep, Dial, DialFails, DialProxy,
     ProxyConnects, ProxyRefuses, AllRemotesFailed,
         NetworkConfigured, ObeyStop, HandleDropped, HandshakeDone, PipelineFails,
         DriverStep, Core, TypeOK
    <3>2. \A u \in Sessions : Unattended(u)' => Unattended(u)
      BY <3>1 DEF Unattended
    <3>3. \A u \in Sessions : Reachable(u) => Reachable(u)'
      BY <3>1 DEF Reachable, Holds
    <3> QED BY <3>2, <3>3, ReachableKept
  <2>10. ASSUME NEW s \in Sessions, MonitorStep(s)
         PROVE  NoOrphanedSession'
    BY <2>1, <2>10 DEF MonitorStep, MonitorRecv, MonitorEnd, MonitorReadDriver,
       MonitorSetIp, MonitorSetup, MonitorTransition, MonitorStore, MonitorUnchanged
  <2>11. CASE UNCHANGED vars
    BY <2>1, <2>11 DEF vars
  <2> QED
    BY <2>3, <2>4, <2>5, <2>6, <2>7, <2>8, <2>9, <2>10, <2>11 DEF Next, ClientStep
<1>3. Core /\ [Next]_vars => Core'
  BY CorePreserved
<1> QED BY CoreInitially, <1>1, <1>2, <1>3, PTL DEF Spec
-----------------------------------------------------------------------------
(* Sessions are handed on *)

\* A session that has not been started, or whose start failed, is nowhere.
Unborn ==
    \A s \in Sessions :
        /\ s > started => drv[s] = "none"
        /\ drv[s] = "none" => /\ told[s] = "run" /\ active_driver # s
                              /\ \A c \in Clients : own[c] # s

\* What a step does to the whereabouts of drivers and monitors: it moves none,
\* or it starts, stores, watches, takes or stops one.
LEMMA HandOverSteps ==
    ASSUME Core, [Next]_vars
    PROVE  \/ /\ UNCHANGED <<active_driver, own, told, started>>
              /\ \A c \in Clients : pc'[c] # pc[c] =>
                    \/ pc[c] = "c_session" /\ pc'[c] = "c_driver"
                    \/ /\ pc[c] \notin {"c_session", "c_driver", "c_spawn", "d_stop"}
                       /\ pc'[c] \notin {"c_session", "c_driver", "c_spawn", "d_stop"}
              /\ \A s \in Sessions : drv'[s] = "none" <=> drv[s] = "none"
              /\ \A s \in Sessions : mon'[s] = "none" => mon[s] = "none"
           \/ \E c \in Clients :
                 \/ ConnectStart(c) \/ ConnectSetDriver(c) \/ ConnectSpawn(c)
                 \/ DisconnectTake(c) \/ DisconnectStop(c)
<1> USE DEF stateVars, sharedVars, clientVars, driverVars, monVars, netVars
<1> DEFINE Hands == {"c_session", "c_driver", "c_spawn", "d_stop"}
           Still == UNCHANGED <<active_driver, own, told, started>>
           Steady == \A c \in Clients : pc'[c] # pc[c] =>
                        \/ pc[c] = "c_session" /\ pc'[c] = "c_driver"
                        \/ pc[c] \notin Hands /\ pc'[c] \notin Hands
           Alive == \A s \in Sessions : drv'[s] = "none" <=> drv[s] = "none"
           Seen == \A s \in Sessions : mon'[s] = "none" => mon[s] = "none"
<1>1. ASSUME NEW c \in Clients,
             \/ ClientRequest(c) \/ ConnectTransition(c) \/ ConnectStore(c)
             \/ ConnectFail(c) \/ ConnectFailStore(c) \/ ConnectSetSession(c)
             \/ DisconnectTransition(c) \/ DisconnectStore(c)
             \/ DisconnectTeardown(c) \/ DisconnectClear(c) \/ DisconnectFinal(c)
             \/ DisconnectFinalStore(c)
      PROVE  Still /\ Steady /\ Alive /\ Seen
  <2>1. Still /\ UNCHANGED <<drv, mon>>
    BY <1>1 DEF ClientRequest, ConnectCheck, DisconnectCheck, RequestKillSwitch,
       ConnectTransition, ConnectStore, ConnectFail, ConnectFailStore,
       ConnectSetSession, DisconnectTransition, DisconnectStore, DisconnectTeardown,
       DisconnectClear, DisconnectFinal, DisconnectFinalStore, ClientTransition,
       ClientStore
  <2>2. /\ \A d \in Clients \ {c} : pc'[d] = pc[d]
        /\ \/ pc'[c] = pc[c]
           \/ pc[c] = "c_session" /\ pc'[c] = "c_driver"
           \/ pc[c] \notin Hands /\ pc'[c] \notin Hands
    BY <1>1 DEF ClientRequest, ConnectCheck, DisconnectCheck, RequestKillSwitch,
       ConnectTransition, ConnectStore, ConnectFail, ConnectFailStore,
       ConnectSetSession, DisconnectTransition, DisconnectStore, DisconnectTeardown,
       DisconnectClear, DisconnectFinal, DisconnectFinalStore, ClientTransition,
       ClientStore, Goto, Core, TypeOK
  <2> QED BY <2>1, <2>2
<1>2. ASSUME NEW s \in Sessions, SessionStep(s) \/ NetworkStep(s)
      PROVE  Still /\ Steady /\ Alive /\ Seen
  <2>1. Still /\ UNCHANGED <<pc, mon>>
    BY <1>2 DEF SessionStep, NetworkStep, Dial, DialFails, DialProxy,
     ProxyConnects, ProxyRefuses, AllRemotesFailed,
       NetworkConfigured, ObeyStop, HandleDropped, HandshakeDone, PipelineFails, DriverStep
  <2>2. drv[s] # "none" /\ drv'[s] # "none" /\ \A r \in Sessions \ {s} : drv'[r] = drv[r]
    BY <1>2 DEF SessionStep, NetworkStep, Dial, DialFails, DialProxy,
     ProxyConnects, ProxyRefuses, AllRemotesFailed,
       NetworkConfigured, ObeyStop, HandleDropped, HandshakeDone, PipelineFails,
       DriverStep, Core, TypeOK
  <2> QED BY <2>1, <2>2
<1>3. ASSUME NEW s \in Sessions, MonitorStep(s)
      PROVE  Still /\ Steady /\ Alive /\ Seen
  <2>1. Still /\ UNCHANGED <<pc, drv>>
    BY <1>3 DEF MonitorStep, MonitorRecv, MonitorEnd, MonitorReadDriver, MonitorSetIp,
       MonitorSetup, MonitorTransition, MonitorStore, MonitorUnchanged
  <2>2. mon'[s] # "none" /\ \A r \in Sessions \ {s} : mon'[r] = mon[r]
    BY <1>3 DEF MonitorStep, MonitorRecv, MonitorEnd, MonitorReadDriver, MonitorSetIp,
       MonitorSetup, MonitorTransition, MonitorStore, MonitorLoop, Core, TypeOK
  <2> QED BY <2>1, <2>2
<1>4. CASE UNCHANGED vars
  BY <1>4 DEF vars
<1> QED BY <1>1, <1>2, <1>3, <1>4 DEF Next, ClientStep

\* Every session that driver.start returned is held once at most, and its events
\* have a monitor or one to come, for any number of clients and sessions.
THEOREM SessionsHandedOn == Spec => []SessionsAccountedFor
<1> DEFINE HandOver == Unborn /\ SessionsAccountedFor
<1>1. Init => HandOver
  BY NoSessionAssumption DEF Init, Unborn, SessionsAccountedFor, OneHolder, Watched, Holds
<1>2. Core /\ HandOver /\ [Next]_vars => HandOver'
  <2> SUFFICES ASSUME Core, Unborn, SessionsAccountedFor, [Next]_vars
               PROVE  Unborn' /\ SessionsAccountedFor'
    OBVIOUS
  <2> USE DEF stateVars, sharedVars, clientVars, driverVars, monVars, netVars
  <2>0. /\ started \in Nat
        /\ \A s \in Sessions : s \in Nat /\ OneHolder(s) /\ Watched(s)
    BY SessionsAssumption DEF Core, TypeOK, Sessions, SessionsAccountedFor
  <2>1. ASSUME UNCHANGED <<active_driver, own, told, started>>,
               \A c \in Clients : pc'[c] # pc[c] =>
                   \/ pc[c] = "c_session" /\ pc'[c] = "c_driver"
                   \/ /\ pc[c] \notin {"c_session", "c_driver", "c_spawn", "d_stop"}
                      /\ pc'[c] \notin {"c_session", "c_driver", "c_spawn", "d_stop"},
               \A s \in Sessions : drv'[s] = "none" <=> drv[s] = "none",
               \A s \in Sessions : mon'[s] = "none" => mon[s] = "none"
        PROVE  Unborn' /\ SessionsAccountedFor'
    <3>1. Unborn'
      BY <2>1 DEF Unborn
    <3>2. ASSUME NEW s \in Sessions
          PROVE  OneHolder(s)' /\ Watched(s)'
      <4>1. \A c \in Clients : Holds(c, s)' => Holds(c, s)
        BY <2>1 DEF Holds
      <4>2. OneHolder(s)'
        BY <2>0, <2>1, <4>1 DEF OneHolder
      <4>3. Watched(s)'
        BY <2>0, <2>1 DEF Watched
      <4> QED BY <4>2, <4>3
    <3> QED BY <3>1, <3>2 DEF SessionsAccountedFor
  <2>2. ASSUME NEW c \in Clients, ConnectStart(c)
        PROVE  Unborn' /\ SessionsAccountedFor'
    <3> DEFINE n == started + 1
    <3>1. n \in Sessions /\ pc[c] = "c_start" /\ started' = n
          /\ UNCHANGED <<active_driver, told, mon>>
      BY <2>2 DEF ConnectStart, ConnectStarted, Goto
    <3>2. /\ \A d \in Clients \ {c} : pc'[d] = pc[d] /\ own'[d] = own[d]
          /\ \A s \in Sessions \ {n} : drv'[s] = drv[s]
      BY <2>2, <3>1 DEF ConnectStart, StartOpenVpn, StartWireGuard, ConnectStarted,
         Goto, Core, TypeOK
    <3>3. \/ own'[c] = own[c] /\ pc'[c] = "c_fail" /\ UNCHANGED drv
          \/ own'[c] = n /\ pc'[c] = "c_session" /\ drv'[n] # "none"
      BY <2>2, <3>1 DEF ConnectStart, ConnectStarted, StartOpenVpn, StartWireGuard, Goto,
         Core, TypeOK
    <3>4. /\ drv[n] = "none" /\ told[n] = "run" /\ active_driver # n
          /\ \A d \in Clients : own[d] # n
      BY <2>0, <3>1 DEF Unborn
    <3>5. Unborn'
      BY <2>0, <3>1, <3>2, <3>3 DEF Unborn
    <3> HIDE DEF n
    <3>6. ASSUME NEW s \in Sessions
          PROVE  OneHolder(s)' /\ Watched(s)'
      <4>1. CASE s = n
        <5>1. \A d \in Clients : Holds(d, s)' => d = c
          BY <3>2, <3>4, <4>1 DEF Holds
        <5>2. OneHolder(s)'
          BY <3>1, <3>4, <4>1, <5>1 DEF OneHolder
        <5>3. Watched(s)'
          BY <3>3, <3>4, <4>1 DEF Watched
        <5> QED BY <5>2, <5>3
      <4>2. CASE s # n
        <5>1. \A d \in Clients : Holds(d, s)' => Holds(d, s)
          BY <3>2, <3>3, <4>2 DEF Holds
        <5>2. OneHolder(s)'
          BY <2>0, <3>1, <5>1 DEF OneHolder
        <5>3. Watched(s)'
          BY <2>0, <3>1, <3>2, <4>2 DEF Watched
        <5> QED BY <5>2, <5>3
      <4> QED BY <4>1, <4>2
    <3> QED BY <3>5, <3>6 DEF SessionsAccountedFor
  <2>3. ASSUME NEW c \in Clients, ConnectSetDriver(c)
        PROVE  Unborn' /\ SessionsAccountedFor'
    <3>1. /\ pc[c] = "c_driver" /\ pc'[c] = "c_spawn"
          /\ active_driver' = own[c] /\ UNCHANGED <<own, drv, mon, started>>
          /\ \A d \in Clients \ {c} : pc'[d] = pc[d]
          /\ \A s \in Sessions : told'[s] = IF s = active_driver THEN "drop" ELSE told[s]
      BY <2>3 DEF ConnectSetDriver, Goto, Core, TypeOK
    <3>2. Unborn'
      BY <3>1 DEF Unborn
    <3>3. ASSUME NEW s \in Sessions
          PROVE  OneHolder(s)' /\ Watched(s)'
      <4>1. /\ \A d \in Clients : Holds(d, s)' => Holds(d, s) /\ d # c
            /\ own[c] = s => Holds(c, s)
        BY <3>1 DEF Holds
      <4>2. \A d \in Clients : Holds(d, s)' => active_driver' # s
        BY <2>0, <3>1, <4>1 DEF OneHolder
      <4>3. told'[s] # "run" => active_driver' # s /\ \A d \in Clients : ~Holds(d, s)'
        <5>1. CASE s = active_driver
          BY <2>0, <3>1, <4>1, <5>1 DEF OneHolder
        <5>2. CASE s # active_driver
          BY <2>0, <3>1, <4>1, <5>2 DEF OneHolder
        <5> QED BY <5>1, <5>2
      <4>4. OneHolder(s)'
        BY <2>0, <4>1, <4>2, <4>3 DEF OneHolder
      <4>5. Watched(s)'
        BY <2>0, <3>1 DEF Watched
      <4> QED BY <4>4, <4>5
    <3> QED BY <3>2, <3>3 DEF SessionsAccountedFor
  <2>4. ASSUME NEW c \in Clients, ConnectSpawn(c)
        PROVE  Unborn' /\ SessionsAccountedFor'
    <3>1. /\ pc[c] = "c_spawn" /\ pc'[c] = "idle" /\ own'[c] = NoSession
          /\ UNCHANGED <<active_driver, told, drv, started>>
          /\ \A d \in Clients \ {c} : pc'[d] = pc[d] /\ own'[d] = own[d]
          /\ \A s \in Sessions : mon'[s] = IF s = own[c] THEN "recv" ELSE mon[s]
      BY <2>4 DEF ConnectSpawn, Goto, Core, TypeOK
    <3>2. Unborn'
      BY <3>1, NoSessionAssumption DEF Unborn
    <3>3. ASSUME NEW s \in Sessions
          PROVE  OneHolder(s)' /\ Watched(s)'
      <4>1. \A d \in Clients : Holds(d, s)' => Holds(d, s)
        BY <3>1 DEF Holds
      <4>2. OneHolder(s)'
        BY <2>0, <3>1, <4>1 DEF OneHolder
      <4>3. Watched(s)'
        BY <2>0, <3>1 DEF Watched
      <4> QED BY <4>2, <4>3
    <3> QED BY <3>2, <3>3 DEF SessionsAccountedFor
  <2>5. ASSUME NEW c \in Clients, DisconnectTake(c)
        PROVE  Unborn' /\ SessionsAccountedFor'
    <3>1. /\ pc[c] = "d_take" /\ UNCHANGED <<told, drv, mon, started>>
          /\ active_driver' = NoSession /\ own'[c] = active_driver
          /\ \A d \in Clients \ {c} : pc'[d] = pc[d] /\ own'[d] = own[d]
      BY <2>5 DEF DisconnectTake, Goto, Core, TypeOK
    <3>2. Unborn'
      BY <3>1, NoSessionAssumption DEF Unborn
    <3>3. ASSUME NEW s \in Sessions
          PROVE  OneHolder(s)' /\ Watched(s)'
      <4>1. \A d \in Clients : Holds(d, s)' => (d = c /\ active_driver = s) \/ Holds(d, s)
        BY <3>1 DEF Holds
      <4>2. active_driver' # s
        BY <3>1, NoSessionAssumption
      <4>3. OneHolder(s)'
        BY <2>0, <3>1, <4>1, <4>2 DEF OneHolder
      <4>4. Watched(s)'
        BY <2>0, <3>1 DEF Watched
      <4> QED BY <4>3, <4>4
    <3> QED BY <3>2, <3>3 DEF SessionsAccountedFor
  <2>6. ASSUME NEW c \in Clients, DisconnectStop(c)
        PROVE  Unborn' /\ SessionsAccountedFor'
    <3>1. /\ pc[c] = "d_stop" /\ pc'[c] = "d_teardown" /\ own'[c] = NoSession
          /\ UNCHANGED <<active_driver, mon, started>>
          /\ \A d \in Clients \ {c} : pc'[d] = pc[d] /\ own'[d] = own[d]
          /\ \A s \in Sessions \ {own[c]} : told'[s] = told[s] /\ drv'[s] = drv[s]
      BY <2>6 DEF DisconnectStop, Goto, Core, TypeOK
    <3>2. \A s \in Sessions : drv'[s] = "none" => drv[s] = "none" /\ s # own[c]
      BY <2>6, <3>1 DEF DisconnectStop, Unborn, Core, TypeOK
    <3>3. \A s \in Sessions : drv[s] = "none" => drv'[s] = "none" /\ s # own[c]
      BY <3>1 DEF Unborn
    <3>4. Unborn'
      BY <3>1, <3>2, <3>3, NoSessionAssumption DEF Unborn
    <3>5. ASSUME NEW s \in Sessions
          PROVE  OneHolder(s)' /\ Watched(s)'
      <4>1. /\ \A d \in Clients : Holds(d, s)' => Holds(d, s) /\ d # c
            /\ own[c] = s => Holds(c, s)
        BY <3>1, NoSessionAssumption DEF Holds
      <4>2. told'[s] # "run" => active_driver' # s /\ \A d \in Clients : ~Holds(d, s)'
        <5>1. CASE s = own[c]
          BY <2>0, <3>1, <4>1, <5>1 DEF OneHolder
        <5>2. CASE s # own[c]
          BY <2>0, <3>1, <4>1, <5>2 DEF OneHolder
        <5> QED BY <5>1, <5>2
      <4>3. OneHolder(s)'
        BY <2>0, <3>1, <4>1, <4>2 DEF OneHolder
      <4>4. Watched(s)'
        BY <2>0, <3>1, <3>3 DEF Watched
      <4> QED BY <4>3, <4>4
    <3> QED BY <3>4, <3>5 DEF SessionsAccountedFor
  <2> QED BY <2>1, <2>2, <2>3, <2>4, <2>5, <2>6, HandOverSteps
<1>3. Core /\ [Next]_vars => Core'
  BY CorePreserved
<1> QED BY CoreInitially, <1>1, <1>2, <1>3, PTL DEF Spec, Unborn
=============================================================================
