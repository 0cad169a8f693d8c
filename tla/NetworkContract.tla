-------------------------- MODULE NetworkContract --------------------------
(***************************************************************************)
(* What the daemon's NetworkManager promises to its only caller, the       *)
(* DaemonOrchestrator: at most one tunnel context is remembered, the kill  *)
(* switch can be toggled only while a context is remembered, and once the  *)
(* context is gone the host carries no VPN modification.                   *)
(*                                                                         *)
(* Orchestrator uses these operations; NetworkManager, which models the    *)
(* routes, DNS, IPv6 and firewall changes one by one, implements them.     *)
(***************************************************************************)
CONSTANTS
    Sessions,    \* connection attempts whose tunnel may be set up
    NoSession    \* "no tunnel context" (Rust None)

VARIABLES
    tunnel,      \* the session of NetworkManager::active_tunnel, or NoSession
    killSwitch,  \* NetworkManager::is_kill_switch_active()
    clean        \* routes, firewall, resolver and IPv6 carry nothing of the VPN's

contractVars == <<tunnel, killSwitch, clean>>

ContractInit ==
    /\ tunnel = NoSession
    /\ killSwitch = FALSE
    /\ clean = TRUE

\* setup_vpn_network: the new context replaces an old one; a policy with the
\* kill switch Off leaves a kill switch that is already engaged alone.
Setup(s, engage) ==
    /\ tunnel' = s
    /\ killSwitch' = (killSwitch \/ engage)
    /\ clean' \in BOOLEAN

\* teardown_vpn_network
Teardown ==
    /\ tunnel' = NoSession
    /\ killSwitch' = FALSE
    /\ clean' = TRUE

\* set_kill_switch: without a context the request succeeds and does nothing.
SetKillSwitch(enabled) ==
    /\ UNCHANGED tunnel
    /\ killSwitch' = IF tunnel = NoSession THEN killSwitch ELSE enabled
    /\ clean' \in IF tunnel = NoSession THEN {clean} ELSE BOOLEAN

ContractNext ==
    \/ \E s \in Sessions, engage \in BOOLEAN : Setup(s, engage)
    \/ Teardown
    \/ \E enabled \in BOOLEAN : SetKillSwitch(enabled)

ContractSpec == ContractInit /\ [][ContractNext]_contractVars
=============================================================================
