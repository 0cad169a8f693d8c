--------------------------- MODULE MCOrchestrator ---------------------------
(***************************************************************************)
(* Instances of Orchestrator: overlapping requests on a sound network, and *)
(* requests under fair scheduling through every failure.                   *)
(***************************************************************************)
EXTENDS Orchestrator

BothDrivers == {"openvpn", "wireguard"}
AnyFailure == FaultKinds
=============================================================================
