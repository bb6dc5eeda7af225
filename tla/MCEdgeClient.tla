---------------------------- MODULE MCEdgeClient ----------------------------
EXTENDS EdgeClient

CONSTANTS a1, a2

(* Every command for one application; the other one is deployed only, so   *)
(* that two of them run when all their statuses are requested.             *)
MCOffered ==
  {m \in Commands :
     \/ "app" \notin DOMAIN m
     \/ m.app = a1
     \/ m.kind = "DeployApplication" /\ m.module = "good"}
=============================================================================
