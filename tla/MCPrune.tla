------------------------------ MODULE MCPrune ------------------------------
(* The objects the code treats apart: one of each kind. *)
EXTENDS Prune
CONSTANTS postgres, route, cron, certificate
MCChart == <<postgres, route, cron, certificate>>
MCPruneKinds == <<"Deployment", route, cron, certificate>>
=============================================================================
