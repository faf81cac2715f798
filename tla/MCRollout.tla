----------------------------- MODULE MCRollout -----------------------------
(* A small instance of Rollout: two Deployments, one of them stopped for a  *)
(* restore, and two images, one of which no node can pull.                  *)
EXTENDS Rollout
=============================================================================
