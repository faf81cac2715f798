--------------------------- MODULE MCPlatformPass ---------------------------
(* A small instance of PlatformPass. *)
EXTENDS PlatformPass, TLC

Symmetry == Permutations(RestoreJob)
=============================================================================
