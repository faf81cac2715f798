----------------------------- MODULE MCChannel -----------------------------
(* A small instance of Channel: two releases and the moving tag. *)
EXTENDS Channel, TLC

Symmetry == Permutations(Release)
=============================================================================
