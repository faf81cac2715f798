------------------------------ MODULE MCAddon ------------------------------
(* One object of each kind; the addon is created twice. *)
EXTENDS Addon

=============================================================================
