---------------------------- MODULE MCAddonValues ----------------------------
(* Two values Secrets, two generated fields; the addon is created twice. *)
EXTENDS AddonValues

=============================================================================
