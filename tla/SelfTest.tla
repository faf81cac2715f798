------------------------------ MODULE SelfTest ------------------------------
(***************************************************************************)
(* What a verification promises whoever reads status.verification, with no *)
(* passes, Jobs or pods: runs happen one after the other, and a verdict    *)
(* that is recorded is one that a run ended with, of the platform and the  *)
(* request it was started for.                                             *)
(***************************************************************************)
CONSTANTS
    Run,            \* what a run may be started for
    Verdict, None

VARIABLES
    running,        \* the run that is going, or None
    ended,          \* what runs ended with
    recorded        \* what status says, or None

vars == <<running, ended, recorded>>

Init == running = None /\ ended = {} /\ recorded = None

Start ==
    /\ running = None /\ running' \in Run
    /\ UNCHANGED <<ended, recorded>>

End ==
    /\ running # None /\ running' = None
    /\ \E v \in Verdict : ended' = ended \union {[of |-> running, verdict |-> v]}
    /\ UNCHANGED recorded

\* Verification is turned off, someone removes the Job, it is lost.
Drop ==
    /\ running # None /\ running' = None
    /\ UNCHANGED <<ended, recorded>>

Record ==
    /\ recorded' \in ended \union {None}
    /\ UNCHANGED <<running, ended>>

Next == Start \/ End \/ Drop \/ Record

Spec == Init /\ [][Next]_vars

=============================================================================
