--------------------------- MODULE RestorePromise ---------------------------
(***************************************************************************)
(* What a restore promises whoever asks for one and reads                  *)
(* status.backup.restore (restore.go:24-46), with no passes, plans, Jobs   *)
(* or Deployments. The operator works on one request at a time: one that   *)
(* is in flight, or one whose outcome is not recorded. It starts to write  *)
(* only where nobody serves, nobody serves while it says it is running,    *)
(* and its work is recorded as a whole or lost.                            *)
(***************************************************************************)
CONSTANTS
    Request, NoRequest,
    Pod             \* what writes to the database during a restore

VARIABLES
    recorded,       \* what status says: a request and how far it is
    work,           \* what is being done and not recorded, or Nothing
    serving,        \* whether anyone else may use the database
    writers         \* the pods that write

vars == <<recorded, work, serving, writers>>

InFlight == {"Stopping", "Running"}
Outcome == {"Succeeded", "Failed", "Refused"}
Nothing == [result |-> "None", request |-> NoRequest]

Init == recorded = Nothing /\ work = Nothing /\ serving = TRUE /\ writers = {}

\* The restore in flight is taken up again.
Resume ==
    /\ work = Nothing /\ recorded.result \in InFlight
    /\ work' = recorded
    /\ UNCHANGED <<recorded, serving, writers>>

\* A request that has no outcome yet is accepted, or refused at once.
Accept(q) ==
    /\ work = Nothing /\ recorded.result \notin InFlight /\ recorded.request # q
    /\ work' \in [result : {"Stopping", "Refused"}, request : {q}]
    /\ UNCHANGED <<recorded, serving, writers>>

\* The restore begins to write, and is known to, or is given up all the same.
Start(pod) ==
    /\ work.result = "Stopping" /\ ~serving /\ pod \notin writers
    /\ writers' = writers \union {pod}
    /\ \E result \in {"Running", "Failed"} : work' = [work EXCEPT !.result = result]
    /\ UNCHANGED <<recorded, serving>>

\* Only one that ran succeeds.
End(outcome) ==
    /\ work.result \in InFlight /\ (outcome = "Succeeded" => work.result = "Running")
    /\ work' = [work EXCEPT !.result = outcome]
    /\ UNCHANGED <<recorded, serving, writers>>

Record ==
    /\ work # Nothing /\ recorded' = work /\ work' = Nothing
    /\ UNCHANGED <<serving, writers>>

\* The status is not written: a crash, a conflict, an error.
Lose ==
    /\ work' = Nothing
    /\ UNCHANGED <<recorded, serving, writers>>

Stop(pod) ==
    /\ writers' = writers \ {pod}
    /\ UNCHANGED <<recorded, work, serving>>

Serve ==
    /\ recorded.result # "Running" /\ work.result # "Running"
    /\ serving' = TRUE
    /\ UNCHANGED <<recorded, work, writers>>

Leave ==
    /\ serving' = FALSE
    /\ UNCHANGED <<recorded, work, writers>>

Next ==
    \/ Resume \/ (\E q \in Request : Accept(q))
    \/ (\E pod \in Pod : Start(pod) \/ Stop(pod)) \/ (\E outcome \in Outcome : End(outcome))
    \/ Record \/ Lose \/ Serve \/ Leave

Spec == Init /\ [][Next]_vars

=============================================================================
