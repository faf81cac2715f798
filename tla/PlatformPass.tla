---------------------------- MODULE PlatformPass ----------------------------
(***************************************************************************)
(* One pass of Reconcile over the Jobs that touch the bundled database: a  *)
(* copy of the Postgres onto its claim (database.go), a restore of a dump  *)
(* (restore.go), a realm run (realm.go) and a verification run (verify.go).*)
(* The pass decides about the first two before it renders, applies, and    *)
(* then takes a step of each in a fixed order; the status that remembers   *)
(* what it started is written last, with the resourceVersion it read.      *)
(*                                                                         *)
(* Abstracted: what a Job says, time (whether the switch window or the     *)
(* realm retry time has passed is an event), the renders themselves. Of a  *)
(* verification only its Job and whether status follows it are kept; how   *)
(* it decides to run is module Verification. The databases are bundled.    *)
(***************************************************************************)
EXTENDS Naturals, FiniteSets

CONSTANTS
    RestoreJob,     \* names a restore's Job may draw
    Request,        \* values of the zaentrum.io/restore-request annotation
    Dump,           \* those among them that name a dump
    NoRequest, NoJob,
    MaxToggles,     \* bound: edits of spec.storage.postgres.migrate
    MaxRequests,    \* bound: edits of the annotation
    MaxFaults,      \* bound: crashes, failed calls, Jobs removed by others
    MaxDrift        \* bound: changes of what the realm should hold, or of the images

ASSUME Sentinels == NoRequest \notin Request /\ NoJob \notin RestoreJob
ASSUME DumpsAreRequests == Dump \subseteq Request
ASSUME Bounds ==
    /\ MaxToggles \in Nat /\ MaxRequests \in Nat
    /\ MaxFaults \in Nat /\ MaxDrift \in Nat

VARIABLES
    \* the Zaentrum on the API server: spec, annotation, status
    migrate, request, rstatus, vrunning,
    \* the running Postgres's volume and what the claim holds
    live, claim,
    \* the Jobs, and the pods of restores (they outlive a Job that is deleted)
    copy, rjob, rpods, realm, realmDue, verify, backup,
    \* the database's clients: what was applied last, and whether pods are left
    wanted, clients,
    \* the pass
    pc, pass, stale,
    toggles, requests, faults, drift

spec    == <<migrate, request>>
status  == <<rstatus, vrunning>>
data    == <<live, claim>>
restore == <<rjob, rpods>>
runs    == <<realm, realmDue, verify>>
pods    == <<wanted, clients>>
counts  == <<toggles, requests, drift>>
vars    == <<migrate, request, rstatus, vrunning, live, claim, copy, rjob, rpods,
             realm, realmDue, verify, backup, wanted, clients, pc, pass, stale,
             toggles, requests, faults, drift>>

-----------------------------------------------------------------------------
Requests  == Request \union {NoRequest}
InFlight  == {"Stopping", "Running"}
Ended     == {"Succeeded", "Failed", "Refused"}

RestoreStatus == [result : InFlight \union Ended \union {"None"},
                  request : Requests, job : RestoreJob \union {NoJob}]

\* What the pass carries: its reading of the Zaentrum, the database plan, and
\* what its own steps found.
Pass == [rs : RestoreStatus, vrun : BOOLEAN,
         volume : {"emptyDir", "claim"}, copying : BOOLEAN, start : BOOLEAN,
         restoring : BOOLEAN, inflight : BOOLEAN, configuring : BOOLEAN]

NoRestore == [result |-> "None", request |-> NoRequest, job |-> NoJob]

NoPass == [rs |-> NoRestore, vrun |-> FALSE, volume |-> "emptyDir", copying |-> FALSE,
           start |-> FALSE, restoring |-> FALSE, inflight |-> FALSE, configuring |-> FALSE]

Init ==
    /\ migrate \in BOOLEAN /\ request = NoRequest
    /\ rstatus = NoRestore /\ vrunning = FALSE
    /\ live \in {"emptyDir", "claim"}
    /\ claim = IF live = "claim" THEN "whole" ELSE "empty"
    /\ copy = "none"
    /\ rjob = [n \in RestoreJob |-> "absent"] /\ rpods = {}
    /\ realm = "none" /\ realmDue = TRUE /\ verify = "none" /\ backup = FALSE
    /\ wanted = "up" /\ clients = "up"
    /\ pc = "idle" /\ pass = NoPass /\ stale = FALSE
    /\ toggles = 0 /\ requests = 0 /\ faults = 0 /\ drift = 0

Fault == faults < MaxFaults /\ faults' = faults + 1

-----------------------------------------------------------------------------
(* What the pass decides before it renders *)

\* planDatabase: where the Postgres's data is this render, whether a copy is in
\* flight or about to be, and whether the pass starts one. A copy that has just
\* succeeded is switched to; one that failed stays for a person to read.
PlanIgnoresFlight(available) ==
    IF live = "claim" \/ ~migrate THEN [volume |-> live, copying |-> FALSE, start |-> FALSE]
    ELSE IF copy \in {"active", "fresh"} THEN [volume |-> "claim", copying |-> TRUE, start |-> FALSE]
    ELSE IF copy = "failed" THEN [volume |-> live, copying |-> FALSE, start |-> FALSE]
    ELSE [volume |-> live, copying |-> TRUE, start |-> available]

PlanNotCopying(available) ==
    IF live = "claim" \/ ~migrate THEN [volume |-> live, copying |-> FALSE, start |-> FALSE]
    ELSE IF copy = "active" THEN [volume |-> live, copying |-> FALSE, start |-> FALSE]
    ELSE IF copy = "failed" THEN [volume |-> live, copying |-> FALSE, start |-> FALSE]
    ELSE IF copy = "fresh" THEN [volume |-> "claim", copying |-> TRUE, start |-> FALSE]
    ELSE [volume |-> live, copying |-> TRUE, start |-> available]

PlanDatabase(available) ==
    IF live = "claim" \/ ~migrate THEN [volume |-> live, copying |-> FALSE, start |-> FALSE]
    ELSE IF copy = "active" THEN [volume |-> live, copying |-> TRUE, start |-> FALSE]
    ELSE IF copy = "failed" THEN [volume |-> live, copying |-> FALSE, start |-> FALSE]
    ELSE IF copy = "fresh" THEN [volume |-> "claim", copying |-> TRUE, start |-> FALSE]
    ELSE [volume |-> live, copying |-> TRUE, start |-> available]

\* A copy never switched to in time is deleted while planning, to be taken again.
StaleCopy == live # "claim" /\ migrate /\ copy = "old"

\* restoring: the restore the status says is in flight.
RestoringStopped(rs) == rs.result = "Stopping"

Restoring(rs) == rs.result \in InFlight

\* planRestore: the restore in flight, else a request that was not answered and
\* can start now. While the database is copied it waits, unanswered.
PlanAnyRequest(copying) ==
    IF Restoring(rstatus) \/ request = NoRequest THEN rstatus
    ELSE IF request \notin Dump THEN [result |-> "Refused", request |-> request, job |-> NoJob]
    ELSE IF copying THEN rstatus
    ELSE [result |-> "Stopping", request |-> request, job |-> NoJob]

PlanDropsWaiting(copying) ==
    IF Restoring(rstatus) \/ request \in {NoRequest, rstatus.request} THEN rstatus
    ELSE IF request \notin Dump THEN [result |-> "Refused", request |-> request, job |-> NoJob]
    ELSE IF copying THEN [rstatus EXCEPT !.request = request]
    ELSE [result |-> "Stopping", request |-> request, job |-> NoJob]

PlanRestore(copying) ==
    IF Restoring(rstatus) \/ request \in {NoRequest, rstatus.request} THEN rstatus
    ELSE IF request \notin Dump THEN [result |-> "Refused", request |-> request, job |-> NoJob]
    ELSE IF copying THEN rstatus
    ELSE [result |-> "Stopping", request |-> request, job |-> NoJob]

-----------------------------------------------------------------------------
(* The pass, one action per step between which anything may happen *)

BeginPass(available) ==
    /\ pc = "idle"
    /\ LET db == PlanDatabase(available)
           rs == PlanRestore(db.copying)
       IN  pass' = [NoPass EXCEPT !.rs = rs, !.vrun = vrunning,
                        !.volume = db.volume, !.copying = db.copying,
                        !.start = db.start /\ ~Restoring(rs), !.restoring = Restoring(rs)]
    /\ copy' = IF StaleCopy THEN "none" ELSE copy
    /\ stale' = FALSE
    /\ pc' = "apply"
    /\ UNCHANGED <<spec, status, data, restore, runs, backup, pods, faults, counts>>

\* The Postgres moves onto its claim and everything is applied; a restore's
\* render stops the clients. An apply that fails may have done some of it, and
\* ends the pass with the status as it is.
ApplyPlatform ==
    /\ pc = "apply"
    /\ LET replicas == IF pass.restoring THEN "down" ELSE "up"
       IN  \/ /\ live' = pass.volume /\ wanted' = replicas
              /\ pc' = "copy"
              /\ UNCHANGED faults
           \/ /\ live' \in {live, pass.volume} /\ wanted' \in {wanted, replicas}
              /\ pc' = "write"
              /\ Fault
    /\ UNCHANGED <<spec, status, claim, copy, restore, runs, backup, clients, pass, stale, counts>>

\* startMigration, where planned: the Job may be there although the call failed.
StartCopy ==
    /\ pc = "copy"
    /\ \/ ~pass.start /\ UNCHANGED <<copy, claim, faults>>
       \/ pass.start /\ copy' = "active" /\ claim' = "partial" /\ UNCHANGED faults
       \/ pass.start /\ copy' = "active" /\ claim' = "partial" /\ Fault
       \/ pass.start /\ UNCHANGED <<copy, claim>> /\ Fault
    /\ pc' = "restore"
    /\ UNCHANGED <<spec, status, live, restore, runs, backup, pods, pass, stale, counts>>

\* The restore ends with this result; one that succeeded has the realm run again,
\* as its last run is deleted: a delete that fails goes unnoticed.
EndRestore(result) ==
    /\ pass' = [pass EXCEPT !.rs.result = result, !.inflight = FALSE]
    /\ realm' \in IF result = "Succeeded" THEN {"none", realm} ELSE {realm}
    /\ pc' = "realm"

WaitRestore ==
    /\ pass' = [pass EXCEPT !.inflight = TRUE]
    /\ pc' = "realm"
    /\ UNCHANGED realm

\* stepRestore: the restore's clients and the backups have to be gone before it
\* starts; a restore that runs is read from its Job.
StepRestore ==
    /\ pc = "restore"
    /\ \/ /\ ~Restoring(pass.rs)
          /\ pc' = "realm"
          /\ UNCHANGED <<pass, realm, faults>>
       \/ /\ Restoring(pass.rs)
          /\ WaitRestore /\ Fault           \* a read failed: next pass
       \/ /\ pass.rs.result = "Stopping" /\ (clients = "up" \/ backup)
          /\ WaitRestore /\ UNCHANGED faults
       \/ /\ pass.rs.result = "Stopping" /\ clients = "down" /\ ~backup
          /\ \/ pc' = "start" /\ UNCHANGED <<pass, realm, faults>>
             \/ EndRestore("Refused") /\ Fault      \* no claim to restore from
       \/ /\ pass.rs.result = "Running"
          /\ pass.rs.job = NoJob \/ rjob[pass.rs.job] = "absent"
          /\ EndRestore("Failed") /\ UNCHANGED faults
       \/ /\ pass.rs.result = "Running" /\ pass.rs.job # NoJob
          /\ \/ rjob[pass.rs.job] = "active" /\ WaitRestore
             \/ rjob[pass.rs.job] \in Ended /\ EndRestore(rjob[pass.rs.job])
          /\ UNCHANGED faults
    /\ UNCHANGED <<spec, status, data, copy, restore, realmDue, verify, backup, pods, stale, counts>>

\* Random names: one nobody refers to and no pod still carries.
Unused(n) == rjob[n] = "absent" /\ n \notin rpods /\ n # rstatus.job

\* The Jobs deleteRestoreJobs leaves when it gets no further than these.
Keep(kept) == [n \in RestoreJob |-> IF n \in kept THEN rjob[n] ELSE "absent"]

\* The previous restore Jobs are deleted, their pods right after, and the Job is
\* created. A Create that reports an error may have made it.
StartRestore ==
    /\ pc = "start"
    /\ \/ /\ \E kept \in SUBSET RestoreJob : rjob' = Keep(kept)
          /\ WaitRestore /\ Fault
          /\ UNCHANGED rpods
       \/ \E n \in RestoreJob :
             /\ Unused(n)
             /\ rjob' = [Keep({}) EXCEPT ![n] = "active"]
             /\ rpods' = rpods \union {n}
             /\ \/ /\ pass' = [pass EXCEPT !.rs.result = "Running", !.rs.job = n, !.inflight = TRUE]
                   /\ pc' = "realm"
                   /\ UNCHANGED <<realm, faults>>
                \/ EndRestore("Failed") /\ Fault
       \/ /\ rjob' = Keep({})
          /\ EndRestore("Failed") /\ Fault
          /\ UNCHANGED rpods
    /\ UNCHANGED <<spec, status, data, copy, realmDue, verify, backup, pods, stale, counts>>

\* configureRealm: the run in flight is waited for; one that is due starts when
\* Keycloak answers, nothing holds it and no verification run is recorded.
Configuring(b) == pass' = [pass EXCEPT !.configuring = b]

RealmWanted == realm = "none" \/ (realm # "active" /\ realmDue)

ConfigureRealm ==
    /\ pc = "realm"
    /\ LET held == pass.copying \/ pass.inflight \/ pass.vrun
       IN  \/ realm = "active" /\ Configuring(TRUE) /\ UNCHANGED <<realm, realmDue, faults>>
           \/ realm # "active" /\ ~RealmWanted /\ Configuring(FALSE)
              /\ UNCHANGED <<realm, realmDue, faults>>
           \/ RealmWanted /\ Configuring(FALSE)          \* Keycloak does not answer
              /\ UNCHANGED <<realm, realmDue, faults>>
           \/ RealmWanted /\ held /\ Configuring(TRUE) /\ UNCHANGED <<realm, realmDue, faults>>
           \/ RealmWanted /\ ~held /\ Configuring(TRUE)
              /\ realm' = "active" /\ realmDue' = FALSE
              /\ (UNCHANGED faults \/ Fault)             \* made, whatever the call said
           \/ Configuring(TRUE) /\ UNCHANGED <<realm, realmDue>> /\ Fault
           \/ RealmWanted /\ ~held /\ Configuring(TRUE)
              /\ realm' = "none" /\ UNCHANGED realmDue /\ Fault
    /\ pc' = "verify"
    /\ UNCHANGED <<spec, status, data, copy, restore, verify, backup, pods, stale, counts>>

\* verify: a recorded run is collected; else one may start, or one in flight that
\* status does not name is followed. The platform is not Ready while its clients
\* are scaled down.
MayVerifyUnconfigured == wanted = "up" /\ ~pass.copying /\ ~pass.inflight

MayVerify == wanted = "up" /\ ~pass.configuring /\ ~pass.copying /\ ~pass.inflight

VerifyPlatform ==
    /\ pc = "verify"
    /\ \/ /\ pass.vrun
          /\ pass' = [pass EXCEPT !.vrun = (verify = "active")]
          /\ UNCHANGED <<verify, faults>>
       \/ pass.vrun /\ UNCHANGED <<pass, verify>> /\ Fault      \* a read failed
       \/ ~pass.vrun /\ UNCHANGED <<pass, verify, faults>>
       \/ /\ ~pass.vrun /\ MayVerify
          /\ verify' = "active"
          /\ \/ pass' = [pass EXCEPT !.vrun = TRUE] /\ UNCHANGED faults
             \/ UNCHANGED pass /\ Fault        \* made, although the call failed
    /\ pc' = "write"
    /\ UNCHANGED <<spec, status, data, copy, restore, realm, realmDue, backup, pods, stale, counts>>

EndPass == pc' = "idle" /\ pass' = NoPass /\ stale' = FALSE

WriteStatus ==
    /\ pc = "write" /\ ~stale
    /\ rstatus' = pass.rs /\ vrunning' = pass.vrun
    /\ EndPass
    /\ UNCHANGED <<spec, data, copy, restore, runs, backup, pods, faults, counts>>

ConflictOnWrite ==
    /\ pc = "write" /\ stale
    /\ EndPass
    /\ UNCHANGED <<spec, status, data, copy, restore, runs, backup, pods, faults, counts>>

\* The operator dies, or an error returns before the status is written.
AbandonPass ==
    /\ pc # "idle" /\ Fault
    /\ EndPass
    /\ UNCHANGED <<spec, status, data, copy, restore, runs, backup, pods, counts>>

Step ==
    \/ \E available \in BOOLEAN : BeginPass(available)
    \/ ApplyPlatform \/ StartCopy
    \/ StepRestore \/ StartRestore
    \/ ConfigureRealm \/ VerifyPlatform
    \/ WriteStatus \/ ConflictOnWrite

-----------------------------------------------------------------------------
(* Around the pass: the user, the Jobs, the pods *)

ToggleMigrate ==
    /\ toggles < MaxToggles /\ toggles' = toggles + 1
    /\ migrate' = ~migrate
    /\ stale' = (pc # "idle")
    /\ UNCHANGED <<request, status, data, copy, restore, runs, backup, pods, pc, pass,
                   requests, faults, drift>>

RequestRestore(q) ==
    /\ requests < MaxRequests /\ requests' = requests + 1
    /\ q # request /\ request' = q
    /\ stale' = (pc # "idle")
    /\ UNCHANGED <<migrate, status, data, copy, restore, runs, backup, pods, pc, pass,
                   toggles, faults, drift>>

\* A person deletes a copy that failed, to have it taken again.
DeleteFailedCopy ==
    /\ copy = "failed" /\ copy' = "none"
    /\ toggles < MaxToggles /\ toggles' = toggles + 1
    /\ UNCHANGED <<spec, status, data, restore, runs, backup, pods, pc, pass, stale,
                   requests, faults, drift>>

EndCopy(outcome) ==
    /\ copy = "active" /\ copy' = outcome
    /\ claim' = IF outcome = "fresh" THEN "whole" ELSE claim
    /\ UNCHANGED <<spec, status, live, restore, runs, backup, pods, pc, pass, stale,
                   faults, counts>>

\* migrationSwitchWindow passes with no pass to see the copy: the operator was away.
AgeCopy ==
    /\ copy = "fresh" /\ copy' = "old"
    /\ Fault
    /\ UNCHANGED <<spec, status, data, restore, runs, backup, pods, pc, pass, stale, counts>>

EndRestoreJob(n, outcome) ==
    /\ rjob[n] = "active" /\ rjob' = [rjob EXCEPT ![n] = outcome]
    /\ rpods' = rpods \ {n}
    /\ UNCHANGED <<spec, status, data, copy, runs, backup, pods, pc, pass, stale, faults, counts>>

\* The pod of a deleted Job is gone at last.
EndOrphan(n) ==
    /\ n \in rpods /\ rjob[n] = "absent"
    /\ rpods' = rpods \ {n}
    /\ UNCHANGED <<spec, status, data, copy, rjob, runs, backup, pods, pc, pass, stale,
                   faults, counts>>

RemoveRestoreJob(n) ==
    /\ rjob[n] # "absent" /\ rjob' = [rjob EXCEPT ![n] = "absent"]
    /\ Fault
    /\ UNCHANGED <<spec, status, data, copy, rpods, runs, backup, pods, pc, pass, stale, counts>>

EndRealm(outcome) ==
    /\ realm = "active" /\ realm' = outcome
    /\ UNCHANGED <<spec, status, data, copy, restore, realmDue, verify, backup, pods, pc, pass,
                   stale, faults, counts>>

\* What the realm should hold changes, or the retry time of a failed run is over.
DriftRealm ==
    /\ drift < MaxDrift /\ drift' = drift + 1
    /\ ~realmDue /\ realmDue' = TRUE
    /\ UNCHANGED <<spec, status, data, copy, restore, realm, verify, backup, pods, pc, pass,
                   stale, toggles, requests, faults>>

EndVerify ==
    /\ verify = "active" /\ verify' = "done"
    /\ UNCHANGED <<spec, status, data, copy, restore, realm, realmDue, backup, pods, pc, pass,
                   stale, faults, counts>>

\* The backup CronJob, suspended by the render that stops the clients.
StartBackup ==
    /\ ~backup /\ wanted = "up" /\ backup' = TRUE
    /\ UNCHANGED <<spec, status, data, copy, restore, runs, pods, pc, pass, stale, faults, counts>>

EndBackup ==
    /\ backup /\ backup' = FALSE
    /\ UNCHANGED <<spec, status, data, copy, restore, runs, pods, pc, pass, stale, faults, counts>>

\* The Deployments' pods follow what was applied.
MoveClients ==
    /\ clients # wanted /\ clients' = wanted
    /\ UNCHANGED <<spec, status, data, copy, restore, runs, backup, wanted, pc, pass, stale,
                   faults, counts>>

Settles ==
    \/ \E o \in {"fresh", "failed"} : EndCopy(o)
    \/ \E n \in RestoreJob, o \in Ended : EndRestoreJob(n, o)
    \/ \E n \in RestoreJob : EndOrphan(n)
    \/ \E o \in {"done", "failed"} : EndRealm(o)
    \/ EndVerify \/ EndBackup \/ MoveClients

Environment ==
    \/ ToggleMigrate \/ DeleteFailedCopy
    \/ \E q \in Requests : RequestRestore(q)
    \/ AgeCopy \/ DriftRealm \/ StartBackup
    \/ \E n \in RestoreJob : RemoveRestoreJob(n)
    \/ Settles

Next == Step \/ AbandonPass \/ Environment

Spec == Init /\ [][Next]_vars

\* Passes recur and find the Postgres available again and again, a Job ends by
\* its deadline, a backup ends, and pods follow their Deployments.
FairSpec ==
    /\ Spec
    /\ WF_vars(Step)
    /\ SF_vars(BeginPass(TRUE))
    /\ WF_vars(\E o \in {"fresh", "failed"} : EndCopy(o))
    /\ \A n \in RestoreJob : WF_vars((\E o \in Ended : EndRestoreJob(n, o)) \/ EndOrphan(n))
    /\ WF_vars(EndBackup) /\ SF_vars(MoveClients)

-----------------------------------------------------------------------------
(* Properties *)

\* Every variable has its type; a restore that runs has a Job to be read from.
TypeOK ==
    /\ migrate \in BOOLEAN /\ request \in Requests
    /\ rstatus \in RestoreStatus /\ vrunning \in BOOLEAN
    /\ rstatus.result = "Running" => rstatus.job \in RestoreJob
    /\ live \in {"emptyDir", "claim"} /\ claim \in {"empty", "partial", "whole"}
    /\ copy \in {"none", "active", "fresh", "old", "failed"}
    /\ rjob \in [RestoreJob -> {"absent", "active"} \union Ended] /\ rpods \subseteq RestoreJob
    /\ realm \in {"none", "active", "done", "failed"} /\ realmDue \in BOOLEAN
    /\ verify \in {"none", "active", "done"} /\ backup \in BOOLEAN
    /\ wanted \in {"up", "down"} /\ clients \in {"up", "down"}
    /\ pc \in {"idle", "apply", "copy", "restore", "start", "realm", "verify", "write"}
    /\ pass \in Pass /\ stale \in BOOLEAN
    /\ toggles \in Nat /\ requests \in Nat /\ faults \in Nat /\ drift \in Nat

\* The Postgres never runs on a claim that does not hold a whole copy, however
\* often copies fail, age, are retaken or the switch is half-done: one started
\* on a volume without its data "would start empty" (database.go:33-34).
ServesWholeCopy == live = "claim" => claim = "whole"

\* While a restore is recorded as running, no client of the database has a pod
\* and no backup runs (restore.go:30-34), through every pass that follows it.
RestoresAlone == rstatus.result = "Running" => clients = "down" /\ ~backup

\* What the passes and the status are to whoever asks for a restore: the promise
\* of module RestorePromise, kept through lost status, faults and edits.
Recorded == [result |-> rstatus.result, request |-> rstatus.request]
AtWork == pc # "idle" /\ (Restoring(rstatus) \/ pass.rs.request # rstatus.request)
Work == IF AtWork THEN [result |-> pass.rs.result, request |-> pass.rs.request]
        ELSE [result |-> "None", request |-> NoRequest]
Serving == clients = "up" \/ backup

Promise == INSTANCE RestorePromise WITH
    Request <- Request, NoRequest <- NoRequest, Pod <- RestoreJob,
    recorded <- Recorded, work <- Work, serving <- Serving, writers <- rpods

KeepsRestorePromise == Promise!Spec

\* A restore that was answered is not started again: restoring over what was
\* written since would lose it (restore.go:28-29).
AnsweredOnce ==
    [][rpods' \subseteq rpods
       \/ rstatus.request # pass.rs.request \/ rstatus.result \in InFlight]_vars

\* While a copy is in flight nothing starts whose writes it would not carry:
\* no realm run, no verification (database.go:48-49), no restore (restore.go:43-45).
NothingStartsDuringCopy ==
    [][copy = "active" =>
          /\ rpods' \subseteq rpods
          /\ realm' = "active" => realm = "active"
          /\ verify' = "active" => verify = "active"]_vars

\* A verification run never starts beside a realm run (zaentrum_controller.go:309-311).
VerifyWaitsForRealm ==
    [][verify' = "active" /\ verify # "active" => realm # "active"]_vars

\* "A request made in the meantime waits" (restore.go:44), it is not dropped, and
\* neither waits for the other for ever: once edits stop, the request that stands
\* is answered with an outcome and a platform to be migrated is on its claim,
\* unless its copy failed.
RequestsEnd ==
    <>[](/\ request = NoRequest \/ (rstatus.request = request /\ rstatus.result \in Ended)
         /\ migrate => live = "claim" \/ copy = "failed")

\* "One restore at a time" (restore.go:43), said of what writes to the database.
OneRestore == \A m, n \in rpods : m = n

=============================================================================
