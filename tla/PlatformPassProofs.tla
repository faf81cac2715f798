------------------------- MODULE PlatformPassProofs -------------------------
(***************************************************************************)
(* What a pass over the database's Jobs promises for every set of restore  *)
(* requests and Job names and every bound: the Postgres only ever runs on  *)
(* a whole copy, a recorded restore runs alone, an answered one is not     *)
(* started again, a verification waits for the realm run, a second restore *)
(* is only ever what a deleted Job left running and, while the migration   *)
(* is not turned off, a copy in flight runs alone. The whole is a          *)
(* RestorePromise.                                                         *)
(***************************************************************************)
EXTENDS PlatformPass, TLAPS

-----------------------------------------------------------------------------
\* Where the Postgres goes is where whole data is, and a copy is only planned
\* while the Postgres stays off the claim.
CopyInv ==
    /\ live = "claim" => claim = "whole"
    /\ copy \in {"fresh", "old"} => claim = "whole"
    /\ pc # "idle" /\ pass.volume = "claim" => claim = "whole"
    /\ pc \in {"apply", "copy"} /\ pass.start => live = "emptyDir" /\ pass.volume = "emptyDir"

\* From the plan to the step, a restore in flight keeps its clients down.
Quiet == wanted = "down" /\ clients = "down" /\ ~backup

RestoreInv ==
    /\ rstatus.result = "Running" => Quiet
    /\ pc # "idle" /\ pass.rs.result = "Running" => Quiet
    /\ pc = "start" => Quiet /\ pass.rs.result = "Stopping"
    /\ pc \in {"apply", "copy", "restore"} => pass.restoring = Restoring(pass.rs)
    /\ pc \in {"copy", "restore"} /\ pass.restoring => wanted = "down"
    /\ pc = "apply" /\ rstatus.result = "Running" => pass.restoring
    /\ pc \in {"apply", "copy", "restore", "start"} /\ Restoring(pass.rs) =>
           Restoring(rstatus) \/ rstatus.request # pass.rs.request

\* A run that was found in flight is still known to be when the verification is asked.
RealmInv == pc = "verify" /\ realm = "active" => pass.configuring

\* A restore that runs has its Job.
HasJob == pass.rs.result = "Running" => pass.rs.job \in RestoreJob

TypeInv == TypeOK /\ HasJob

-----------------------------------------------------------------------------
LEMMA PlanTypes ==
    ASSUME TypeOK, NEW copying \in BOOLEAN, NEW available \in BOOLEAN
    PROVE  /\ PlanRestore(copying) \in RestoreStatus
           /\ PlanRestore(copying).result = "Running" => PlanRestore(copying).job \in RestoreJob
           /\ PlanDatabase(available) \in [volume : {"emptyDir", "claim"}, copying : BOOLEAN,
                                           start : BOOLEAN]
<1>1. /\ PlanRestore(copying) \in RestoreStatus
      /\ PlanRestore(copying).result = "Running" => PlanRestore(copying).job \in RestoreJob
  BY DEF PlanRestore, TypeOK, RestoreStatus, InFlight, Ended, Requests
<1>2. PlanDatabase(available) \in [volume : {"emptyDir", "claim"}, copying : BOOLEAN, start : BOOLEAN]
  BY DEF PlanDatabase, TypeOK
<1> QED BY <1>1, <1>2

\* What BeginPass makes of the plans.
LEMMA Planned ==
    ASSUME TypeOK, NEW available \in BOOLEAN, BeginPass(available)
    PROVE  \E copying \in BOOLEAN :
               /\ copying = PlanDatabase(available).copying
               /\ pass' = [rs |-> PlanRestore(copying), vrun |-> vrunning,
                           volume |-> PlanDatabase(available).volume, copying |-> copying,
                           start |-> PlanDatabase(available).start /\ ~Restoring(PlanRestore(copying)),
                           restoring |-> Restoring(PlanRestore(copying)),
                           inflight |-> FALSE, configuring |-> FALSE]
<1>1. PlanDatabase(available).copying \in BOOLEAN
  BY PlanTypes DEF TypeOK
<1> QED BY <1>1 DEF BeginPass, NoPass

LEMMA NoPassType == NoPass \in Pass /\ NoPass.rs.result = "None" /\ NoRestore \in RestoreStatus
BY DEF NoPass, Pass, NoRestore, RestoreStatus, Requests

LEMMA FaultType == ASSUME TypeOK, Fault PROVE faults' \in Nat
BY DEF Fault, TypeOK

LEMMA EndRestoreType ==
    ASSUME TypeInv, NEW result \in Ended, EndRestore(result)
    PROVE  /\ pass' \in Pass /\ HasJob'
           /\ realm' \in {"none", "active", "done", "failed"}
           /\ pc' = "realm" /\ pass'.rs.result = result
<1>1. pass' = [pass EXCEPT !.rs = [pass.rs EXCEPT !.result = result], !.inflight = FALSE]
  BY DEF EndRestore, TypeInv, TypeOK, Pass
<1>2. [pass.rs EXCEPT !.result = result] \in RestoreStatus
  BY DEF TypeInv, TypeOK, Pass, RestoreStatus
<1>3. pass' \in Pass /\ pass'.rs.result = result
  BY <1>1, <1>2 DEF TypeInv, TypeOK, Pass, RestoreStatus
<1>4. result # "Running"
  BY DEF Ended
<1> QED BY <1>3, <1>4 DEF EndRestore, HasJob, TypeInv, TypeOK

LEMMA WaitRestoreType ==
    ASSUME TypeInv, WaitRestore
    PROVE  pass' \in Pass /\ HasJob' /\ realm' = realm /\ pc' = "realm" /\ pass'.rs = pass.rs
BY DEF TypeInv, TypeOK, WaitRestore, Pass, HasJob

\* Types are kept by every step.
LEMMA TypeStep == TypeInv /\ [Next]_vars => TypeInv'
<1> SUFFICES ASSUME TypeInv, [Next]_vars PROVE TypeInv'
  OBVIOUS
<1>0. TypeOK /\ HasJob
  BY DEF TypeInv
<1> USE DEF TypeInv
<1>1. ASSUME NEW available \in BOOLEAN, BeginPass(available) PROVE TypeInv'
  <2>1. PICK copying \in BOOLEAN :
               /\ copying = PlanDatabase(available).copying
               /\ pass' = [rs |-> PlanRestore(copying), vrun |-> vrunning,
                           volume |-> PlanDatabase(available).volume, copying |-> copying,
                           start |-> PlanDatabase(available).start /\ ~Restoring(PlanRestore(copying)),
                           restoring |-> Restoring(PlanRestore(copying)),
                           inflight |-> FALSE, configuring |-> FALSE]
    BY <1>1, Planned
  <2>2. /\ PlanRestore(copying) \in RestoreStatus
        /\ PlanRestore(copying).result = "Running" => PlanRestore(copying).job \in RestoreJob
        /\ PlanDatabase(available).volume \in {"emptyDir", "claim"}
        /\ (PlanDatabase(available).start /\ ~Restoring(PlanRestore(copying))) \in BOOLEAN
        /\ Restoring(PlanRestore(copying)) \in BOOLEAN
    BY PlanTypes DEF Restoring
  <2>3. pass' \in Pass /\ HasJob'
    BY <2>1, <2>2 DEF Pass, HasJob, TypeOK
  <2>4. copy' \in {"none", "active", "fresh", "old", "failed"}
    BY <1>1 DEF BeginPass, TypeOK
  <2>5. pc' = "apply" /\ stale' \in BOOLEAN
    BY <1>1 DEF BeginPass
  <2>6. UNCHANGED <<migrate, request, rstatus, vrunning, live, claim, rjob, rpods, realm, realmDue,
                    verify, backup, wanted, clients, faults, toggles, requests, drift>>
    BY <1>1 DEF BeginPass, spec, status, data, restore, runs, pods, counts
  <2> QED BY <2>3, <2>4, <2>5, <2>6 DEF TypeOK
<1>2. CASE ApplyPlatform
  <2>1. live' \in {"emptyDir", "claim"} /\ wanted' \in {"up", "down"} /\ faults' \in Nat
    BY <1>2, FaultType DEF ApplyPlatform, TypeOK, Pass
  <2> QED BY <1>2, <2>1 DEF ApplyPlatform, TypeOK, HasJob, spec, status, restore, runs, counts
<1>3. CASE StartCopy
  <2>1. faults' \in Nat
    BY <1>3, FaultType DEF StartCopy, TypeOK
  <2> QED BY <1>3, <2>1 DEF StartCopy, TypeOK, HasJob, spec, status, restore, runs, pods, counts
<1>4. CASE StepRestore
  <2>1. /\ pass' \in Pass /\ HasJob' /\ realm' \in {"none", "active", "done", "failed"}
        /\ pc' \in {"realm", "start"}
    <3>1. CASE WaitRestore
      BY <3>1, WaitRestoreType DEF TypeOK
    <3>2. CASE \E result \in Ended : EndRestore(result)
      BY <3>2, EndRestoreType
    <3>3. CASE UNCHANGED <<pass, realm>> /\ pc' \in {"realm", "start"}
      BY <3>3 DEF TypeOK, HasJob
    <3>4. WaitRestore \/ (\E result \in Ended : EndRestore(result))
          \/ (UNCHANGED <<pass, realm>> /\ pc' \in {"realm", "start"})
      BY <1>4 DEF StepRestore, Ended
    <3> QED BY <3>1, <3>2, <3>3, <3>4
  <2>2. faults' \in Nat
    BY <1>4, FaultType DEF StepRestore, TypeOK
  <2> QED BY <1>4, <2>1, <2>2 DEF StepRestore, TypeOK, spec, status, data, restore, pods, counts
<1>5. CASE StartRestore
  <2>1. ASSUME NEW n \in RestoreJob,
               pass' = [pass EXCEPT !.rs.result = "Running", !.rs.job = n, !.inflight = TRUE]
        PROVE  pass' \in Pass /\ HasJob'
    <3>1. [pass.rs EXCEPT !.result = "Running", !.job = n] \in RestoreStatus
      BY DEF TypeOK, Pass, RestoreStatus, InFlight
    <3>2. pass' = [pass EXCEPT !.rs = [pass.rs EXCEPT !.result = "Running", !.job = n], !.inflight = TRUE]
      BY <2>1 DEF TypeOK, Pass, RestoreStatus
    <3> QED BY <3>1, <3>2 DEF TypeOK, Pass, HasJob, RestoreStatus
  <2>2. /\ pass' \in Pass /\ HasJob' /\ realm' \in {"none", "active", "done", "failed"}
        /\ pc' = "realm"
    BY <1>5, <2>1, EndRestoreType, WaitRestoreType DEF StartRestore, TypeOK, Ended
  <2>3. faults' \in Nat
    BY <1>5, FaultType DEF StartRestore, TypeOK
  <2>4. rjob' \in [RestoreJob -> {"absent", "active"} \union Ended] /\ rpods' \subseteq RestoreJob
    <3>1. \A kept \in SUBSET RestoreJob : Keep(kept) \in [RestoreJob -> {"absent", "active"} \union Ended]
      BY DEF Keep, TypeOK
    <3>2. rpods' \subseteq RestoreJob
      BY <1>5 DEF StartRestore, TypeOK
    <3>3. \/ \E kept \in SUBSET RestoreJob : rjob' = Keep(kept)
          \/ \E n \in RestoreJob : rjob' = [Keep({}) EXCEPT ![n] = "active"]
      BY <1>5 DEF StartRestore
    <3> QED BY <3>1, <3>2, <3>3
  <2>5. UNCHANGED <<spec, status, data, copy, realmDue, verify, backup, pods, stale, counts>>
    BY <1>5 DEF StartRestore
  <2> QED BY <2>2, <2>3, <2>4, <2>5 DEF TypeOK, spec, status, data, pods, counts
<1>6. CASE ConfigureRealm
  <2>1. \E b \in BOOLEAN : pass' = [pass EXCEPT !.configuring = b]
    BY <1>6 DEF ConfigureRealm, Configuring
  <2>2. pass' \in Pass /\ HasJob'
    BY <2>1 DEF TypeOK, Pass, HasJob
  <2>3. /\ faults' \in Nat /\ realmDue' \in BOOLEAN /\ pc' = "verify"
        /\ realm' \in {"none", "active", "done", "failed"}
    BY <1>6, FaultType DEF ConfigureRealm, TypeOK
  <2> QED BY <1>6, <2>2, <2>3 DEF ConfigureRealm, TypeOK, spec, status, data, restore, pods, counts
<1>7. CASE VerifyPlatform
  <2>1. \E b \in BOOLEAN : pass' = [pass EXCEPT !.vrun = b] \/ pass' = pass
    BY <1>7 DEF VerifyPlatform
  <2>2. pass' \in Pass /\ HasJob'
    BY <2>1 DEF TypeOK, Pass, HasJob
  <2>3. faults' \in Nat /\ verify' \in {"none", "active", "done"} /\ pc' = "write"
    BY <1>7, FaultType DEF VerifyPlatform, TypeOK
  <2> QED BY <1>7, <2>2, <2>3 DEF VerifyPlatform, TypeOK, spec, status, data, restore, pods, counts
<1>8. CASE WriteStatus \/ ConflictOnWrite \/ AbandonPass
  <2>1. /\ pc' = "idle" /\ pass' = NoPass /\ stale' = FALSE
        /\ UNCHANGED <<spec, data, copy, restore, runs, backup, pods, counts>>
    BY <1>8 DEF WriteStatus, ConflictOnWrite, AbandonPass, EndPass
  <2>2. (rstatus' = rstatus /\ vrunning' = vrunning) \/ (rstatus' = pass.rs /\ vrunning' = pass.vrun)
    BY <1>8 DEF WriteStatus, ConflictOnWrite, AbandonPass, status
  <2>3. faults' \in Nat
    BY <1>8, FaultType DEF WriteStatus, ConflictOnWrite, AbandonPass, TypeOK
  <2>4. rstatus' \in RestoreStatus /\ vrunning' \in BOOLEAN
        /\ (rstatus'.result = "Running" => rstatus'.job \in RestoreJob)
    BY <2>2 DEF TypeOK, HasJob, Pass
  <2>5. pass' \in Pass /\ HasJob'
    BY <2>1, NoPassType DEF HasJob
  <2>6. UNCHANGED <<migrate, request, live, claim, copy, rjob, rpods, realm, realmDue, verify,
                    backup, wanted, clients, toggles, requests, drift>>
    BY <2>1 DEF spec, data, restore, runs, pods, counts
  <2>7. pc' = "idle" /\ stale' \in BOOLEAN
    BY <2>1
  <2> QED BY <2>3, <2>4, <2>5, <2>6, <2>7 DEF TypeOK
<1>9. CASE Environment
  <2>0. /\ faults' \in Nat /\ toggles' \in Nat /\ requests' \in Nat /\ drift' \in Nat
    BY <1>9, FaultType DEF Environment, Settles, ToggleMigrate, DeleteFailedCopy, AgeCopy, DriftRealm,
        StartBackup, RequestRestore, RemoveRestoreJob, EndCopy, EndRestoreJob, EndOrphan, EndRealm,
        EndVerify, EndBackup, MoveClients, counts, TypeOK
  <2>1. /\ migrate' \in BOOLEAN /\ request' \in Requests /\ stale' \in BOOLEAN
        /\ realmDue' \in BOOLEAN /\ backup' \in BOOLEAN
    BY <1>9 DEF Environment, Settles, ToggleMigrate, DeleteFailedCopy, AgeCopy, DriftRealm,
        StartBackup, RequestRestore, RemoveRestoreJob, EndCopy, EndRestoreJob, EndOrphan, EndRealm,
        EndVerify, EndBackup, MoveClients, spec, runs, TypeOK
  <2>2. /\ copy' \in {"none", "active", "fresh", "old", "failed"}
        /\ claim' \in {"empty", "partial", "whole"}
        /\ realm' \in {"none", "active", "done", "failed"}
        /\ verify' \in {"none", "active", "done"}
        /\ clients' \in {"up", "down"}
    BY <1>9 DEF Environment, Settles, ToggleMigrate, DeleteFailedCopy, AgeCopy, DriftRealm,
        StartBackup, RequestRestore, RemoveRestoreJob, EndCopy, EndRestoreJob, EndOrphan, EndRealm,
        EndVerify, EndBackup, MoveClients, data, runs, pods, TypeOK
  <2>3. rjob' \in [RestoreJob -> {"absent", "active"} \union Ended] /\ rpods' \subseteq RestoreJob
    BY <1>9 DEF Environment, Settles, ToggleMigrate, DeleteFailedCopy, AgeCopy, DriftRealm,
        StartBackup, RequestRestore, RemoveRestoreJob, EndCopy, EndRestoreJob, EndOrphan, EndRealm,
        EndVerify, EndBackup, MoveClients, restore, TypeOK
  <2>4. UNCHANGED <<rstatus, vrunning, live, wanted, pc, pass>>
    BY <1>9 DEF Environment, Settles, ToggleMigrate, DeleteFailedCopy, AgeCopy, DriftRealm,
        StartBackup, RequestRestore, RemoveRestoreJob, EndCopy, EndRestoreJob, EndOrphan, EndRealm,
        EndVerify, EndBackup, MoveClients, status, data, pods
  <2> QED BY <2>0, <2>1, <2>2, <2>3, <2>4 DEF TypeOK, HasJob
<1>10. CASE UNCHANGED vars
  BY <1>10 DEF vars, TypeOK, HasJob
<1> QED BY <1>1, <1>2, <1>3, <1>4, <1>5, <1>6, <1>7, <1>8, <1>9, <1>10 DEF Next, Step

LEMMA TypeInit == Init => TypeInv
<1> SUFFICES ASSUME Init PROVE TypeInv
  OBVIOUS
<1>1. /\ migrate \in BOOLEAN /\ request \in Requests /\ vrunning \in BOOLEAN
      /\ realmDue \in BOOLEAN /\ backup \in BOOLEAN /\ stale \in BOOLEAN
  BY DEF Init, Requests
<1>2. /\ rstatus \in RestoreStatus /\ rstatus.result # "Running"
      /\ pass \in Pass /\ HasJob
  BY NoPassType DEF Init, NoRestore, HasJob
<1>3. /\ live \in {"emptyDir", "claim"} /\ claim \in {"empty", "partial", "whole"}
      /\ rjob \in [RestoreJob -> {"absent", "active"} \union Ended] /\ rpods \subseteq RestoreJob
  BY DEF Init
<1>4. /\ copy \in {"none", "active", "fresh", "old", "failed"}
      /\ realm \in {"none", "active", "done", "failed"} /\ verify \in {"none", "active", "done"}
      /\ wanted \in {"up", "down"} /\ clients \in {"up", "down"}
      /\ pc \in {"idle", "apply", "copy", "restore", "start", "realm", "verify", "write"}
      /\ toggles \in Nat /\ requests \in Nat /\ faults \in Nat /\ drift \in Nat
  BY DEF Init
<1> QED BY <1>1, <1>2, <1>3, <1>4 DEF TypeOK, TypeInv

\* Every reachable state is well typed, and a restore recorded as running, or
\* carried as running by a pass, names the Job it is read from (restore.go:198).
THEOREM TypeCorrect == Spec => []TypeOK
<1>1. Spec => []TypeInv
  BY TypeInit, TypeStep, PTL DEF Spec
<1> QED BY <1>1, PTL DEF TypeInv

-----------------------------------------------------------------------------
\* What one step of the restore leaves of the pass.
LEMMA RestoreSteps ==
    ASSUME TypeInv, StepRestore
    PROVE  \/ pc' = "realm" /\ pass'.rs = pass.rs
           \/ pc' = "realm" /\ pass'.rs.result \in Ended
           \/ /\ pc' = "start" /\ pass' = pass
              /\ pass.rs.result = "Stopping" /\ clients = "down" /\ ~backup
<1>1. CASE WaitRestore
  BY <1>1, WaitRestoreType
<1>2. CASE \E result \in Ended : EndRestore(result)
  BY <1>2, EndRestoreType
<1>3. \/ WaitRestore
      \/ \E result \in Ended : EndRestore(result)
      \/ pc' = "realm" /\ pass' = pass
      \/ /\ pc' = "start" /\ pass' = pass
         /\ pass.rs.result = "Stopping" /\ clients = "down" /\ ~backup
  BY DEF StepRestore, Ended
<1> QED BY <1>1, <1>2, <1>3

\* The copy's facts are kept by every step.
LEMMA CopyStep == TypeInv /\ CopyInv /\ [Next]_vars => CopyInv'
<1> SUFFICES ASSUME TypeInv, CopyInv, [Next]_vars PROVE CopyInv'
  OBVIOUS
<1>0. TypeOK
  BY DEF TypeInv
<1>1. ASSUME NEW available \in BOOLEAN, BeginPass(available) PROVE CopyInv'
  <2>1. PICK copying \in BOOLEAN :
               /\ copying = PlanDatabase(available).copying
               /\ pass' = [rs |-> PlanRestore(copying), vrun |-> vrunning,
                           volume |-> PlanDatabase(available).volume, copying |-> copying,
                           start |-> PlanDatabase(available).start /\ ~Restoring(PlanRestore(copying)),
                           restoring |-> Restoring(PlanRestore(copying)),
                           inflight |-> FALSE, configuring |-> FALSE]
    BY <1>0, <1>1, Planned
  <2>2. /\ pass'.volume = PlanDatabase(available).volume
        /\ pass'.start => PlanDatabase(available).start
    BY <2>1
  <2>3. /\ UNCHANGED <<live, claim>> /\ pc' = "apply"
        /\ copy' = copy \/ copy' = "none"
    BY <1>1 DEF BeginPass, data
  <2>4. PlanDatabase(available).volume = "claim" => live = "claim" \/ copy = "fresh"
    BY DEF PlanDatabase
  <2>5. PlanDatabase(available).start => live = "emptyDir" /\ PlanDatabase(available).volume = "emptyDir"
    BY <1>0 DEF PlanDatabase, TypeOK
  <2> QED BY <2>2, <2>3, <2>4, <2>5 DEF CopyInv
<1>2. CASE ApplyPlatform
  BY <1>2, <1>0 DEF ApplyPlatform, CopyInv, TypeOK
<1>3. CASE StartCopy
  BY <1>3 DEF StartCopy, CopyInv
<1>4. CASE StepRestore
  <2>1. pass'.volume = pass.volume /\ pc' \in {"realm", "start"}
    BY <1>4, <1>0 DEF StepRestore, WaitRestore, EndRestore, TypeOK, Pass
  <2> QED BY <1>4, <2>1 DEF StepRestore, CopyInv, data
<1>5. CASE StartRestore
  <2>1. pass'.volume = pass.volume /\ pc' = "realm"
    BY <1>5, <1>0 DEF StartRestore, WaitRestore, EndRestore, TypeOK, Pass
  <2> QED BY <1>5, <2>1 DEF StartRestore, CopyInv, data
<1>6. CASE ConfigureRealm
  <2>1. pass'.volume = pass.volume /\ pc' = "verify"
    BY <1>6, <1>0 DEF ConfigureRealm, Configuring, TypeOK, Pass
  <2> QED BY <1>6, <2>1 DEF ConfigureRealm, CopyInv, data
<1>7. CASE VerifyPlatform
  <2>1. pass'.volume = pass.volume /\ pc' = "write"
    BY <1>7, <1>0 DEF VerifyPlatform, TypeOK, Pass
  <2> QED BY <1>7, <2>1 DEF VerifyPlatform, CopyInv, data
<1>8. CASE WriteStatus \/ ConflictOnWrite \/ AbandonPass
  BY <1>8 DEF WriteStatus, ConflictOnWrite, AbandonPass, EndPass, data, CopyInv
<1>9. CASE Environment
  <2>1. UNCHANGED <<live, pc, pass>>
    BY <1>9 DEF Environment, Settles, ToggleMigrate, DeleteFailedCopy, AgeCopy, DriftRealm,
        StartBackup, RequestRestore, RemoveRestoreJob, EndCopy, EndRestoreJob, EndOrphan, EndRealm,
        EndVerify, EndBackup, MoveClients, data
  <2>2. \/ UNCHANGED <<copy, claim>>
        \/ copy' \in {"none", "failed"} /\ claim' = claim
        \/ copy' = "fresh" /\ claim' = "whole"
        \/ copy = "fresh" /\ copy' = "old" /\ claim' = claim
    BY <1>9 DEF Environment, Settles, ToggleMigrate, DeleteFailedCopy, AgeCopy, DriftRealm,
        StartBackup, RequestRestore, RemoveRestoreJob, EndCopy, EndRestoreJob, EndOrphan, EndRealm,
        EndVerify, EndBackup, MoveClients, data
  <2> QED BY <2>1, <2>2 DEF CopyInv
<1>10. CASE UNCHANGED vars
  BY <1>10 DEF vars, CopyInv
<1> QED BY <1>1, <1>2, <1>3, <1>4, <1>5, <1>6, <1>7, <1>8, <1>9, <1>10 DEF Next, Step

\* However copies fail, age, are retaken, and however a switch is half-done, the
\* Postgres is only moved onto a claim a copy completed (database.go:132-163, 206-234).
THEOREM OnlyWholeCopies == Spec => []ServesWholeCopy
<1>1. Init => CopyInv
  BY DEF Init, CopyInv
<1>2. Spec => [](TypeInv /\ CopyInv)
  BY <1>1, TypeInit, TypeStep, CopyStep, PTL DEF Spec
<1>3. CopyInv => ServesWholeCopy
  BY DEF CopyInv, ServesWholeCopy
<1> QED BY <1>2, <1>3, PTL

-----------------------------------------------------------------------------
\* The restore's facts are kept by every step.
LEMMA RestoreStep == TypeInv /\ RestoreInv /\ [Next]_vars => RestoreInv'
<1> SUFFICES ASSUME TypeInv, RestoreInv, [Next]_vars PROVE RestoreInv'
  OBVIOUS
<1>0. TypeOK
  BY DEF TypeInv
<1>1. ASSUME NEW available \in BOOLEAN, BeginPass(available) PROVE RestoreInv'
  <2>1. PICK copying \in BOOLEAN :
               /\ copying = PlanDatabase(available).copying
               /\ pass' = [rs |-> PlanRestore(copying), vrun |-> vrunning,
                           volume |-> PlanDatabase(available).volume, copying |-> copying,
                           start |-> PlanDatabase(available).start /\ ~Restoring(PlanRestore(copying)),
                           restoring |-> Restoring(PlanRestore(copying)),
                           inflight |-> FALSE, configuring |-> FALSE]
    BY <1>0, <1>1, Planned
  <2>2. /\ pass'.rs = PlanRestore(copying)
        /\ pass'.restoring = Restoring(pass'.rs)
    BY <2>1
  <2>3. UNCHANGED <<rstatus, wanted, clients, backup>> /\ pc' = "apply"
    BY <1>1 DEF BeginPass, status, pods
  <2>4. /\ PlanRestore(copying).result = "Running" => rstatus.result = "Running"
        /\ Restoring(rstatus) => PlanRestore(copying) = rstatus
        /\ Restoring(PlanRestore(copying)) =>
               Restoring(rstatus) \/ rstatus.request # PlanRestore(copying).request
    BY DEF PlanRestore, Restoring, InFlight
  <2>5. rstatus.result = "Running" => Restoring(rstatus)
    BY DEF Restoring, InFlight
  <2> QED BY <2>2, <2>3, <2>4, <2>5 DEF RestoreInv, Quiet
<1>2. CASE ApplyPlatform
  <2>1. UNCHANGED <<rstatus, clients, backup, pass>>
    BY <1>2 DEF ApplyPlatform, status
  <2>2. /\ pass.restoring => wanted' \in {wanted, "down"}
        /\ pc' = "copy" /\ pass.restoring => wanted' = "down"
        /\ pc' \in {"copy", "write"}
    BY <1>2 DEF ApplyPlatform
  <2>3. pass.rs.result = "Running" => pass.restoring
    BY <1>2 DEF ApplyPlatform, RestoreInv, Restoring, InFlight
  <2>4. pc = "apply"
    BY <1>2 DEF ApplyPlatform
  <2>5. \A rs : rs.result = "Running" => Restoring(rs)
    BY DEF Restoring, InFlight
  <2> QED BY <2>1, <2>2, <2>3, <2>4, <2>5 DEF RestoreInv, Quiet
<1>3. CASE StartCopy
  BY <1>3 DEF StartCopy, RestoreInv, Quiet, status, pods
<1>4. CASE StepRestore
  <2>1. UNCHANGED <<rstatus, wanted, clients, backup>> /\ pc = "restore"
    BY <1>4 DEF StepRestore, status, pods
  <2>2. pass.rs.result = "Stopping" => Restoring(pass.rs)
    BY DEF Restoring, InFlight
  <2>3. CASE pc' = "realm" /\ pass'.rs = pass.rs
    BY <2>1, <2>3 DEF RestoreInv, Quiet
  <2>4. CASE pc' = "realm" /\ pass'.rs.result \in Ended
    BY <2>1, <2>4 DEF RestoreInv, Quiet, Ended
  <2>5. CASE /\ pc' = "start" /\ pass' = pass
             /\ pass.rs.result = "Stopping" /\ clients = "down" /\ ~backup
    BY <2>1, <2>2, <2>5 DEF RestoreInv, Quiet
  <2> QED BY <1>4, <2>3, <2>4, <2>5, RestoreSteps
<1>5. CASE StartRestore
  <2>1. UNCHANGED <<rstatus, wanted, clients, backup>> /\ pc = "start" /\ pc' = "realm"
    BY <1>5 DEF StartRestore, WaitRestore, EndRestore, status, pods
  <2> QED BY <2>1 DEF RestoreInv, Quiet
<1>6. CASE ConfigureRealm
  <2>1. pass'.rs = pass.rs /\ pc = "realm" /\ pc' = "verify"
    BY <1>6, <1>0 DEF ConfigureRealm, Configuring, TypeOK, Pass
  <2> QED BY <1>6, <2>1 DEF ConfigureRealm, RestoreInv, Quiet, status, pods
<1>7. CASE VerifyPlatform
  <2>1. pass'.rs = pass.rs /\ pc = "verify" /\ pc' = "write"
    BY <1>7, <1>0 DEF VerifyPlatform, TypeOK, Pass
  <2> QED BY <1>7, <2>1 DEF VerifyPlatform, RestoreInv, Quiet, status, pods
<1>8. CASE WriteStatus \/ ConflictOnWrite \/ AbandonPass
  <2>1. UNCHANGED <<wanted, clients, backup>> /\ pc' = "idle" /\ pc # "idle"
    BY <1>8 DEF WriteStatus, ConflictOnWrite, AbandonPass, EndPass, pods
  <2>2. rstatus' = rstatus \/ rstatus' = pass.rs
    BY <1>8 DEF WriteStatus, ConflictOnWrite, AbandonPass, status
  <2> QED BY <2>1, <2>2 DEF RestoreInv, Quiet
<1>9. CASE Environment
  <2>1. UNCHANGED <<rstatus, wanted, pc, pass>>
    BY <1>9 DEF Environment, Settles, ToggleMigrate, DeleteFailedCopy, AgeCopy, DriftRealm,
        StartBackup, RequestRestore, RemoveRestoreJob, EndCopy, EndRestoreJob, EndOrphan, EndRealm,
        EndVerify, EndBackup, MoveClients, status, pods
  <2>2. Quiet => Quiet'
    BY <1>9 DEF Environment, Settles, ToggleMigrate, DeleteFailedCopy, AgeCopy, DriftRealm,
        StartBackup, RequestRestore, RemoveRestoreJob, EndCopy, EndRestoreJob, EndOrphan, EndRealm,
        EndVerify, EndBackup, MoveClients, pods, Quiet
  <2> QED BY <2>1, <2>2 DEF RestoreInv
<1>10. CASE UNCHANGED vars
  BY <1>10 DEF vars, RestoreInv, Quiet
<1> QED BY <1>1, <1>2, <1>3, <1>4, <1>5, <1>6, <1>7, <1>8, <1>9, <1>10 DEF Next, Step

LEMMA RestoreAlways == Spec => [](TypeInv /\ RestoreInv)
<1>1. Init => RestoreInv
  BY DEF Init, NoRestore, RestoreInv
<1> QED BY <1>1, TypeInit, TypeStep, RestoreStep, PTL DEF Spec

\* A restore recorded as running keeps every client of the database down and
\* finds no backup, however many passes, failed applies and crashes follow
\* (restore.go:160-175, zaentrum_controller.go:153-159).
THEOREM RestoreRunsAlone == Spec => []RestoresAlone
<1>1. RestoreInv => RestoresAlone
  BY DEF RestoreInv, RestoresAlone, Quiet
<1> QED BY <1>1, RestoreAlways, PTL

\* A restore starts only for a request the status has not answered, or one it
\* still records in flight (restore.go:98-129).
THEOREM NoAnsweredRestart == Spec => AnsweredOnce
<1> DEFINE Answered == rpods' \subseteq rpods
                       \/ rstatus.request # pass.rs.request \/ rstatus.result \in InFlight
<1>1. TypeInv /\ RestoreInv /\ [Next]_vars => [Answered]_vars
  <2> SUFFICES ASSUME TypeInv, RestoreInv, Next PROVE Answered
    OBVIOUS
  <2>1. CASE StartRestore
    <3>1. pc = "start" /\ Restoring(pass.rs)
      BY <2>1 DEF StartRestore, RestoreInv, Restoring, InFlight
    <3> QED BY <3>1 DEF RestoreInv, Restoring
  <2>2. CASE Step /\ ~StartRestore
    BY <2>2 DEF Step, BeginPass, ApplyPlatform, StartCopy, StepRestore, ConfigureRealm, VerifyPlatform,
        WriteStatus, ConflictOnWrite, restore
  <2>3. CASE AbandonPass
    BY <2>3 DEF AbandonPass, restore
  <2>4. CASE Environment
    BY <2>4 DEF Environment, Settles, ToggleMigrate, DeleteFailedCopy, AgeCopy, DriftRealm,
        StartBackup, RequestRestore, RemoveRestoreJob, EndCopy, EndRestoreJob, EndOrphan, EndRealm,
        EndVerify, EndBackup, MoveClients, restore
  <2> QED BY <2>1, <2>2, <2>3, <2>4 DEF Next
<1> QED BY <1>1, RestoreAlways, PTL DEF Spec, AnsweredOnce

-----------------------------------------------------------------------------
\* A pass that meets a realm run in flight remembers it until it asks for a
\* verification.
LEMMA RealmStep == TypeInv /\ RealmInv /\ [Next]_vars => RealmInv'
<1> SUFFICES ASSUME TypeInv, RealmInv, [Next]_vars PROVE RealmInv'
  OBVIOUS
<1>0. TypeOK
  BY DEF TypeInv
<1>1. CASE ConfigureRealm
  <2>1. realm' = "active" => pass' = [pass EXCEPT !.configuring = TRUE]
    BY <1>1 DEF ConfigureRealm, Configuring, RealmWanted
  <2> QED BY <2>1, <1>0 DEF RealmInv, TypeOK, Pass
<1>2. CASE Step /\ ~ConfigureRealm
  <2>1. pc' # "verify"
    BY <1>2 DEF Step, BeginPass, ApplyPlatform, StartCopy, StepRestore, StartRestore, WaitRestore,
        EndRestore, VerifyPlatform, WriteStatus, ConflictOnWrite, EndPass
  <2> QED BY <2>1 DEF RealmInv
<1>3. CASE AbandonPass
  BY <1>3 DEF AbandonPass, EndPass, RealmInv
<1>4. CASE Environment
  BY <1>4 DEF Environment, Settles, ToggleMigrate, DeleteFailedCopy, AgeCopy, DriftRealm,
        StartBackup, RequestRestore, RemoveRestoreJob, EndCopy, EndRestoreJob, EndOrphan, EndRealm,
        EndVerify, EndBackup, MoveClients, runs, RealmInv
<1>5. CASE UNCHANGED vars
  BY <1>5 DEF vars, RealmInv
<1> QED BY <1>1, <1>2, <1>3, <1>4, <1>5 DEF Next

\* A verification run is never started beside a realm run in flight, whichever
\* pass started that one (zaentrum_controller.go:306-315).
THEOREM VerifiesAfterRealm == Spec => VerifyWaitsForRealm
<1>1. Init => RealmInv
  BY DEF Init, RealmInv
<1> DEFINE Waits == verify' = "active" /\ verify # "active" => realm # "active"
<1>2. RealmInv /\ [Next]_vars => [Waits]_vars
  <2> SUFFICES ASSUME RealmInv, Next PROVE Waits
    OBVIOUS
  <2>1. CASE VerifyPlatform
    BY <2>1 DEF VerifyPlatform, MayVerify, RealmInv
  <2>2. CASE Step /\ ~VerifyPlatform
    BY <2>2 DEF Step, BeginPass, ApplyPlatform, StartCopy, StepRestore, StartRestore, ConfigureRealm,
        WriteStatus, ConflictOnWrite, runs
  <2>3. CASE AbandonPass
    BY <2>3 DEF AbandonPass, runs
  <2>4. CASE Environment
    BY <2>4 DEF Environment, Settles, ToggleMigrate, DeleteFailedCopy, AgeCopy, DriftRealm,
        StartBackup, RequestRestore, RemoveRestoreJob, EndCopy, EndRestoreJob, EndOrphan, EndRealm,
        EndVerify, EndBackup, MoveClients, runs
  <2> QED BY <2>1, <2>2, <2>3, <2>4 DEF Next
<1> QED BY <1>1, <1>2, TypeInit, TypeStep, RealmStep, PTL DEF Spec, VerifyWaitsForRealm

-----------------------------------------------------------------------------
\* A copy in flight is known to every pass, and no restore is: the pass that
\* started it planned it, and every later one finds it.
FlightInv ==
    /\ copy # "none" => migrate
    /\ copy = "active" => live = "emptyDir" /\ ~Restoring(rstatus)
    /\ pc # "idle" /\ copy = "active" => pass.copying /\ ~Restoring(pass.rs)
    /\ pc \in {"apply", "copy"} /\ pass.start =>
           migrate /\ pass.copying /\ ~Restoring(pass.rs) /\ ~Restoring(rstatus)
    /\ pc = "apply" /\ pass.volume = "claim" => copy # "active"

\* Nobody turns spec.storage.postgres.migrate off.
MigrateStays == migrate => migrate'

\* The facts of a copy in flight are kept while migrate is not turned off.
LEMMA FlightStep ==
    ASSUME TypeInv, CopyInv, RestoreInv, FlightInv, [Next]_vars, MigrateStays
    PROVE  FlightInv'
<1>0. TypeOK
  BY DEF TypeInv
<1> USE DEF MigrateStays
<1>1. ASSUME NEW available \in BOOLEAN, BeginPass(available) PROVE FlightInv'
  <2>1. PICK copying \in BOOLEAN :
               /\ copying = PlanDatabase(available).copying
               /\ pass' = [rs |-> PlanRestore(copying), vrun |-> vrunning,
                           volume |-> PlanDatabase(available).volume, copying |-> copying,
                           start |-> PlanDatabase(available).start /\ ~Restoring(PlanRestore(copying)),
                           restoring |-> Restoring(PlanRestore(copying)),
                           inflight |-> FALSE, configuring |-> FALSE]
    BY <1>0, <1>1, Planned
  <2>2. /\ pass'.rs = PlanRestore(copying) /\ pass'.copying = copying
        /\ pass'.volume = PlanDatabase(available).volume
        /\ pass'.start => PlanDatabase(available).start /\ ~Restoring(pass'.rs)
    BY <2>1
  <2>3. /\ UNCHANGED <<migrate, live, rstatus>> /\ pc' = "apply"
        /\ copy' = copy \/ copy' = "none"
    BY <1>1 DEF BeginPass, data, spec, status
  <2>4. PlanDatabase(available).start => migrate /\ copying
    BY <2>1 DEF PlanDatabase
  <2>5. copy = "active" => copying /\ PlanDatabase(available).volume = "emptyDir"
    BY <2>1 DEF PlanDatabase, FlightInv
  <2>6. /\ Restoring(rstatus) => Restoring(PlanRestore(copying))
        /\ copying /\ ~Restoring(rstatus) => ~Restoring(PlanRestore(copying))
    BY DEF PlanRestore, Restoring, InFlight
  <2> QED BY <2>2, <2>3, <2>4, <2>5, <2>6 DEF FlightInv
<1>2. CASE ApplyPlatform
  <2>1. /\ UNCHANGED <<migrate, rstatus, copy, pass>> /\ pc = "apply" /\ pc' \in {"copy", "write"}
        /\ live' \in {live, pass.volume}
    BY <1>2 DEF ApplyPlatform, spec, status
  <2>2. pass.volume \in {"emptyDir", "claim"}
    BY <1>0 DEF TypeOK, Pass
  <2> QED BY <2>1, <2>2 DEF FlightInv
<1>3. CASE StartCopy
  <2>1. /\ UNCHANGED <<migrate, rstatus, live, pass>> /\ pc = "copy" /\ pc' = "restore"
        /\ copy' = copy \/ (pass.start /\ copy' = "active")
    BY <1>3 DEF StartCopy, spec, status
  <2>2. pass.start => live = "emptyDir"
    BY <2>1 DEF CopyInv
  <2> QED BY <2>1, <2>2 DEF FlightInv
<1>4. CASE StepRestore \/ StartRestore
  <2>1. /\ UNCHANGED <<migrate, rstatus, live, copy>> /\ pc \in {"restore", "start"}
        /\ pc' \in {"realm", "start"}
    BY <1>4 DEF StepRestore, StartRestore, WaitRestore, EndRestore, data, spec, status
  <2>2. pass'.copying = pass.copying
    BY <1>4, <1>0 DEF StepRestore, StartRestore, WaitRestore, EndRestore, TypeOK, Pass
  <2>3. copy = "active" => ~Restoring(pass'.rs)
    <3>1. CASE StepRestore
      <4>1. Restoring(pass.rs) \/ pass' = pass
        BY <3>1 DEF StepRestore, Restoring, InFlight
      <4> QED BY <2>1, <4>1 DEF FlightInv
    <3>2. CASE StartRestore
      <4>1. pc = "start" /\ pass.rs.result = "Stopping"
        BY <3>2 DEF StartRestore, RestoreInv
      <4>2. copy # "active"
        BY <4>1 DEF FlightInv, Restoring, InFlight
      <4> QED BY <4>2
    <3> QED BY <1>4, <3>1, <3>2
  <2> QED BY <2>1, <2>2, <2>3 DEF FlightInv
<1>6. CASE ConfigureRealm \/ VerifyPlatform
  <2>1. /\ UNCHANGED <<migrate, rstatus, live, copy>> /\ pc \in {"realm", "verify"}
        /\ pc' \in {"verify", "write"}
    BY <1>6 DEF ConfigureRealm, VerifyPlatform, data, spec, status
  <2>2. pass'.copying = pass.copying /\ pass'.rs = pass.rs
    BY <1>6, <1>0 DEF ConfigureRealm, Configuring, VerifyPlatform, TypeOK, Pass
  <2> QED BY <2>1, <2>2 DEF FlightInv
<1>8. CASE WriteStatus \/ ConflictOnWrite \/ AbandonPass
  <2>1. UNCHANGED <<migrate, live, copy>> /\ pc' = "idle" /\ pc # "idle"
    BY <1>8 DEF WriteStatus, ConflictOnWrite, AbandonPass, EndPass, data, spec
  <2>2. rstatus' = rstatus \/ rstatus' = pass.rs
    BY <1>8 DEF WriteStatus, ConflictOnWrite, AbandonPass, status
  <2> QED BY <2>1, <2>2 DEF FlightInv
<1>9. CASE Environment
  <2>1. UNCHANGED <<rstatus, live, pc, pass>>
    BY <1>9 DEF Environment, Settles, ToggleMigrate, DeleteFailedCopy, AgeCopy, DriftRealm,
        StartBackup, RequestRestore, RemoveRestoreJob, EndCopy, EndRestoreJob, EndOrphan, EndRealm,
        EndVerify, EndBackup, MoveClients, status, data
  <2>2. /\ copy' = "active" => copy = "active"
        /\ copy' # "none" => copy # "none"
    BY <1>9 DEF Environment, Settles, ToggleMigrate, DeleteFailedCopy, AgeCopy, DriftRealm,
        StartBackup, RequestRestore, RemoveRestoreJob, EndCopy, EndRestoreJob, EndOrphan, EndRealm,
        EndVerify, EndBackup, MoveClients
  <2> QED BY <2>1, <2>2 DEF FlightInv
<1>10. CASE UNCHANGED vars
  BY <1>10 DEF vars, FlightInv
<1> QED BY <1>1, <1>2, <1>3, <1>4, <1>6, <1>8, <1>9, <1>10 DEF Next, Step

\* While a copy is in flight no restore, realm run or verification starts, in
\* whichever pass and after whatever crash, as long as nobody turns the migration
\* off that asked for it (database.go:48-49, restore.go:43-45).
THEOREM CopyRunsAlone == Spec /\ [][MigrateStays]_vars => NothingStartsDuringCopy
<1> DEFINE Alone == copy = "active" =>
                        /\ rpods' \subseteq rpods
                        /\ realm' = "active" => realm = "active"
                        /\ verify' = "active" => verify = "active"
           Inv == TypeInv /\ CopyInv /\ RestoreInv /\ FlightInv
<1>1. Init => CopyInv /\ RestoreInv /\ FlightInv
  BY DEF Init, CopyInv, RestoreInv, FlightInv, NoRestore
<1>2. Inv /\ [Next]_vars /\ [MigrateStays]_vars => Inv'
  <2> SUFFICES ASSUME Inv, [Next]_vars, [MigrateStays]_vars PROVE Inv'
    OBVIOUS
  <2>1. MigrateStays
    BY DEF MigrateStays, vars
  <2>2. TypeInv' /\ CopyInv' /\ RestoreInv'
    BY TypeStep, CopyStep, RestoreStep
  <2> QED BY <2>1, <2>2, FlightStep
<1>3. Inv /\ [Next]_vars => [Alone]_vars
  <2> SUFFICES ASSUME Inv, Next, copy = "active"
               PROVE  /\ rpods' \subseteq rpods
                      /\ realm' = "active" => realm = "active"
                      /\ verify' = "active" => verify = "active"
    OBVIOUS
  <2>1. CASE StartRestore
    <3>1. pc = "start" /\ pass.rs.result = "Stopping"
      BY <2>1 DEF StartRestore, RestoreInv
    <3> QED BY <3>1 DEF FlightInv, Restoring, InFlight
  <2>2. CASE ConfigureRealm
    <3>1. pass.copying
      BY <2>2 DEF ConfigureRealm, FlightInv
    <3> QED BY <2>2, <3>1 DEF ConfigureRealm, restore
  <2>3. CASE VerifyPlatform
    <3>1. pass.copying
      BY <2>3 DEF VerifyPlatform, FlightInv
    <3> QED BY <2>3, <3>1 DEF VerifyPlatform, MayVerify, restore
  <2>4. CASE StepRestore
    BY <2>4 DEF StepRestore, WaitRestore, EndRestore, restore
  <2>5. CASE Step /\ ~(StartRestore \/ ConfigureRealm \/ VerifyPlatform \/ StepRestore)
    BY <2>5 DEF Step, BeginPass, ApplyPlatform, StartCopy, WriteStatus, ConflictOnWrite, restore, runs
  <2>6. CASE AbandonPass
    BY <2>6 DEF AbandonPass, restore, runs
  <2>7. CASE Environment
    BY <2>7 DEF Environment, Settles, ToggleMigrate, DeleteFailedCopy, AgeCopy, DriftRealm,
        StartBackup, RequestRestore, RemoveRestoreJob, EndCopy, EndRestoreJob, EndOrphan, EndRealm,
        EndVerify, EndBackup, MoveClients, restore, runs
  <2> QED BY <2>1, <2>2, <2>3, <2>4, <2>5, <2>6, <2>7 DEF Next
<1> QED BY <1>1, <1>2, <1>3, TypeInit, PTL DEF Spec, NothingStartsDuringCopy

-----------------------------------------------------------------------------
\* At most one restore's Job is active, and a pod whose Job is there belongs to it.
JobInv ==
    /\ \A m, n \in RestoreJob : rjob[m] = "active" /\ rjob[n] = "active" => m = n
    /\ \A n \in rpods : rjob[n] \in {"active", "absent"}

\* Every step keeps one restore Job at most.
LEMMA JobStep == TypeInv /\ JobInv /\ [Next]_vars => JobInv'
<1> SUFFICES ASSUME TypeInv, JobInv, [Next]_vars PROVE JobInv'
  OBVIOUS
<1>0. rjob \in [RestoreJob -> {"absent", "active"} \union Ended] /\ rpods \subseteq RestoreJob
      /\ "active" \notin Ended /\ "absent" \notin Ended
  BY DEF TypeInv, TypeOK, Ended
<1>1. ASSUME NEW kept \in SUBSET RestoreJob, rjob' = Keep(kept), rpods' = rpods PROVE JobInv'
  <2>1. \A n \in RestoreJob : rjob'[n] = rjob[n] \/ rjob'[n] = "absent"
    BY <1>1 DEF Keep
  <2> QED BY <1>0, <1>1, <2>1 DEF JobInv
<1>2. ASSUME NEW n \in RestoreJob, rjob' = [Keep({}) EXCEPT ![n] = "active"],
             rpods' = rpods \union {n}
      PROVE  JobInv'
  <2>1. \A m \in RestoreJob : rjob'[m] = IF m = n THEN "active" ELSE "absent"
    BY <1>2 DEF Keep
  <2> QED BY <1>0, <1>2, <2>1 DEF JobInv
<1>3. ASSUME NEW n \in RestoreJob, NEW o \in Ended, EndRestoreJob(n, o) PROVE JobInv'
  BY <1>0, <1>3 DEF EndRestoreJob, JobInv
<1>4. ASSUME NEW n \in RestoreJob, RemoveRestoreJob(n) PROVE JobInv'
  BY <1>0, <1>4 DEF RemoveRestoreJob, JobInv
<1>5. ASSUME NEW n \in RestoreJob, EndOrphan(n) PROVE JobInv'
  BY <1>0, <1>5 DEF EndOrphan, JobInv
<1>6. CASE UNCHANGED <<rjob, rpods>>
  BY <1>6 DEF JobInv
<1>7. CASE StartRestore
  <2>1. \/ \E kept \in SUBSET RestoreJob : rjob' = Keep(kept) /\ rpods' = rpods
        \/ \E n \in RestoreJob : rjob' = [Keep({}) EXCEPT ![n] = "active"] /\ rpods' = rpods \union {n}
    BY <1>7 DEF StartRestore
  <2> QED BY <1>1, <1>2, <2>1
<1>8. CASE Step /\ ~StartRestore
  <2>1. UNCHANGED <<rjob, rpods>>
    BY <1>8 DEF Step, BeginPass, ApplyPlatform, StartCopy, StepRestore, ConfigureRealm, VerifyPlatform,
        WriteStatus, ConflictOnWrite, restore
  <2> QED BY <1>6, <2>1
<1>9. CASE Environment
  <2>1. \/ UNCHANGED <<rjob, rpods>>
        \/ \E n \in RestoreJob : EndOrphan(n) \/ RemoveRestoreJob(n) \/ \E o \in Ended : EndRestoreJob(n, o)
    BY <1>9 DEF Environment, Settles, ToggleMigrate, DeleteFailedCopy, AgeCopy, DriftRealm,
        StartBackup, RequestRestore, EndCopy, EndRealm, EndVerify, EndBackup, MoveClients, restore
  <2> QED BY <1>3, <1>4, <1>5, <1>6, <2>1
<1>10. CASE AbandonPass \/ UNCHANGED vars
  BY <1>6, <1>10 DEF AbandonPass, restore, vars
<1> QED BY <1>7, <1>8, <1>9, <1>10 DEF Next

\* Two restores write to the database only when one of them is the pod of a Job
\* that was deleted: the operator never has two Jobs of its own at work, and what
\* refutes OneRestore is that deleteRestoreJobs (restore.go:330) waits for no pod.
THEOREM SecondRestoreIsAnOrphan ==
    Spec => [](\A m, n \in rpods : m = n \/ rjob[m] = "absent" \/ rjob[n] = "absent")
<1>1. Init => JobInv
  BY DEF Init, JobInv
<1>2. Spec => [](TypeInv /\ JobInv)
  BY <1>1, TypeInit, TypeStep, JobStep, PTL DEF Spec
<1>3. TypeInv /\ JobInv => \A m, n \in rpods : m = n \/ rjob[m] = "absent" \/ rjob[n] = "absent"
  BY DEF TypeInv, TypeOK, JobInv
<1> QED BY <1>2, <1>3, PTL


-----------------------------------------------------------------------------
\* What a pass carries is the work it does on a request, or what is recorded.
WorkInv ==
    /\ AtWork => pass.rs.result \in InFlight \union Ended
    /\ pc # "idle" /\ ~AtWork => pass.rs.result = rstatus.result

\* What becomes of the work in the pass's step of the restore.
LEMMA WorkSteps ==
    ASSUME TypeInv, RestoreInv, StepRestore \/ StartRestore
    PROVE  /\ pc' # "idle" /\ pc # "idle" /\ rstatus' = rstatus
           /\ pass'.rs.request = pass.rs.request
           /\ \/ pass'.rs.result = pass.rs.result /\ rpods' = rpods
              \/ /\ Restoring(pass.rs) /\ rpods' = rpods
                 /\ \E outcome \in Ended : /\ pass'.rs.result = outcome
                                           /\ outcome = "Succeeded" => pass.rs.result = "Running"
              \/ /\ pc = "start" /\ pass'.rs.result \in {"Running", "Failed"}
                 /\ \E n \in RestoreJob \ rpods : rpods' = rpods \union {n}
<1>0. pass \in Pass /\ pass.rs \in RestoreStatus
  BY DEF TypeInv, TypeOK, Pass
<1>1. ASSUME NEW result \in Ended, EndRestore(result)
      PROVE  pass'.rs.result = result /\ pass'.rs.request = pass.rs.request /\ pc' = "realm"
  BY <1>0, <1>1 DEF EndRestore, Pass, RestoreStatus
<1>2. ASSUME WaitRestore PROVE pass'.rs = pass.rs /\ pc' = "realm"
  BY <1>2, WaitRestoreType
<1>3. "Failed" \in Ended /\ "Refused" \in Ended
  BY DEF Ended
<1>4. CASE StepRestore
  <2>1. pc = "restore" /\ rstatus' = rstatus /\ rpods' = rpods
    BY <1>4 DEF StepRestore, status, restore
  <2>2. \/ WaitRestore
        \/ pass' = pass /\ pc' \in {"realm", "start"}
        \/ EndRestore("Refused") /\ Restoring(pass.rs)
        \/ EndRestore("Failed") /\ Restoring(pass.rs)
        \/ \E outcome \in Ended : EndRestore(outcome) /\ pass.rs.result = "Running" /\ Restoring(pass.rs)
    BY <1>4 DEF StepRestore, Restoring, InFlight
  <2>3. CASE WaitRestore
    BY <1>2, <2>1, <2>3
  <2>4. CASE pass' = pass /\ pc' \in {"realm", "start"}
    BY <2>1, <2>4
  <2>5. CASE \E outcome \in {"Refused", "Failed"} : EndRestore(outcome) /\ Restoring(pass.rs)
    BY <1>1, <1>3, <2>1, <2>5
  <2>6. CASE \E outcome \in Ended : EndRestore(outcome) /\ pass.rs.result = "Running" /\ Restoring(pass.rs)
    BY <1>1, <2>1, <2>6
  <2> QED BY <2>2, <2>3, <2>4, <2>5, <2>6
<1>5. CASE StartRestore /\ rpods' = rpods /\ WaitRestore
  BY <1>2, <1>5 DEF StartRestore, status
<1>6. CASE StartRestore /\ rpods' = rpods /\ EndRestore("Failed")
  <2>1. Restoring(pass.rs)
    BY <1>6 DEF StartRestore, RestoreInv, Restoring, InFlight
  <2> QED BY <1>1, <1>3, <1>6, <2>1 DEF StartRestore, status
<1>7. ASSUME StartRestore, NEW n \in RestoreJob, Unused(n), rpods' = rpods \union {n},
             \/ EndRestore("Failed")
             \/ /\ pass' = [pass EXCEPT !.rs.result = "Running", !.rs.job = n, !.inflight = TRUE]
                /\ pc' = "realm"
      PROVE  /\ pc' = "realm" /\ pc = "start" /\ rstatus' = rstatus
             /\ pass'.rs.request = pass.rs.request
             /\ pass'.rs.result \in {"Running", "Failed"} /\ n \notin rpods
  <2>1. CASE EndRestore("Failed")
    BY <1>1, <1>3, <1>7, <2>1 DEF StartRestore, status, Unused
  <2>2. CASE /\ pass' = [pass EXCEPT !.rs.result = "Running", !.rs.job = n, !.inflight = TRUE]
             /\ pc' = "realm"
    BY <1>0, <1>7, <2>2 DEF StartRestore, status, Unused, Pass, RestoreStatus
  <2> QED BY <1>7, <2>1, <2>2
<1>8. CASE StartRestore
  <2>1. \/ WaitRestore /\ rpods' = rpods
        \/ EndRestore("Failed") /\ rpods' = rpods
        \/ \E n \in RestoreJob :
              /\ Unused(n) /\ rpods' = rpods \union {n}
              /\ \/ EndRestore("Failed")
                 \/ /\ pass' = [pass EXCEPT !.rs.result = "Running", !.rs.job = n, !.inflight = TRUE]
                    /\ pc' = "realm"
    BY <1>8 DEF StartRestore
  <2> QED BY <1>5, <1>6, <1>7, <1>8, <2>1
<1> QED BY <1>4, <1>8

\* The work stays what it is until the status is written.
LEMMA WorkStep == TypeInv /\ RestoreInv /\ WorkInv /\ [Next]_vars => WorkInv'
<1> SUFFICES ASSUME TypeInv, RestoreInv, WorkInv, [Next]_vars PROVE WorkInv'
  OBVIOUS
<1>0. TypeOK
  BY DEF TypeInv
<1>1. ASSUME NEW available \in BOOLEAN, BeginPass(available) PROVE WorkInv'
  <2>1. PICK copying \in BOOLEAN : pass'.rs = PlanRestore(copying)
    <3>1. \E copying \in BOOLEAN :
               /\ copying = PlanDatabase(available).copying
               /\ pass' = [rs |-> PlanRestore(copying), vrun |-> vrunning,
                           volume |-> PlanDatabase(available).volume, copying |-> copying,
                           start |-> PlanDatabase(available).start /\ ~Restoring(PlanRestore(copying)),
                           restoring |-> Restoring(PlanRestore(copying)),
                           inflight |-> FALSE, configuring |-> FALSE]
      BY <1>0, <1>1, Planned
    <3> QED BY <3>1
  <2>2. rstatus' = rstatus
    BY <1>1 DEF BeginPass, status
  <2>3. \/ PlanRestore(copying) = rstatus
        \/ PlanRestore(copying).result \in {"Stopping", "Refused"}
           /\ PlanRestore(copying).request # rstatus.request
    BY DEF PlanRestore
  <2> QED BY <2>1, <2>2, <2>3 DEF WorkInv, AtWork, Restoring, InFlight, Ended
<1>2. CASE ApplyPlatform \/ StartCopy \/ ConfigureRealm \/ VerifyPlatform
  <2>1. UNCHANGED rstatus /\ pass'.rs = pass.rs /\ pc # "idle"
    BY <1>2, <1>0 DEF ApplyPlatform, StartCopy, ConfigureRealm, Configuring, VerifyPlatform, status,
                      TypeOK, Pass
  <2> QED BY <2>1 DEF WorkInv, AtWork, Restoring
<1>3. CASE StepRestore \/ StartRestore
  <2>1. CASE pc' # "idle" /\ pc # "idle" /\ rstatus' = rstatus
             /\ pass'.rs.request = pass.rs.request /\ pass'.rs.result = pass.rs.result
    BY <2>1 DEF WorkInv, AtWork, Restoring
  <2>2. CASE pc' # "idle" /\ pc # "idle" /\ rstatus' = rstatus
             /\ pass'.rs.request = pass.rs.request
             /\ Restoring(pass.rs) /\ pass'.rs.result \in Ended
    <3>1. AtWork
      BY <1>3, <2>2 DEF AtWork, RestoreInv, StepRestore, StartRestore
    <3> QED BY <2>2, <3>1 DEF WorkInv, AtWork, Restoring
  <2>3. CASE pc' # "idle" /\ pc = "start" /\ rstatus' = rstatus
             /\ pass'.rs.request = pass.rs.request
             /\ pass'.rs.result \in {"Running", "Failed"}
    <3>1. Restoring(pass.rs)
      BY <2>3 DEF RestoreInv, Restoring, InFlight
    <3>2. AtWork
      BY <2>3, <3>1 DEF AtWork, RestoreInv
    <3> QED BY <2>3, <3>2 DEF WorkInv, AtWork, Restoring, InFlight, Ended
  <2> QED BY <1>3, <2>1, <2>2, <2>3, WorkSteps
<1>4. CASE WriteStatus \/ ConflictOnWrite \/ AbandonPass
  BY <1>4 DEF WriteStatus, ConflictOnWrite, AbandonPass, EndPass, WorkInv, AtWork
<1>5. CASE Environment
  <2>1. UNCHANGED <<rstatus, pc, pass>>
    BY <1>5 DEF Environment, Settles, ToggleMigrate, DeleteFailedCopy, AgeCopy, DriftRealm,
        StartBackup, RequestRestore, RemoveRestoreJob, EndCopy, EndRestoreJob, EndOrphan, EndRealm,
        EndVerify, EndBackup, MoveClients, status
  <2> QED BY <2>1 DEF WorkInv, AtWork, Restoring
<1>6. CASE UNCHANGED vars
  BY <1>6 DEF vars, WorkInv, AtWork, Restoring
<1> QED BY <1>1, <1>2, <1>3, <1>4, <1>5, <1>6 DEF Next, Step

\* A cluster with nothing requested is where the promise begins.
LEMMA PromiseInit == Init => Promise!Init /\ WorkInv
BY DEF Init, Promise!Init, Promise!Nothing, Recorded, Work, AtWork, Serving, NoRestore, WorkInv

\* Every step of the passes and of their surroundings is a step of the promise or none.
LEMMA PromiseStep == TypeInv /\ RestoreInv /\ WorkInv /\ [Next]_vars => [Promise!Next]_(Promise!vars)
<1> SUFFICES ASSUME TypeInv, RestoreInv, WorkInv, [Next]_vars
             PROVE  [Promise!Next]_(Promise!vars)
  OBVIOUS
<1> USE DEF Promise!Next, Promise!vars
<1>0. TypeOK
  BY DEF TypeInv
<1>1. ASSUME UNCHANGED <<rstatus, rpods, clients, backup>>,
             pc # "idle" /\ pc' # "idle", pass'.rs.result = pass.rs.result,
             pass'.rs.request = pass.rs.request
      PROVE  UNCHANGED Promise!vars
  BY <1>1 DEF Recorded, Work, AtWork, Restoring, Serving
<1>2. ASSUME NEW available \in BOOLEAN, BeginPass(available)
      PROVE  [Promise!Next]_(Promise!vars)
  <2>1. PICK copying \in BOOLEAN : pass'.rs = PlanRestore(copying)
    <3>1. \E copying \in BOOLEAN :
               /\ copying = PlanDatabase(available).copying
               /\ pass' = [rs |-> PlanRestore(copying), vrun |-> vrunning,
                           volume |-> PlanDatabase(available).volume, copying |-> copying,
                           start |-> PlanDatabase(available).start /\ ~Restoring(PlanRestore(copying)),
                           restoring |-> Restoring(PlanRestore(copying)),
                           inflight |-> FALSE, configuring |-> FALSE]
      BY <1>0, <1>2, Planned
    <3> QED BY <3>1
  <2>2. /\ UNCHANGED <<rstatus, rpods, clients, backup>> /\ pc = "idle" /\ pc' = "apply"
    BY <1>2 DEF BeginPass, status, restore, pods
  <2>3. UNCHANGED <<Recorded, Serving, rpods>> /\ Work = Promise!Nothing
    BY <2>2 DEF Recorded, Serving, Work, AtWork, Promise!Nothing
  <2>4. CASE Restoring(rstatus)
    <3>1. PlanRestore(copying) = rstatus
      BY <2>4 DEF PlanRestore
    <3>2. Work' = Recorded
      BY <2>1, <2>2, <2>4, <3>1 DEF Work, AtWork, Restoring, Recorded
    <3>3. Recorded.result \in Promise!InFlight
      BY <2>4 DEF Recorded, Restoring, InFlight, Promise!InFlight
    <3> QED BY <2>3, <3>2, <3>3 DEF Promise!Resume
  <2>5. CASE ~Restoring(rstatus) /\ PlanRestore(copying) = rstatus
    <3>1. Work' = Promise!Nothing
      BY <2>1, <2>2, <2>5 DEF Work, AtWork, Restoring, Promise!Nothing
    <3> QED BY <2>3, <3>1
  <2>6. CASE ~Restoring(rstatus) /\ PlanRestore(copying) # rstatus
    <3>1. /\ PlanRestore(copying).request = request /\ request \notin {NoRequest, rstatus.request}
          /\ PlanRestore(copying).result \in {"Stopping", "Refused"}
      BY <2>6 DEF PlanRestore
    <3>2. request \in Request /\ request # Recorded.request
      BY <1>0, <3>1 DEF TypeOK, Requests, Recorded
    <3>3. Work' = [result |-> PlanRestore(copying).result, request |-> request]
      BY <2>1, <2>2, <3>1 DEF Work, AtWork
    <3>4. Work' \in [result : {"Stopping", "Refused"}, request : {request}]
      BY <3>1, <3>3
    <3>5. Recorded.result \notin Promise!InFlight
      BY <2>6 DEF Recorded, Restoring, InFlight, Promise!InFlight
    <3>6. Promise!Accept(request)
      BY <2>3, <3>2, <3>4, <3>5 DEF Promise!Accept
    <3> QED BY <3>2, <3>6
  <2> QED BY <2>4, <2>5, <2>6
<1>3. CASE ApplyPlatform \/ StartCopy \/ ConfigureRealm \/ VerifyPlatform
  <2>1. /\ UNCHANGED <<rstatus, rpods, clients, backup>> /\ pass'.rs = pass.rs
        /\ pc # "idle" /\ pc' # "idle"
    BY <1>3, <1>0 DEF ApplyPlatform, StartCopy, ConfigureRealm, Configuring, VerifyPlatform, status,
                      restore, pods, TypeOK, Pass
  <2> QED BY <1>1, <2>1
<1>4. CASE StepRestore \/ StartRestore
  <2>1. UNCHANGED <<clients, backup, rstatus>> /\ pc # "idle" /\ pc' # "idle"
        /\ pass'.rs.request = pass.rs.request
    BY <1>4, WorkSteps DEF StepRestore, StartRestore, pods
  <2>2. UNCHANGED <<Recorded, Serving>>
    BY <2>1 DEF Recorded, Serving
  <2>3. CASE pass'.rs.result = pass.rs.result /\ rpods' = rpods
    BY <1>1, <2>1, <2>3
  <2>4. ASSUME Restoring(pass.rs), pc \in {"restore", "start"}
        PROVE  /\ AtWork /\ AtWork'
               /\ Work = [result |-> pass.rs.result, request |-> pass.rs.request]
               /\ Work' = [Work EXCEPT !.result = pass'.rs.result]
    <3>1. AtWork
      BY <2>4 DEF AtWork, RestoreInv
    <3>2. AtWork'
      BY <2>1, <3>1 DEF AtWork, Restoring
    <3> QED BY <2>1, <3>1, <3>2 DEF Work
  <2>5. ASSUME Restoring(pass.rs), rpods' = rpods, NEW outcome \in Ended,
               pass'.rs.result = outcome, outcome = "Succeeded" => pass.rs.result = "Running"
        PROVE  Promise!End(outcome) /\ outcome \in Promise!Outcome
    <3>1. pc \in {"restore", "start"}
      BY <1>4 DEF StepRestore, StartRestore
    <3>2. Work.result \in Promise!InFlight /\ Work.result = pass.rs.result
      BY <2>4, <2>5, <3>1 DEF Restoring, InFlight, Promise!InFlight
    <3> QED BY <2>2, <2>4, <2>5, <3>1, <3>2 DEF Promise!End, Promise!Outcome, Ended
  <2>6. ASSUME pc = "start", pass'.rs.result \in {"Running", "Failed"},
               NEW n \in RestoreJob \ rpods, rpods' = rpods \union {n}
        PROVE  Promise!Start(n)
    <3>1. pass.rs.result = "Stopping" /\ Restoring(pass.rs) /\ ~Serving
      BY <2>6 DEF RestoreInv, Restoring, InFlight, Quiet, Serving
    <3> QED BY <2>2, <2>4, <2>6, <3>1 DEF Promise!Start
  <2> QED BY <1>4, <2>3, <2>5, <2>6, WorkSteps
<1>5. CASE WriteStatus
  <2>1. UNCHANGED <<rpods, clients, backup>> /\ pc = "write" /\ pc' = "idle" /\ rstatus' = pass.rs
    BY <1>5 DEF WriteStatus, EndPass, restore, pods
  <2>2. Work' = Promise!Nothing /\ Serving' = Serving
    BY <2>1 DEF Work, AtWork, Serving, Promise!Nothing
  <2>3. CASE AtWork
    <3>1. Work = [result |-> pass.rs.result, request |-> pass.rs.request] /\ Recorded' = Work
      BY <2>1, <2>3 DEF Work, Recorded
    <3>2. Work # Promise!Nothing
      BY <2>3, <3>1 DEF WorkInv, InFlight, Ended, Promise!Nothing
    <3> QED BY <2>1, <2>2, <3>1, <3>2 DEF Promise!Record
  <2>4. CASE ~AtWork
    <3>1. pass.rs.result = rstatus.result /\ pass.rs.request = rstatus.request
      BY <2>1, <2>4 DEF WorkInv, AtWork
    <3> QED BY <2>1, <2>2, <2>4, <3>1 DEF Recorded, Work, Promise!Nothing
  <2> QED BY <2>3, <2>4
<1>6. CASE ConflictOnWrite \/ AbandonPass
  <2>1. UNCHANGED <<rstatus, rpods, clients, backup>> /\ pc' = "idle"
    BY <1>6 DEF ConflictOnWrite, AbandonPass, EndPass, status, restore, pods
  <2>2. Promise!Lose
    BY <2>1 DEF Promise!Lose, Promise!Nothing, Work, AtWork, Recorded, Serving
  <2> QED BY <2>2
<1>7. CASE Environment
  <2>1. UNCHANGED <<rstatus, wanted, pc, pass>>
    BY <1>7 DEF Environment, Settles, ToggleMigrate, DeleteFailedCopy, AgeCopy, DriftRealm,
        StartBackup, RequestRestore, RemoveRestoreJob, EndCopy, EndRestoreJob, EndOrphan, EndRealm,
        EndVerify, EndBackup, MoveClients, status, pods
  <2>2. UNCHANGED <<Recorded, Work>>
    BY <2>1 DEF Recorded, Work, AtWork, Restoring
  <2>3. ASSUME NEW n \in RestoreJob, rpods' = rpods \ {n}, UNCHANGED <<clients, backup>>
        PROVE  Promise!Stop(n)
    BY <2>2, <2>3 DEF Promise!Stop, Serving
  <2>4. CASE UNCHANGED <<rpods, clients, backup>>
    BY <2>2, <2>4 DEF Serving
  <2>5. CASE UNCHANGED rpods /\ Serving' = FALSE
    BY <2>2, <2>5 DEF Promise!Leave
  <2>6. CASE UNCHANGED rpods /\ Serving' = TRUE /\ wanted = "up"
    <3>1. Recorded.result # "Running"
      BY <2>6 DEF Recorded, RestoreInv, Quiet
    <3>2. Work.result # "Running"
      BY <2>6 DEF Work, AtWork, RestoreInv, Quiet
    <3> QED BY <2>2, <2>6, <3>1, <3>2 DEF Promise!Serve
  <2>7. \/ UNCHANGED <<rpods, clients, backup>>
        \/ UNCHANGED <<clients, backup>> /\ \E n \in RestoreJob : rpods' = rpods \ {n}
        \/ UNCHANGED <<rpods, clients>> /\ wanted = "up" /\ backup' = TRUE
        \/ UNCHANGED <<rpods, clients>> /\ backup' = FALSE
        \/ UNCHANGED <<rpods, backup>> /\ clients' = wanted
    BY <1>7 DEF Environment, Settles, ToggleMigrate, DeleteFailedCopy, AgeCopy, DriftRealm,
        StartBackup, RequestRestore, RemoveRestoreJob, EndCopy, EndRestoreJob, EndOrphan, EndRealm,
        EndVerify, EndBackup, MoveClients, restore, pods
  <2>8. CASE UNCHANGED <<rpods, clients>> /\ wanted = "up" /\ backup' = TRUE
    BY <2>6, <2>8 DEF Serving
  <2>9. CASE UNCHANGED <<rpods, clients>> /\ backup' = FALSE
    <3>1. CASE clients = "up"
      <4>1. Serving /\ Serving'
        BY <2>9, <3>1 DEF Serving
      <4> QED BY <2>2, <2>9, <4>1 DEF Serving
    <3>2. CASE clients # "up"
      BY <2>5, <2>9, <3>2 DEF Serving
    <3> QED BY <3>1, <3>2
  <2>10. CASE UNCHANGED <<rpods, backup>> /\ clients' = wanted
    <3>1. CASE wanted = "up"
      BY <2>6, <2>10, <3>1 DEF Serving
    <3>2. CASE wanted # "up" /\ backup = TRUE
      <4>1. Serving = TRUE /\ Serving' = TRUE
        BY <2>10, <3>2 DEF Serving
      <4> QED BY <2>2, <2>10, <4>1
    <3>3. CASE wanted # "up" /\ backup = FALSE
      BY <2>5, <2>10, <3>3 DEF Serving
    <3>4. backup \in BOOLEAN
      BY <1>0 DEF TypeOK
    <3> QED BY <3>1, <3>2, <3>3, <3>4
  <2> QED BY <2>3, <2>4, <2>7, <2>8, <2>9, <2>10
<1>8. CASE UNCHANGED vars
  BY <1>8 DEF vars, Recorded, Work, AtWork, Restoring, Serving
<1> QED BY <1>2, <1>3, <1>4, <1>5, <1>6, <1>7, <1>8 DEF Next, Step

\* The operator keeps the promise of a restore: a request is worked on only until an
\* outcome of it is recorded, nothing writes before all others have left, nobody comes
\* back while it is said to run, and an outcome stays (restore.go:24-46).
THEOREM ImplementsRestorePromise == Spec => KeepsRestorePromise
<1>1. Spec => [](TypeInv /\ RestoreInv /\ WorkInv)
  BY RestoreAlways, TypeInit, TypeStep, PromiseInit, WorkStep, PTL DEF Spec
<1> QED BY <1>1, PromiseInit, PromiseStep, PTL DEF Spec, KeepsRestorePromise, Promise!Spec
=============================================================================
