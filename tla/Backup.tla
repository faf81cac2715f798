------------------------------- MODULE Backup -------------------------------
(***************************************************************************)
(* What the operator reports of the bundled Postgres's backups             *)
(* (backup.go): the backups' Jobs are created, run, end and are cleaned    *)
(* away beside the passes, and so are the pods with the summaries a pass   *)
(* wants to read; what a pass did not see in time is never seen again.     *)
(*                                                                         *)
(* Names are numbers, in the order the API server lists them and whatever  *)
(* the order the Jobs were made in; a dump has the name of the Job that    *)
(* wrote it. Times are seconds, in which several Jobs may be made and end. *)
(* A Job on its way out is one that is gone, as backupJobs leaves it out.  *)
(* Left out: the dumps a summary says are kept, the wording of conditions, *)
(* the schedule's removal (module Prune) and status.backup.restore (module *)
(* PlatformPass).                                                          *)
(***************************************************************************)
EXTENDS Naturals

CONSTANTS
    MaxJobs,        \* bound: Jobs ever created
    MaxSwitches,    \* bound: edits of the Zaentrum
    MaxFails        \* bound: failed calls, lost writes and crashes

ASSUME BackupBounds == MaxJobs \in Nat /\ MaxSwitches \in Nat /\ MaxFails \in Nat

VARIABLES
    mode,           \* the Zaentrum: databases external; bundled, backed up or not
    jobs,           \* the Jobs there are
    readable,       \* those whose pod still holds a summary that can be read
    clock,
    used,           \* the names Jobs were ever made under
    status, condition,      \* status.backup and the condition Backup
    step, report,   \* the pass: what it read
    stale,          \* the Zaentrum was written since the pass read it
    missed, ended,  \* what happened: successes a pass reported without their
                    \* summary, and every Job that ended
    switches, fails

world == <<mode, jobs, readable, clock, used>>
backupVars == <<world, status, condition, step, report, stale, missed, ended, switches, fails>>

-----------------------------------------------------------------------------
Never == 0
Job == [name : Nat \ {0}, made : Nat, state : {"Running", "Succeeded", "Failed"}, end : Nat]

\* status.backup: when the last success and the last failure ended, the dump.
Unknown == [success |-> Never, failure |-> Never, dump |-> 0]

Modes == {"external", "off", "on"}
Conditions == {"None", "Disabled", "Scheduled", "Failed", "Succeeded"}
NoReport == [mode |-> "off", jobs |-> {}, status |-> Unknown, condition |-> "None"]

BackupInit ==
    /\ mode \in Modes
    /\ jobs = {} /\ readable = {} /\ clock = 1 /\ used = {}
    /\ status = Unknown /\ condition = "None"
    /\ step = "idle" /\ report = NoReport /\ stale = FALSE
    /\ missed = {} /\ ended = {}
    /\ switches = 0 /\ fails = 0

Fails == fails < MaxFails /\ fails' = fails + 1

-----------------------------------------------------------------------------
(* reportBackups *)

\* The defect of taking whatever failure comes last.
TakeEveryFailure(b, j, read) ==
    IF j.state = "Succeeded" /\ j.end > b.success THEN
        [b EXCEPT !.success = j.end, !.dump = IF read THEN j.name ELSE @]
    ELSE IF j.state = "Failed" THEN [b EXCEPT !.failure = j.end]
    ELSE b

\* The defect of reading a summary whether or not its run is the latest.
TakeEveryDump(b, j, read) ==
    IF j.state = "Succeeded" THEN
        [b EXCEPT !.success = IF j.end > @ THEN j.end ELSE @, !.dump = IF read THEN j.name ELSE @]
    ELSE IF j.state = "Failed" /\ j.end > b.failure THEN [b EXCEPT !.failure = j.end]
    ELSE b

\* A success later than any before is the last one, and its dump is named if
\* its summary can be read; a failure likewise.
Take(b, j, read) ==
    IF j.state = "Succeeded" /\ j.end > b.success THEN
        [b EXCEPT !.success = j.end, !.dump = IF read THEN j.name ELSE @]
    ELSE IF j.state = "Failed" /\ j.end > b.failure THEN [b EXCEPT !.failure = j.end]
    ELSE b

\* The defect of letting an older Job that ended overrule a newer one.
ConditionOfOldest(c, j) == IF j.state # "Running" THEN j.state ELSE c

\* The condition goes by the newest Job that ended; c is what newer ones made it.
ConditionWith(c, j) == IF c = "Scheduled" /\ j.state # "Running" THEN j.state ELSE c

Forget == step' = "idle" /\ report' = NoReport /\ stale' = FALSE

\* With external databases there is nothing to report, and turned off only that.
ReadZaentrum ==
    /\ step = "idle"
    /\ report' = [NoReport EXCEPT !.mode = mode,
                              !.status = IF mode = "external" THEN Unknown ELSE status,
                              !.condition = CASE mode = "external" -> "None"
                                              [] mode = "off" -> "Disabled"
                                              [] OTHER -> condition]
    /\ step' = IF mode = "on" THEN "list" ELSE "write"
    /\ UNCHANGED <<world, status, condition, stale, missed, ended, switches, fails>>

\* A list that fails leaves status as it is.
ListJobs ==
    /\ step = "list"
    /\ \/ /\ report' = [report EXCEPT !.jobs = jobs, !.condition = "Scheduled"]
          /\ step' = "take" /\ UNCHANGED fails
       \/ step' = "write" /\ UNCHANGED report /\ Fails
    /\ UNCHANGED <<world, status, condition, stale, missed, ended, switches>>

\* The newest of the Jobs not taken yet: of those made in one second, the first in
\* the list.
Newest(j) ==
    /\ j \in report.jobs
    /\ \A k \in report.jobs : k.made < j.made \/ (k.made = j.made /\ j.name <= k.name)

\* The Jobs are taken newest first. The pod with a success's summary is read,
\* may be gone by now, or cannot be read.
ReportJob(j) ==
    /\ step = "take" /\ Newest(j)
    /\ \E read \in {j.name \in readable, FALSE} :
          /\ IF read = (j.name \in readable) THEN UNCHANGED fails ELSE Fails
          /\ report' = [report EXCEPT !.jobs = @ \ {j}, !.status = Take(@, j, read),
                                  !.condition = ConditionWith(@, j)]
          /\ missed' = IF j.state = "Succeeded" /\ j.end > report.status.success /\ ~read
                       THEN missed \union {j.name} ELSE missed
    /\ UNCHANGED <<world, status, condition, step, stale, ended, switches>>

EndReport ==
    /\ step = "take" /\ report.jobs = {} /\ step' = "write"
    /\ UNCHANGED <<world, status, condition, report, stale, missed, ended, switches, fails>>

\* Status goes back at the version that was read.
WriteBackup ==
    /\ step = "write"
    /\ IF stale THEN UNCHANGED <<status, condition, fails>>
       ELSE \/ status' = report.status /\ condition' = report.condition /\ UNCHANGED fails
            \/ UNCHANGED <<status, condition>> /\ Fails
    /\ Forget
    /\ UNCHANGED <<world, missed, ended, switches>>

AbandonReport ==
    /\ step # "idle" /\ Forget /\ Fails
    /\ UNCHANGED <<world, status, condition, missed, ended, switches>>

Reporting ==
    \/ ReadZaentrum \/ ListJobs
    \/ \E j \in report.jobs : ReportJob(j)
    \/ EndReport \/ WriteBackup

-----------------------------------------------------------------------------
(* The CronJob and its controllers, people *)

Switch(m) ==
    /\ m # mode /\ switches < MaxSwitches /\ switches' = switches + 1
    /\ mode' = m /\ stale' = (step # "idle")
    /\ UNCHANGED <<jobs, readable, clock, used, status, condition, step, report, missed, ended, fails>>

Elsewhere == UNCHANGED <<mode, status, condition, step, report, stale, missed, switches, fails>>

\* The schedule creates a Job, or a person does from it while another runs, also
\* of a schedule turned off that is not removed yet.
CreateJob(n, second) ==
    /\ n \notin used /\ used' = used \union {n}
    /\ clock' = second
    /\ jobs' = jobs \union {[name |-> n, made |-> second, state |-> "Running", end |-> Never]}
    /\ Elsewhere /\ UNCHANGED <<readable, ended>>

FinishJob(j) ==
    /\ j.state = "Running"
    /\ \E state \in {"Succeeded", "Failed"}, end \in {clock, clock + 1} :
          LET done == [j EXCEPT !.state = state, !.end = end] IN
          /\ jobs' = (jobs \ {j}) \union {done}
          /\ ended' = ended \union {done}
          /\ clock' = end
          /\ readable' \in IF state = "Succeeded" THEN {readable, readable \union {j.name}}
                           ELSE {readable}
    /\ Elsewhere /\ UNCHANGED used

LosePods(j) ==
    /\ j.name \in readable /\ readable' = readable \ {j.name}
    /\ Elsewhere /\ UNCHANGED <<jobs, clock, used, ended>>

\* History limits, a person, the schedule turned off.
RemoveJob(j) ==
    /\ jobs' = jobs \ {j} /\ readable' = readable \ {j.name}
    /\ Elsewhere /\ UNCHANGED <<clock, used, ended>>

Surroundings ==
    \/ \E m \in Modes : Switch(m)
    \/ \E n \in 1..MaxJobs, second \in {clock, clock + 1} : CreateJob(n, second)
    \/ \E j \in jobs : FinishJob(j) \/ LosePods(j) \/ RemoveJob(j)

BackupNext == Reporting \/ AbandonReport \/ Surroundings

BackupSpec == BackupInit /\ [][BackupNext]_backupVars

\* The work queue runs a pass again and again.
FairBackup == BackupSpec /\ WF_backupVars(Reporting)

-----------------------------------------------------------------------------
(* Properties *)

Status == [success : Nat, failure : Nat, dump : Nat]

\* Every variable has its type.
BackupOK ==
    /\ mode \in Modes /\ jobs \subseteq Job /\ readable \subseteq Nat
    /\ clock \in Nat /\ used \subseteq Nat \ {0}
    /\ status \in Status /\ condition \in Conditions
    /\ step \in {"idle", "list", "take", "write"}
    /\ report \in [mode : Modes, jobs : SUBSET Job, status : Status, condition : Conditions]
    /\ stale \in BOOLEAN /\ missed \subseteq Nat /\ ended \subseteq Job
    /\ switches \in Nat /\ fails \in Nat

Successes == {j \in ended : j.state = "Succeeded"}

\* "LastSuccess is when the latest backup that succeeded ended" (zaentrum_types.go:889):
\* it never goes back while the databases are bundled, however Jobs are created,
\* finish out of order and are cleaned away; only with external databases it goes.
NeverBack ==
    [][report.mode # "external" => status'.success >= status.success /\ status'.failure >= status.failure]_backupVars

\* "LastDump is the dump that backup wrote" (zaentrum_types.go:893), as far as it
\* goes: the dump status names is one a success wrote, and if a later success is
\* reported, then a pass could not read that one's summary.
DumpIsASuccess ==
    status.dump # 0 =>
        \E j \in Successes :
            /\ j.name = status.dump /\ j.end <= status.success
            /\ j.end = status.success \/ \E k \in Successes : k.end = status.success /\ k.name \in missed

\* Once the Zaentrum and the Jobs stay as they are, the condition says what came
\* of the newest Job that ended, or of one of those made in the same second, and the
\* last success and failure are no earlier than any Job there is.
BackupSettles ==
    <>[](/\ mode = "external" => status = Unknown /\ condition = "None"
         /\ mode = "off" => condition = "Disabled"
         /\ mode = "on" =>
               /\ IF \A j \in jobs : j.state = "Running" THEN condition = "Scheduled"
                  ELSE \E j \in jobs :
                          /\ j.state # "Running" /\ condition = j.state
                          /\ \A k \in jobs : k.made > j.made => k.state = "Running"
               /\ \A j \in jobs :
                     /\ j.state = "Succeeded" => status.success >= j.end
                     /\ j.state = "Failed" => status.failure >= j.end)

=============================================================================
