---------------------------- MODULE Verification ----------------------------
(***************************************************************************)
(* The platform's self-test as the operator drives it: one pass of         *)
(* Reconcile seen through verify.go. A pass reads the Zaentrum, takes one  *)
(* step of the verification against the Jobs the API server holds, and     *)
(* writes status.verification back with the resourceVersion it read. Every *)
(* API call of the pass is an action, so a run may end, a Job may vanish,  *)
(* the user may edit the Zaentrum and the operator may die between two.    *)
(*                                                                         *)
(* What a run's pods make of its verdict is module Report. Abstracted:     *)
(* messages and timestamps, versions, the test account (module Secrets).   *)
(* "Is the platform Ready" is an input of the pass here; module Rollout    *)
(* computes it.                                                            *)
(***************************************************************************)
EXTENDS Report

CONSTANTS
    JobName,        \* names runJob may draw for a run's Job
    Fingerprint,    \* what platformFingerprint can be
    Request,        \* values of the zaentrum.io/verify-request annotation
    NoJob, NoFingerprint, NoRequest,
    MaxEdits,       \* bound: edits of the Zaentrum and moves of its images
    MaxFaults       \* bound: crashes, failed API calls, Jobs removed by others

ASSUME Sentinels ==
    /\ NoJob \notin JobName
    /\ NoJob \notin [fp : Fingerprint, request : Request \union {NoRequest}]
    /\ NoFingerprint \notin Fingerprint
    /\ NoRequest \notin Request

ASSUME Bounds == MaxEdits \in Nat /\ MaxFaults \in Nat

VARIABLES
    \* the API server: spec and annotation of the Zaentrum, its status, the Jobs
    enabled, request, status, jobs,
    \* the fingerprint a render resolves to now
    images,
    \* the pass: where it is, what it read, the status it will write, and
    \* whether the Zaentrum moved since it was read (a resourceVersion behind)
    pc, seen, v, stale,
    \* observers: verdicts runs ended with, and whether a verdict stands since the last edit
    truth, rested,
    \* bounds
    edits, faults

server   == <<enabled, request, images>>
observer == <<truth, rested>>
bounds   == <<edits, faults>>
vars     == <<enabled, request, status, jobs, images, pc, seen, v, stale,
              truth, rested, edits, faults>>

-----------------------------------------------------------------------------
Trigger  == {"Update", "Request"}
Requests == Request \union {NoRequest}

\* What a run is recorded with, and what stands there without one.
RunStatus  == [result : Verdict \union {"Running"}, trigger : Trigger, request : Requests,
               fp : Fingerprint, job : JobName \union {NoJob}]
IdleStatus == [result : {"None", "Skipped"}, trigger : {"None"}, request : Requests,
               fp : {NoFingerprint}, job : {NoJob}]
VerificationStatus == RunStatus \union IdleStatus

NilStatus == [result |-> "None", trigger |-> "None", request |-> NoRequest,
              fp |-> NoFingerprint, job |-> NoJob]

Absent == [phase |-> "absent", trigger |-> "None", request |-> NoRequest,
           fp |-> NoFingerprint, verdict |-> "None"]

ActiveJob == [phase : {"active"}, trigger : Trigger, request : Requests,
              fp : Fingerprint, verdict : {"None"}]
DoneJob   == [phase : {"done"}, trigger : Trigger, request : Requests,
              fp : Fingerprint, verdict : Verdict]
Job       == ActiveJob \union DoneJob \union {Absent}

Runs   == {n \in JobName : jobs[n].phase # "absent"}
Active == {n \in JobName : jobs[n].phase = "active"}

NotSeen == [request |-> NoRequest, images |-> NoFingerprint, ready |-> FALSE]

Init ==
    /\ enabled \in BOOLEAN
    /\ request \in Requests
    /\ images \in Fingerprint
    /\ status = NilStatus
    /\ jobs = [n \in JobName |-> Absent]
    /\ pc = "idle" /\ seen = NotSeen /\ v = NilStatus /\ stale = FALSE
    /\ truth = {} /\ rested = FALSE
    /\ edits = 0 /\ faults = 0

-----------------------------------------------------------------------------
(* What the pass decides *)

\* The run to start, if any: a request that was not answered, else a platform
\* that is not the one last verified. Never for a platform that is not ready.
WantedAnyRequest(s) ==
    IF ~seen.ready THEN "None"
    ELSE IF seen.request # NoRequest THEN "Request"
    ELSE IF s.fp # seen.images THEN "Update"
    ELSE "None"

Wanted(s) ==
    IF ~seen.ready THEN "None"
    ELSE IF seen.request \notin {NoRequest, s.request} THEN "Request"
    ELSE IF s.fp # seen.images THEN "Update"
    ELSE "None"

\* The status of the run about to start; a run an update starts keeps the last
\* answered request.
StartingAnswersAll(s) ==
    [result  |-> "Running", trigger |-> Wanted(s), request |-> seen.request,
     fp      |-> seen.images, job |-> NoJob]

Starting(s) ==
    [result  |-> "Running", trigger |-> Wanted(s),
     request |-> IF Wanted(s) = "Request" THEN seen.request ELSE s.request,
     fp      |-> seen.images, job |-> NoJob]

\* startRun's failed(): an Error for this fingerprint and this request.
FailedStart(s) == [Starting(s) EXCEPT !.result = "Error"]

\* The Job runJob makes for it.
RunJob(s) ==
    [phase   |-> "active", trigger |-> Wanted(s),
     request |-> IF Wanted(s) = "Request" THEN seen.request ELSE NoRequest,
     fp      |-> seen.images, verdict |-> "None"]

\* The status of a run read from its Job alone.
AdoptAsCurrent(n, lastAnswered) ==
    [result  |-> "Running", trigger |-> jobs[n].trigger,
     request |-> IF jobs[n].trigger = "Request" THEN jobs[n].request ELSE lastAnswered,
     fp      |-> seen.images, job |-> n]

Adopt(n, lastAnswered) ==
    [result  |-> "Running", trigger |-> jobs[n].trigger,
     request |-> IF jobs[n].trigger = "Request" THEN jobs[n].request ELSE lastAnswered,
     fp      |-> jobs[n].fp, job |-> n]

\* The verdict of a run that has ended; a run still going leaves s as it is.
Judged(n, s) ==
    IF jobs[n].phase = "done" THEN [s EXCEPT !.result = jobs[n].verdict] ELSE s

\* A run whose Job is gone before its result was read.
LostWaits(s) == s

Lost(s) == [s EXCEPT !.result = "Error"]

\* Disabled: no fingerprint, the answered request kept.
Skipped(s) == [NilStatus EXCEPT !.result = "Skipped", !.request = s.request]

\* The Jobs after deleteRuns: none of the operator's runs, finished or not.
Deleted == [n \in JobName |-> Absent]

\* What deleteRuns may leave when one of its deletes fails.
DeletedSome == {[n \in JobName |-> IF n \in kept THEN jobs[n] ELSE Absent] : kept \in SUBSET Runs}

-----------------------------------------------------------------------------
(* The pass *)

Fault == faults < MaxFaults /\ faults' = faults + 1

EndPass == pc' = "idle" /\ seen' = NotSeen /\ v' = NilStatus /\ stale' = FALSE

\* The pass reads the Zaentrum from the API server and renders it.
ReadZaentrum(ready) ==
    /\ pc = "idle"
    /\ pc' = IF enabled THEN "collect" ELSE "disable"
    /\ seen' = [request |-> request, images |-> images, ready |-> ready]
    /\ v' = status
    /\ stale' = FALSE
    /\ UNCHANGED <<server, status, jobs, observer, bounds>>

\* Verification is off: a run in flight is removed, as far as that works.
DisableVerification ==
    /\ pc = "disable"
    /\ \/ v.result # "Running" /\ UNCHANGED <<jobs, faults>>
       \/ v.result = "Running" /\ jobs' = Deleted /\ UNCHANGED faults
       \/ v.result = "Running" /\ jobs' \in DeletedSome /\ Fault
    /\ v' = Skipped(v)
    /\ pc' = "write"
    /\ UNCHANGED <<server, status, seen, stale, observer, edits>>

\* A run in flight: its Job is read and, once it has ended, judged. One that is
\* gone was replaced by the run that is there now, or is lost. Whatever waits
\* to start waits for the next pass.
CollectRun ==
    /\ pc = "collect" /\ v.result = "Running"
    /\ \/ UNCHANGED v /\ Fault
       \/ /\ v.job \in Runs
          /\ v' = Judged(v.job, v)
          /\ UNCHANGED faults
       \/ /\ v.job \notin Runs /\ Runs = {}
          /\ v' = Lost(v)
          /\ UNCHANGED faults
       \/ /\ v.job \notin Runs
          /\ \E n \in Runs :
                \/ v' = Judged(n, Adopt(n, v.request)) /\ UNCHANGED faults
                \/ v' = Adopt(n, v.request) /\ Fault        \* its pod could not be read
    /\ pc' = "write"
    /\ UNCHANGED <<server, status, jobs, seen, stale, observer, edits>>

\* No run in flight: does this pass start one?
DecideRun ==
    /\ pc = "collect" /\ v.result # "Running"
    /\ pc' = IF Wanted(v) = "None" THEN "write" ELSE "list"
    /\ UNCHANGED <<server, status, jobs, seen, v, stale, observer, bounds>>

\* The defect the list is there for: whatever runs is replaced.
ListNothing ==
    /\ pc = "list" /\ pc' = "replace"
    /\ UNCHANGED <<server, status, jobs, seen, v, stale, observer, bounds>>

\* startRun lists the runs: one in flight that status does not name is followed
\* instead of replaced.
ListRuns ==
    /\ pc = "list"
    /\ \/ v' = FailedStart(v) /\ pc' = "write" /\ Fault
       \/ /\ \E n \in Active : v' = Adopt(n, v.request)
          /\ pc' = "write"
          /\ UNCHANGED faults
       \/ /\ Active = {}
          /\ pc' = "replace"
          /\ UNCHANGED <<v, faults>>
    /\ UNCHANGED <<server, status, jobs, seen, stale, observer, edits>>

\* The previous Jobs go before the next one comes. A delete that fails may have
\* removed some; after it the hook, the account and the Job are prepared.
ReplaceRuns ==
    /\ pc = "replace"
    /\ \/ /\ jobs' \in DeletedSome
          /\ v' = FailedStart(v) /\ pc' = "write" /\ Fault
       \/ /\ jobs' = Deleted
          /\ pc' = "create"
          /\ UNCHANGED <<v, faults>>
    /\ UNCHANGED <<server, status, seen, stale, observer, edits>>

\* A name nothing refers to: runJob draws a random suffix.
Unused(n) == n \notin Runs /\ status.job # n /\ v.job # n

\* The Job is created. A Create that reports an error may have made it.
CreateRun ==
    /\ pc = "create"
    /\ \/ \E n \in JobName :
             /\ Unused(n)
             /\ jobs' = [jobs EXCEPT ![n] = RunJob(v)]
             /\ \/ v' = [Starting(v) EXCEPT !.job = n] /\ UNCHANGED faults
                \/ v' = FailedStart(v) /\ Fault
       \/ UNCHANGED jobs /\ v' = FailedStart(v) /\ Fault
    /\ pc' = "write"
    /\ UNCHANGED <<server, status, seen, stale, observer, edits>>

\* The status the verification rests at: a verdict for what the platform runs
\* and for what was asked.
Settled(s) ==
    /\ s.result \in Verdict
    /\ s.fp = images
    /\ request \in {NoRequest, s.request}

\* The status goes back with the resourceVersion it was read at.
WriteStatus ==
    /\ pc = "write" /\ ~stale
    /\ status' = v
    /\ rested' = (rested \/ (enabled /\ Settled(v)))
    /\ EndPass
    /\ UNCHANGED <<server, jobs, truth, bounds>>

\* The Zaentrum was edited meanwhile: the write is refused, the pass is over.
ConflictOnWrite ==
    /\ pc = "write" /\ stale
    /\ EndPass
    /\ UNCHANGED <<server, status, jobs, observer, bounds>>

\* The operator dies, or an API call ends the pass with an error before the
\* status is written: what the pass knew is gone, what it did stays.
AbandonPass ==
    /\ pc # "idle"
    /\ Fault
    /\ EndPass
    /\ UNCHANGED <<server, status, jobs, observer, edits>>

Pass ==
    \/ \E ready \in BOOLEAN : ReadZaentrum(ready)
    \/ DisableVerification
    \/ CollectRun \/ DecideRun
    \/ ListRuns \/ ReplaceRuns \/ CreateRun
    \/ WriteStatus \/ ConflictOnWrite

-----------------------------------------------------------------------------
(* Around the pass *)

Edit == edits < MaxEdits /\ edits' = edits + 1 /\ rested' = FALSE

\* The annotation is set, changed or removed.
AnnotateRequest(q) ==
    /\ q # request /\ request' = q
    /\ stale' = (pc # "idle")
    /\ Edit
    /\ UNCHANGED <<enabled, status, jobs, images, pc, seen, v, truth, faults>>

\* spec.verification.enabled is flipped.
ToggleEnabled ==
    /\ enabled' = ~enabled
    /\ stale' = (pc # "idle")
    /\ Edit
    /\ UNCHANGED <<request, status, jobs, images, pc, seen, v, truth, faults>>

\* The channel moves, a tag is pushed: the next render has other images.
MoveImages(f) ==
    /\ f # images /\ images' = f
    /\ Edit
    /\ UNCHANGED <<enabled, request, status, jobs, pc, seen, v, stale, truth, faults>>

\* The run's Job ends, at its deadline at the latest; verdict is what its pods say.
FinishRun(n, verdict) ==
    /\ n \in Active
    /\ jobs' = [jobs EXCEPT ![n].phase = "done", ![n].verdict = verdict]
    /\ truth' = truth \union {[fp |-> jobs[n].fp, request |-> jobs[n].request,
                               verdict |-> verdict]}
    /\ UNCHANGED <<server, status, pc, seen, v, stale, rested, bounds>>

\* The pods of a finished Job are gone before its result is read: no verdict.
LosePods(n) ==
    /\ jobs[n].phase = "done" /\ jobs[n].verdict # "Error"
    /\ jobs' = [jobs EXCEPT ![n].verdict = "Error"]
    /\ Fault
    /\ UNCHANGED <<server, status, pc, seen, v, stale, observer, edits>>

\* A finished Job's time to live is over, or someone deletes one.
RemoveJob(n) ==
    /\ n \in Runs
    /\ jobs' = [jobs EXCEPT ![n] = Absent]
    /\ \/ jobs[n].phase = "done" /\ UNCHANGED faults
       \/ jobs[n].phase = "active" /\ Fault
    /\ UNCHANGED <<server, status, pc, seen, v, stale, observer, edits>>

Environment ==
    \/ \E q \in Requests : AnnotateRequest(q)
    \/ ToggleEnabled
    \/ \E f \in Fingerprint : MoveImages(f)
    \/ \E n \in JobName : LosePods(n) \/ RemoveJob(n)
    \/ \E n \in JobName, verdict \in Judgements : FinishRun(n, verdict)

Next == Pass \/ AbandonPass \/ Environment

Spec == Init /\ [][Next]_vars

\* The work queue runs a pass again and again (a requeue, an error's backoff),
\* a Job ends by its deadline, and the platform is Ready again and again.
FairSpec ==
    /\ Spec
    /\ WF_vars(Pass)
    /\ SF_vars(ReadZaentrum(TRUE))
    /\ WF_vars(\E n \in JobName, verdict \in Judgements : FinishRun(n, verdict))

-----------------------------------------------------------------------------
(* Properties *)

\* Every variable has its type.
TypeOK ==
    /\ enabled \in BOOLEAN /\ request \in Requests /\ images \in Fingerprint
    /\ status \in VerificationStatus
    /\ jobs \in [JobName -> Job]
    /\ pc \in {"idle", "collect", "disable", "list", "replace", "create", "write"}
    /\ seen \in [request : Requests, images : Fingerprint \union {NoFingerprint},
                 ready : BOOLEAN]
    /\ v \in VerificationStatus
    /\ stale \in BOOLEAN
    /\ truth \subseteq [fp : Fingerprint, request : Requests, verdict : Verdict]
    /\ rested \in BOOLEAN
    /\ edits \in Nat /\ faults \in Nat

\* "At most one run, ever" (verify.go:291): whatever is lost, retried or
\* half-done, the API server never holds two of the operator's runs.
OneRun == \A m, n \in Runs : m = n

\* A recorded verdict is the verdict some run of exactly that fingerprint ended
\* with and, where a request is said to be answered by it, of that request:
\* following, adopting and judging never mix two runs up.
VerdictIsOfItsRun ==
    status.result \in {"Passed", "Failed"} =>
        \E t \in truth :
            /\ t.fp = status.fp /\ t.verdict = status.result
            /\ t.request = IF status.trigger = "Request" THEN status.request ELSE NoRequest

\* What a run ends with is what its report says, with nothing that went wrong
\* hidden: for every verdict a run was given, whatever pods and reports it may
\* have been given for (SaysSo and HidesNothing in module Report).
ReportIsFaithful == \A t \in truth : t.verdict \in Faithful

\* What the runs and the status are to whoever reads the status: the promise of
\* module SelfTest, which the passes, however they fail and overlap, keep.
Run == [fp : Fingerprint, request : Requests]
Going == IF Active = {} THEN NoJob
         ELSE LET n == CHOOSE n \in Active : TRUE IN [fp |-> jobs[n].fp, request |-> jobs[n].request]
Ends == {[of |-> [fp |-> t.fp, request |-> t.request], verdict |-> t.verdict] : t \in truth}
Recorded ==
    IF status.result \notin {"Passed", "Failed"} THEN NoJob
    ELSE [of |-> [fp |-> status.fp,
                  request |-> IF status.trigger = "Request" THEN status.request ELSE NoRequest],
          verdict |-> status.result]

Promise == INSTANCE SelfTest WITH
    Run <- Run, Verdict <- Verdict, None <- NoJob,
    running <- Going, ended <- Ends, recorded <- Recorded

KeepsPromise == Promise!Spec

\* The defect startRun's list guards against (verify.go:275-281): no pass
\* replaces a run that is still in flight, whether status names it or not.
InFlightNotReplaced ==
    [][pc = "replace" => \A n \in Active : jobs'[n] = jobs[n]]_vars

\* status.verification.request moves only to a request a run was started for,
\* or failed to start for (verify.go:51-53): an annotation left in place never
\* reads as new after an update, and a request is not used up by an update's run.
AnsweredByItsRun ==
    [][status'.request # status.request =>
          /\ status'.trigger = "Request"
          /\ status'.job # NoJob => status'.job \notin Runs
                                    \/ jobs[status'.job].request = status'.request]_vars

\* A verdict is final (verify.go:49-58): once status holds one for what the
\* platform runs and for what was asked, then until someone edits the Zaentrum or
\* the images move, no pass writes another in its place, whatever comes of the
\* run's Job and its pods, and none starts a run.
QuietAfterVerdict ==
    [][rested => status' = status /\ Active' \subseteq Active]_vars

\* "nothing is dropped" (verify.go:49): once edits stop, the platform as it
\* stands and the request as it stands get their verdict, for good.
EveryChangeVerified == <>[](enabled => Settled(status))

=============================================================================
