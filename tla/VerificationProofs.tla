------------------------- MODULE VerificationProofs -------------------------
(***************************************************************************)
(* What Verification promises for every set of names, platforms and        *)
(* requests, whatever pods a run may leave, and every bound: types, at     *)
(* most one run, no run in flight replaced, every recorded verdict the     *)
(* verdict of its run, every request answered by its run, a verdict that   *)
(* stays, and a verdict that is what the report says (module Report).      *)
(***************************************************************************)
EXTENDS Verification, FunctionTheorems, FiniteSetTheorems, TLAPS

\* The steps of startRun only run for a run that is wanted.
Starts == pc \in {"list", "replace", "create"} => Wanted(v) \in Trigger

\* What the pass read is there while the pass lasts.
Sees == pc # "idle" => seen.images \in Fingerprint

\* startRun creates a Job only after it saw none in flight and removed the rest.
Cleared ==
    /\ pc = "replace" => Active = {}
    /\ pc = "create" => Runs = {}

TypeInv == TypeOK /\ Starts /\ Sees

\* Whatever pods a run leaves, they are judged to a verdict.
LEMMA JudgementsType == Judgements \subseteq Verdict
BY DEF Judgements, judge, Verdict

\* Statuses and Jobs the operators make have their types.
LEMMA WantedType == \A s : Wanted(s) \in Trigger \union {"None"}
BY DEF Wanted, Trigger

LEMMA StartingType ==
    ASSUME TypeOK, Sees, pc # "idle", Wanted(v) \in Trigger
    PROVE  /\ Starting(v) \in RunStatus
           /\ FailedStart(v) \in RunStatus
           /\ \A n \in JobName : [Starting(v) EXCEPT !.job = n] \in RunStatus
           /\ RunJob(v) \in ActiveJob
<1>1. v.request \in Requests /\ seen.request \in Requests /\ NoRequest \in Requests
      /\ seen.images \in Fingerprint
  BY DEF TypeOK, VerificationStatus, RunStatus, IdleStatus, Requests, Sees
<1>2. Starting(v) \in RunStatus
  BY <1>1 DEF Starting, RunStatus, Verdict
<1>3. FailedStart(v) \in RunStatus
  BY <1>2 DEF FailedStart, RunStatus, Verdict
<1>4. \A n \in JobName : [Starting(v) EXCEPT !.job = n] \in RunStatus
  BY <1>2 DEF RunStatus
<1>5. RunJob(v) \in ActiveJob
  BY <1>1 DEF RunJob, ActiveJob
<1> QED BY <1>2, <1>3, <1>4, <1>5

LEMMA AdoptType ==
    ASSUME TypeOK, NEW n \in Runs, NEW q \in Requests
    PROVE  Adopt(n, q) \in RunStatus /\ Judged(n, Adopt(n, q)) \in RunStatus
<1>1. n \in JobName /\ jobs[n] \in ActiveJob \union DoneJob
  BY DEF TypeOK, Job, Runs, Absent
<1>2. jobs[n].trigger \in Trigger /\ jobs[n].request \in Requests /\ jobs[n].fp \in Fingerprint
  BY <1>1 DEF ActiveJob, DoneJob
<1>3. Adopt(n, q) \in RunStatus
  BY <1>1, <1>2 DEF Adopt, RunStatus
<1>4. jobs[n].phase = "done" => jobs[n].verdict \in Verdict
  BY <1>1 DEF ActiveJob, DoneJob
<1> QED BY <1>3, <1>4 DEF Judged, RunStatus

LEMMA JudgedType ==
    ASSUME TypeOK, NEW n \in Runs, v \in RunStatus
    PROVE  Judged(n, v) \in RunStatus
<1>1. jobs[n] \in ActiveJob \union DoneJob
  BY DEF TypeOK, Job, Runs, Absent
<1>2. jobs[n].phase = "done" => jobs[n].verdict \in Verdict
  BY <1>1 DEF ActiveJob, DoneJob
<1> QED BY <1>2 DEF Judged, RunStatus

\* A deleteRuns that fails, or does not, only takes Jobs away.
LEMMA DeletedType ==
    ASSUME TypeOK, NEW left, left \in DeletedSome \/ left = Deleted
    PROVE  /\ left \in [JobName -> Job]
           /\ \A n \in JobName : left[n] = jobs[n] \/ left[n] = Absent
           /\ \A n \in JobName : left[n] = jobs[n] \/ left[n].phase = "absent"
<1>1. Absent \in Job /\ Absent.phase = "absent"
  BY DEF Absent, Job
<1>2. CASE left = Deleted
  BY <1>1, <1>2 DEF Deleted
<1>3. CASE left \in DeletedSome
  <2>1. PICK kept \in SUBSET Runs : left = [n \in JobName |-> IF n \in kept THEN jobs[n] ELSE Absent]
    BY <1>3 DEF DeletedSome
  <2> QED BY <2>1, <1>1 DEF TypeOK
<1> QED BY <1>2, <1>3

\* Pods that are gone change nothing but the verdict of a finished Job.
LEMMA LosesOne ==
    ASSUME TypeOK, NEW n \in JobName, LosePods(n)
    PROVE  \A m \in JobName :
              /\ jobs'[m].phase = jobs[m].phase /\ jobs'[m].fp = jobs[m].fp
              /\ jobs'[m].request = jobs[m].request /\ jobs'[m].trigger = jobs[m].trigger
              /\ jobs'[m].verdict = jobs[m].verdict
                 \/ (jobs'[m].verdict = "Error" /\ jobs'[m].phase = "done")
<1>1. jobs[n] \in DoneJob
  BY DEF LosePods, TypeOK, Job, ActiveJob, Absent
<1>2. jobs' = [jobs EXCEPT ![n] = [jobs[n] EXCEPT !.verdict = "Error"]]
  BY DEF LosePods, TypeOK
<1>3. \A m \in JobName : m # n => jobs'[m] = jobs[m]
  BY <1>2 DEF TypeOK
<1>4. jobs'[n] = [jobs[n] EXCEPT !.verdict = "Error"]
  BY <1>2 DEF TypeOK
<1>5. /\ jobs'[n].phase = jobs[n].phase /\ jobs'[n].fp = jobs[n].fp
      /\ jobs'[n].request = jobs[n].request /\ jobs'[n].trigger = jobs[n].trigger
      /\ jobs'[n].verdict = "Error" /\ jobs[n].phase = "done"
  BY <1>1, <1>4 DEF DoneJob
<1> QED BY <1>3, <1>5

LEMMA RunningIsRun ==
    ASSUME TypeOK, v.result = "Running"
    PROVE  v \in RunStatus /\ v.request \in Requests
BY DEF TypeOK, VerificationStatus, RunStatus, IdleStatus

\* Verification keeps its types, and starts a run only when it wants one.
LEMMA TypeStep == TypeInv /\ [Next]_vars => TypeInv'
<1> SUFFICES ASSUME TypeInv, [Next]_vars PROVE TypeInv'
  OBVIOUS
<1> USE DEF TypeInv
<1>0. /\ NilStatus \in VerificationStatus
      /\ NotSeen \in [request : Requests, images : Fingerprint \union {NoFingerprint},
                      ready : BOOLEAN]
  BY DEF NilStatus, VerificationStatus, IdleStatus, Requests, NotSeen
<1>1. ASSUME NEW ready \in BOOLEAN, ReadZaentrum(ready) PROVE TypeInv'
  BY <1>1 DEF ReadZaentrum, TypeOK, Starts, Sees, server, observer, bounds, VerificationStatus
<1>2. CASE DisableVerification
  <2>1. v.request \in Requests
    BY DEF TypeOK, VerificationStatus, RunStatus, IdleStatus
  <2>2. Skipped(v) \in VerificationStatus
    BY <2>1 DEF Skipped, NilStatus, VerificationStatus, IdleStatus
  <2>3. jobs' \in [JobName -> Job]
    BY <1>2, DeletedType DEF DisableVerification, TypeOK
  <2> QED BY <1>2, <2>2, <2>3 DEF DisableVerification, Fault, TypeOK, Starts, Sees, server, observer
<1>3. CASE CollectRun
  <2>1. v \in RunStatus /\ v.request \in Requests
    BY <1>3, RunningIsRun DEF CollectRun
  <2>2. Lost(v) \in RunStatus
    BY <2>1 DEF Lost, RunStatus, Verdict
  <2>3. v' \in RunStatus
    BY <1>3, <2>1, <2>2, AdoptType, JudgedType DEF CollectRun
  <2>4. v' \in VerificationStatus
    BY <2>3 DEF VerificationStatus
  <2>5. faults' \in Nat
    BY <1>3 DEF CollectRun, Fault, TypeOK
  <2> QED BY <1>3, <2>4, <2>5 DEF CollectRun, TypeOK, Starts, Sees, server, observer
<1>4. CASE DecideRun
  <2>1. Wanted(v) \in Trigger \union {"None"}
    BY WantedType
  <2> QED BY <1>4, <2>1 DEF DecideRun, TypeOK, Starts, Sees, Wanted, server, observer, bounds
<1>5. CASE ListRuns
  <2>1. v' \in VerificationStatus
    <3>1. v.request \in Requests
      BY DEF TypeOK, VerificationStatus, RunStatus, IdleStatus
    <3>2. \A n \in Active : Adopt(n, v.request) \in RunStatus
      BY <3>1, AdoptType DEF Active, Runs
    <3>3. FailedStart(v) \in RunStatus
      BY <1>5, StartingType DEF ListRuns, Starts
    <3> QED BY <1>5, <3>2, <3>3 DEF ListRuns, TypeOK, VerificationStatus
  <2>2. faults' \in Nat
    BY <1>5 DEF ListRuns, Fault, TypeOK
  <2> QED BY <1>5, <2>1, <2>2 DEF ListRuns, TypeOK, Starts, Sees, Wanted, server, observer
<1>6. CASE ReplaceRuns
  <2>1. FailedStart(v) \in VerificationStatus
    BY <1>6, StartingType DEF ReplaceRuns, Starts, VerificationStatus
  <2>2. v' \in VerificationStatus /\ faults' \in Nat
    BY <1>6, <2>1 DEF ReplaceRuns, Fault, TypeOK
  <2>3. jobs' \in [JobName -> Job]
    BY <1>6, DeletedType DEF ReplaceRuns
  <2> QED BY <1>6, <2>2, <2>3 DEF ReplaceRuns, TypeOK, Starts, Sees, Wanted, server, observer
<1>7. CASE CreateRun
  <2>1. /\ FailedStart(v) \in RunStatus
        /\ \A n \in JobName : [Starting(v) EXCEPT !.job = n] \in RunStatus
        /\ RunJob(v) \in ActiveJob
    BY <1>7, StartingType DEF CreateRun, Starts
  <2>2. v' \in VerificationStatus
    BY <1>7, <2>1 DEF CreateRun, VerificationStatus
  <2>3. jobs' \in [JobName -> Job]
    BY <1>7, <2>1 DEF CreateRun, Job, TypeOK
  <2>4. faults' \in Nat
    BY <1>7 DEF CreateRun, Fault, TypeOK
  <2> QED BY <1>7, <2>2, <2>3, <2>4 DEF CreateRun, TypeOK, Starts, Sees, server, observer
<1>8. CASE WriteStatus
  BY <1>0, <1>8 DEF WriteStatus, EndPass, TypeOK, Starts, Sees, server, bounds
<1>9. CASE ConflictOnWrite
  BY <1>0, <1>9 DEF ConflictOnWrite, EndPass, TypeOK, Starts, Sees, server, observer, bounds
<1>10. CASE AbandonPass
  <2>1. faults' \in Nat
    BY <1>10 DEF AbandonPass, Fault, TypeOK
  <2>2. pc' = "idle" /\ seen' = NotSeen /\ v' = NilStatus /\ stale' = FALSE
    BY <1>10 DEF AbandonPass, EndPass
  <2> QED BY <1>0, <1>10, <2>1, <2>2 DEF AbandonPass, TypeOK, Starts, Sees, server, observer
<1>11. ASSUME NEW q \in Requests, AnnotateRequest(q) PROVE TypeInv'
  <2>1. edits' \in Nat
    BY <1>11 DEF AnnotateRequest, Edit, TypeOK
  <2>2. rested' \in BOOLEAN
    BY <1>11 DEF AnnotateRequest, Edit
  <2> QED BY <1>11, <2>1, <2>2 DEF AnnotateRequest, Edit, TypeOK, Starts, Sees, Wanted
<1>12. CASE ToggleEnabled
  <2>1. edits' \in Nat
    BY <1>12 DEF ToggleEnabled, Edit, TypeOK
  <2>2. rested' \in BOOLEAN
    BY <1>12 DEF ToggleEnabled, Edit
  <2> QED BY <1>12, <2>1, <2>2 DEF ToggleEnabled, Edit, TypeOK, Starts, Sees, Wanted
<1>13. ASSUME NEW f \in Fingerprint, MoveImages(f) PROVE TypeInv'
  <2>1. edits' \in Nat
    BY <1>13 DEF MoveImages, Edit, TypeOK
  <2>2. rested' \in BOOLEAN
    BY <1>13 DEF MoveImages, Edit
  <2> QED BY <1>13, <2>1, <2>2 DEF MoveImages, Edit, TypeOK, Starts, Sees, Wanted
<1>14. ASSUME NEW n \in JobName, RemoveJob(n) PROVE TypeInv'
  <2>1. jobs' \in [JobName -> Job] /\ faults' \in Nat
    BY <1>14 DEF RemoveJob, Fault, Job, TypeOK
  <2> QED BY <1>14, <2>1 DEF RemoveJob, TypeOK, Starts, Sees, Wanted, server, observer
<1>15. ASSUME NEW n \in JobName, NEW verdict \in Judgements, FinishRun(n, verdict) PROVE TypeInv'
  <2> verdict \in Verdict
    BY JudgementsType
  <2>1. jobs[n] \in ActiveJob
    BY <1>15 DEF FinishRun, Active, TypeOK, Job, DoneJob, Absent
  <2>2. [jobs[n] EXCEPT !.phase = "done", !.verdict = verdict] \in DoneJob
    BY <2>1 DEF ActiveJob, DoneJob
  <2>3. jobs' = [jobs EXCEPT ![n] = [jobs[n] EXCEPT !.phase = "done", !.verdict = verdict]]
    BY <1>15 DEF FinishRun, TypeOK
  <2>4. jobs' \in [JobName -> Job]
    BY <2>2, <2>3 DEF TypeOK, Job
  <2>5. truth' \subseteq [fp : Fingerprint, request : Requests, verdict : Verdict]
    BY <1>15, <2>1 DEF FinishRun, ActiveJob, TypeOK
  <2>6. rested' \in BOOLEAN
    BY <1>15 DEF FinishRun, TypeOK
  <2> QED BY <1>15, <2>4, <2>5, <2>6 DEF FinishRun, TypeOK, Starts, Sees, Wanted, server, bounds
<1>16. ASSUME NEW n \in JobName, LosePods(n) PROVE TypeInv'
  <2>1. jobs[n] \in DoneJob
    BY <1>16 DEF LosePods, TypeOK, Job, ActiveJob, Absent
  <2>2. [jobs[n] EXCEPT !.verdict = "Error"] \in DoneJob
    BY <2>1 DEF DoneJob, Verdict
  <2>3. jobs' = [jobs EXCEPT ![n] = [jobs[n] EXCEPT !.verdict = "Error"]]
    BY <1>16 DEF LosePods, TypeOK
  <2>4. jobs' \in [JobName -> Job] /\ faults' \in Nat
    BY <1>16, <2>2, <2>3 DEF LosePods, Fault, TypeOK, Job
  <2> QED BY <1>16, <2>4 DEF LosePods, TypeOK, Starts, Sees, Wanted, server, observer
<1>17. CASE UNCHANGED vars
  BY <1>17 DEF vars, TypeOK, Starts, Sees, Wanted
<1> QED BY <1>1, <1>2, <1>3, <1>4, <1>5, <1>6, <1>7, <1>8, <1>9, <1>10, <1>11,
           <1>12, <1>13, <1>14, <1>15, <1>16, <1>17 DEF Next, Pass, Environment

LEMMA TypeInit == Init => TypeInv
<1> SUFFICES ASSUME Init PROVE TypeInv
  OBVIOUS
<1>1. NilStatus \in VerificationStatus
  BY DEF NilStatus, VerificationStatus, IdleStatus, Requests
<1>2. NotSeen \in [request : Requests, images : Fingerprint \union {NoFingerprint},
                   ready : BOOLEAN]
  BY DEF NotSeen, Requests
<1>3. jobs \in [JobName -> Job]
  BY DEF Init, Job
<1> QED BY <1>1, <1>2, <1>3 DEF Init, TypeInv, TypeOK, Starts, Sees

\* Every reachable state is well typed: verify and its helpers never record a
\* status, or make a Job, that is half one kind and half another.
THEOREM TypeCorrect == Spec => []TypeOK
<1>1. Spec => []TypeInv
  BY TypeInit, TypeStep, PTL DEF Spec
<1>2. TypeInv => TypeOK
  BY DEF TypeInv
<1> QED BY <1>1, <1>2, PTL

-----------------------------------------------------------------------------
\* At most one run, and the room startRun has made for the next one.
RunInv == OneRun /\ Cleared

LEMMA RunStep == TypeInv /\ TypeInv' /\ RunInv /\ [Next]_vars => RunInv'
<1> SUFFICES ASSUME TypeOK, RunInv, [Next]_vars PROVE RunInv'
  BY DEF TypeInv
<1> USE DEF RunInv, OneRun, Cleared, Runs, Active
<1>1. CASE DisableVerification
  <2>1. \A n \in JobName : jobs'[n] = jobs[n] \/ jobs'[n].phase = "absent"
    BY <1>1, DeletedType DEF DisableVerification
  <2> QED BY <1>1, <2>1 DEF DisableVerification
<1>2. CASE ReplaceRuns
  <2>1. \A n \in JobName : jobs'[n] = jobs[n] \/ jobs'[n].phase = "absent"
    BY <1>2, DeletedType DEF ReplaceRuns
  <2>2. pc' = "create" => jobs' = Deleted
    BY <1>2 DEF ReplaceRuns
  <2> QED BY <1>2, <2>1, <2>2 DEF ReplaceRuns, Deleted, Absent
<1>3. CASE CreateRun
  BY <1>3 DEF CreateRun, Unused, RunJob, TypeOK
<1>4. ASSUME NEW n \in JobName, RemoveJob(n) PROVE RunInv'
  BY <1>4 DEF RemoveJob, Absent, TypeOK
<1>5. ASSUME NEW n \in JobName, NEW verdict \in Judgements, FinishRun(n, verdict) PROVE RunInv'
  <2>1. \A m \in JobName : m # n => jobs'[m] = jobs[m]
    BY <1>5 DEF FinishRun, TypeOK
  <2>2. jobs[n].phase = "active" /\ pc # "create"
    BY <1>5 DEF FinishRun
  <2>3. jobs' = [jobs EXCEPT ![n] = [jobs[n] EXCEPT !.phase = "done", !.verdict = verdict]]
    BY <1>5 DEF FinishRun, TypeOK
  <2>4. jobs[n] \in ActiveJob
    BY <2>2 DEF TypeOK, Job, DoneJob, Absent
  <2>5. jobs'[n].phase = "done"
    BY <2>3, <2>4 DEF TypeOK, ActiveJob
  <2>6. pc' = pc
    BY <1>5 DEF FinishRun
  <2> QED BY <2>1, <2>2, <2>5, <2>6 DEF TypeOK
<1>6. CASE (\E ready \in BOOLEAN : ReadZaentrum(ready)) \/ CollectRun \/ DecideRun \/ ListRuns
           \/ WriteStatus \/ ConflictOnWrite \/ AbandonPass
  BY <1>6 DEF ReadZaentrum, CollectRun, DecideRun, ListRuns, WriteStatus, ConflictOnWrite,
              AbandonPass, EndPass
<1>7. CASE (\E q \in Requests : AnnotateRequest(q)) \/ ToggleEnabled
           \/ \E f \in Fingerprint : MoveImages(f)
  BY <1>7 DEF AnnotateRequest, ToggleEnabled, MoveImages
<1>8. ASSUME NEW n \in JobName, LosePods(n) PROVE RunInv'
  <2>1. \A m \in JobName : jobs'[m].phase = jobs[m].phase
    BY <1>8, LosesOne
  <2> QED BY <1>8, <2>1 DEF LosePods
<1>9. CASE UNCHANGED vars
  BY <1>9 DEF vars
<1> QED BY <1>1, <1>2, <1>3, <1>4, <1>5, <1>6, <1>7, <1>8, <1>9 DEF Next, Pass, Environment

LEMMA RunInit == Init => RunInv
BY DEF Init, RunInv, OneRun, Cleared, Runs, Absent

\* However passes fail, overlap with edits or die half-way, the API server never
\* holds two of the operator's runs (verify.go:291).
THEOREM AtMostOneRun == Spec => []OneRun
<1>1. Spec => [](TypeInv /\ RunInv)
  BY TypeInit, TypeStep, RunInit, RunStep, PTL DEF Spec
<1>2. RunInv => OneRun
  BY DEF RunInv
<1> QED BY <1>1, <1>2, PTL

\* startRun's deletes never take a run that is still in flight (verify.go:275-281).
THEOREM NeverReplaced == Spec => InFlightNotReplaced
<1>1. Spec => []RunInv
  BY TypeInit, TypeStep, RunInit, RunStep, PTL DEF Spec
<1>2. RunInv => (pc = "replace" => \A n \in Active : jobs'[n] = jobs[n])
  BY DEF RunInv, Cleared
<1> QED BY <1>1, <1>2, PTL DEF Spec, InFlightNotReplaced

-----------------------------------------------------------------------------
\* A verdict some run of that fingerprint, and of that request, ended with.
Real(s) ==
    s.result \in {"Passed", "Failed"} =>
        \E t \in truth :
            /\ t.fp = s.fp /\ t.verdict = s.result
            /\ t.request = IF s.trigger = "Request" THEN s.request ELSE NoRequest

\* A status that follows a Job says of it what the Job says of itself. Only a
\* name nobody refers to is drawn again, so this outlives the Job.
Follows(s) ==
    s.result = "Running" /\ s.job \in Runs =>
        /\ jobs[s.job].fp = s.fp
        /\ jobs[s.job].trigger = s.trigger
        /\ s.trigger = "Request" => jobs[s.job].request = s.request

\* Only the Job of a requested run names a request.
Named(n) == jobs[n].trigger # "Request" => jobs[n].request = NoRequest

\* What a finished Job holds is what its run ended with, or no verdict.
Ended(n) ==
    jobs[n].phase = "done" /\ jobs[n].verdict # "Error" =>
        \E t \in truth : /\ t.fp = jobs[n].fp
                         /\ t.request = jobs[n].request
                         /\ t.verdict = jobs[n].verdict

VerdictInv ==
    /\ Real(status) /\ Real(v)
    /\ Follows(status) /\ Follows(v)
    /\ \A n \in JobName : Ended(n) /\ Named(n)

LEMMA JudgedIsReal ==
    ASSUME NEW s \in RunStatus, s.result = "Running", s.job \in Runs,
           Follows(s), Ended(s.job), Named(s.job)
    PROVE  Real(Judged(s.job, s)) /\ Follows(Judged(s.job, s))
<1>1. CASE jobs[s.job].phase = "done"
  <2> DEFINE w == [s EXCEPT !.result = jobs[s.job].verdict]
  <2>1. Judged(s.job, s) = w
    BY <1>1 DEF Judged
  <2>2. /\ w.result = jobs[s.job].verdict /\ w.fp = s.fp /\ w.trigger = s.trigger
        /\ w.request = s.request /\ w.job = s.job
    BY DEF RunStatus
  <2>3. Real(w)
    BY <1>1, <2>2 DEF Real, Follows, Ended, Named
  <2>4. Follows(w)
    BY <2>2 DEF Follows
  <2> QED BY <2>1, <2>3, <2>4
<1>2. CASE jobs[s.job].phase # "done"
  BY <1>2 DEF Judged, Real
<1> QED BY <1>1, <1>2

LEMMA AdoptFollows ==
    ASSUME NEW n \in Runs, NEW q
    PROVE  /\ Follows(Adopt(n, q)) /\ Real(Adopt(n, q))
           /\ Adopt(n, q).job = n /\ Adopt(n, q).result = "Running"
BY DEF Adopt, Follows, Real

LEMMA VerdictStep == TypeInv /\ RunInv /\ VerdictInv /\ [Next]_vars => VerdictInv'
<1> SUFFICES ASSUME TypeInv, RunInv, VerdictInv, [Next]_vars PROVE VerdictInv'
  OBVIOUS
<1> USE DEF VerdictInv, Real, Follows, Ended, Named
<1>1. ASSUME NEW ready \in BOOLEAN, ReadZaentrum(ready) PROVE VerdictInv'
  BY <1>1 DEF ReadZaentrum, server, observer, Runs
<1>2. CASE DisableVerification
  <2>1. v'.result = "Skipped" /\ status' = status /\ truth' = truth
    BY <1>2 DEF DisableVerification, Skipped, NilStatus, observer
  <2>2. \A n \in JobName : jobs'[n] = jobs[n] \/ jobs'[n] = Absent
    BY <1>2, DeletedType DEF DisableVerification, TypeInv
  <2> QED BY <2>1, <2>2 DEF Runs, Absent
<1>3. CASE CollectRun
  <2>1. v \in RunStatus /\ v.request \in Requests /\ v.result = "Running"
    BY <1>3, RunningIsRun DEF CollectRun, TypeInv
  <2>2. Real(v') /\ Follows(v')
    <3>1. CASE v' = v
      BY <3>1
    <3>2. CASE v.job \in Runs /\ v' = Judged(v.job, v)
      BY <2>1, <3>2, JudgedIsReal DEF Runs
    <3>3. CASE v' = Lost(v)
      <4>1. v'.result = "Error"
        BY <2>1, <3>3 DEF Lost, RunStatus
      <4> QED BY <4>1
    <3>4. ASSUME NEW n \in Runs, v' = Judged(n, Adopt(n, v.request)) PROVE Real(v') /\ Follows(v')
      <4>1. Adopt(n, v.request) \in RunStatus
        BY <2>1, AdoptType DEF TypeInv
      <4>2. /\ Follows(Adopt(n, v.request)) /\ Adopt(n, v.request).job = n
            /\ Adopt(n, v.request).result = "Running"
        BY AdoptFollows
      <4>3. Ended(n) /\ Named(n)
        BY DEF Runs
      <4> HIDE DEF Real, Follows, Ended, Named
      <4> QED BY <3>4, <4>1, <4>2, <4>3, JudgedIsReal
    <3>5. ASSUME NEW n \in Runs, v' = Adopt(n, v.request) PROVE Real(v') /\ Follows(v')
      <4>1. Follows(Adopt(n, v.request)) /\ Adopt(n, v.request).result = "Running"
        BY AdoptFollows
      <4> QED BY <3>5, <4>1
    <3> QED BY <1>3, <3>1, <3>2, <3>3, <3>4, <3>5 DEF CollectRun
  <2>3. status' = status /\ truth' = truth /\ jobs' = jobs
    BY <1>3 DEF CollectRun, observer
  <2> QED BY <2>2, <2>3 DEF Runs
<1>4. CASE DecideRun
  BY <1>4 DEF DecideRun, observer, Runs
<1>5. CASE ListRuns
  <2>1. status' = status /\ truth' = truth /\ jobs' = jobs
    BY <1>5 DEF ListRuns, observer
  <2>2. CASE v' = FailedStart(v)
    <3>1. v'.result = "Error"
      BY <2>2 DEF FailedStart, Starting
    <3> QED BY <2>1, <3>1 DEF Runs
  <2>3. ASSUME NEW n \in Active, v' = Adopt(n, v.request) PROVE VerdictInv'
    <3>1. n \in Runs
      BY DEF Active, Runs
    <3>2. Real(v') /\ Follows(v')
      BY <2>3, <3>1, AdoptFollows
    <3> QED BY <2>1, <3>2 DEF Runs
  <2>4. CASE v' = v
    BY <2>1, <2>4 DEF Runs
  <2> QED BY <1>5, <2>2, <2>3, <2>4 DEF ListRuns
<1>6. CASE ReplaceRuns
  <2>1. status' = status /\ truth' = truth
    BY <1>6 DEF ReplaceRuns, observer
  <2>2. \A n \in JobName : jobs'[n] = jobs[n] \/ jobs'[n] = Absent
    BY <1>6, DeletedType DEF ReplaceRuns, TypeInv
  <2>3. v' = v \/ v'.result = "Error"
    BY <1>6 DEF ReplaceRuns, FailedStart, Starting
  <2> QED BY <2>1, <2>2, <2>3 DEF Runs, Absent
<1>7. CASE CreateRun
  <2>1. status' = status /\ truth' = truth
    BY <1>7 DEF CreateRun, observer
  <2>2. CASE jobs' = jobs /\ v' = FailedStart(v)
    <3>1. v'.result = "Error"
      BY <2>2 DEF FailedStart, Starting
    <3> QED BY <2>1, <2>2, <3>1 DEF Runs
  <2>3. ASSUME NEW n \in JobName, Unused(n), jobs' = [jobs EXCEPT ![n] = RunJob(v)],
               v' = [Starting(v) EXCEPT !.job = n] \/ v' = FailedStart(v)
        PROVE  VerdictInv'
    <3>1. jobs'[n] = RunJob(v) /\ \A m \in JobName : m # n => jobs'[m] = jobs[m]
      BY <2>3 DEF TypeInv, TypeOK
    <3>2. Follows(status)'
      BY <2>1, <2>3, <3>1 DEF Unused, Runs
    <3>3. Real(v)' /\ Follows(v)'
      BY <2>3, <3>1 DEF FailedStart, Starting, RunJob, Runs
    <3>4. \A m \in JobName : Ended(m)' /\ Named(m)'
      BY <2>1, <3>1 DEF RunJob
    <3> QED BY <2>1, <3>2, <3>3, <3>4
  <2> QED BY <1>7, <2>2, <2>3 DEF CreateRun
<1>8. CASE WriteStatus \/ ConflictOnWrite \/ AbandonPass
  <2>1. jobs' = jobs /\ truth' = truth /\ v' = NilStatus /\ status' \in {status, v}
    BY <1>8 DEF WriteStatus, ConflictOnWrite, AbandonPass, EndPass, observer
  <2>2. NilStatus.result = "None"
    BY DEF NilStatus
  <2> QED BY <2>1, <2>2 DEF Runs, Absent
<1>9. CASE (\E q \in Requests : AnnotateRequest(q)) \/ ToggleEnabled
           \/ (\E f \in Fingerprint : MoveImages(f)) \/ UNCHANGED vars
  <2>1. jobs' = jobs /\ truth' = truth /\ v' = v /\ status' = status
    BY <1>9 DEF AnnotateRequest, ToggleEnabled, MoveImages, vars
  <2> QED BY <2>1 DEF Runs
<1>10. ASSUME NEW n \in JobName, RemoveJob(n) PROVE VerdictInv'
  <2>1. status' = status /\ truth' = truth /\ v' = v
    BY <1>10 DEF RemoveJob, observer
  <2>2. \A m \in JobName : jobs'[m] = jobs[m] \/ jobs'[m] = Absent
    BY <1>10 DEF RemoveJob, TypeInv, TypeOK
  <2> QED BY <2>1, <2>2 DEF Runs, Absent
<1>11. ASSUME NEW n \in JobName, NEW verdict \in Judgements, FinishRun(n, verdict) PROVE VerdictInv'
  <2>1. status' = status /\ v' = v
    BY <1>11 DEF FinishRun
  <2>2. jobs[n] \in ActiveJob
    BY <1>11 DEF FinishRun, Active, TypeInv, TypeOK, Job, DoneJob, Absent
  <2>3. jobs' = [jobs EXCEPT ![n] = [jobs[n] EXCEPT !.phase = "done", !.verdict = verdict]]
    BY <1>11 DEF FinishRun, TypeInv, TypeOK
  <2>4. \A m \in JobName : m # n => jobs'[m] = jobs[m]
    BY <2>3 DEF TypeInv, TypeOK
  <2>5. /\ jobs'[n].fp = jobs[n].fp /\ jobs'[n].request = jobs[n].request
        /\ jobs'[n].trigger = jobs[n].trigger /\ jobs'[n].verdict = verdict
        /\ jobs[n].phase = "active" /\ jobs'[n].phase = "done"
    BY <2>2, <2>3 DEF ActiveJob, TypeInv, TypeOK
  <2> DEFINE t == [fp |-> jobs[n].fp, request |-> jobs[n].request, verdict |-> verdict]
  <2>6. truth' = truth \union {t}
    BY <1>11 DEF FinishRun
  <2>7. Ended(n)'
    <3>1. t \in truth' /\ t.fp = jobs'[n].fp /\ t.request = jobs'[n].request
          /\ t.verdict = jobs'[n].verdict
      BY <2>5, <2>6
    <3> QED BY <3>1
  <2>8. \A m \in JobName : Ended(m)' /\ Named(m)'
    BY <2>4, <2>5, <2>6, <2>7
  <2>9. Real(status)' /\ Real(v)'
    BY <2>1, <2>6
  <2>10. Follows(status)' /\ Follows(v)'
    BY <2>1, <2>4, <2>5 DEF Runs
  <2> QED BY <2>8, <2>9, <2>10
<1>12. ASSUME NEW n \in JobName, LosePods(n) PROVE VerdictInv'
  <2>1. status' = status /\ truth' = truth /\ v' = v
    BY <1>12 DEF LosePods, observer
  <2> QED BY <1>12, <2>1, LosesOne DEF Runs, TypeInv
<1> QED BY <1>1, <1>2, <1>3, <1>4, <1>5, <1>6, <1>7, <1>8, <1>9, <1>10, <1>11, <1>12
        DEF Next, Pass, Environment

LEMMA VerdictInit == Init => VerdictInv
BY DEF Init, VerdictInv, Real, Follows, Ended, Named, NilStatus, Absent

\* status.verification never reports Passed or Failed but for a platform, and a
\* request, that some run really checked with that outcome: a run followed after
\* its predecessor is gone (collect, adopt) is never judged under the other's name.
THEOREM VerdictsAreReal == Spec => []VerdictIsOfItsRun
<1>1. Spec => [](TypeInv /\ RunInv /\ VerdictInv)
  BY TypeInit, TypeStep, RunInit, RunStep, VerdictInit, VerdictStep, PTL DEF Spec
<1>2. VerdictInv => VerdictIsOfItsRun
  BY DEF VerdictInv, Real, VerdictIsOfItsRun
<1> QED BY <1>1, <1>2, PTL

-----------------------------------------------------------------------------
\* With one run at most, the run that is going is the one Job that is active.
LEMMA GoingIs ==
    ASSUME OneRun, NEW n \in Active
    PROVE  Going = [fp |-> jobs[n].fp, request |-> jobs[n].request]
<1>1. \A m \in Active : m = n
  BY DEF OneRun, Active, Runs
<1> QED BY <1>1 DEF Going

LEMMA PromiseInit == Init => Promise!Init
BY DEF Init, Promise!Init, Going, Active, Absent, Ends, Recorded, NilStatus

\* What is recorded is what a run ended with, wherever Real holds of status.
LEMMA RecordedIsReal == Real(status) => Recorded \in Ends \union {NoJob}
<1> SUFFICES ASSUME Real(status), status.result \in {"Passed", "Failed"} PROVE Recorded \in Ends
  BY DEF Recorded
<1>1. PICK t \in truth : /\ t.fp = status.fp /\ t.verdict = status.result
                         /\ t.request = IF status.trigger = "Request" THEN status.request
                                        ELSE NoRequest
  BY DEF Real
<1>2. Recorded = [of |-> [fp |-> t.fp, request |-> t.request], verdict |-> t.verdict]
  BY <1>1 DEF Recorded
<1> QED BY <1>2 DEF Ends

LEMMA RecordedPrimed == Real(status)' => (Recorded \in Ends \union {NoJob})'
BY RecordedIsReal, PTL

\* A step that leaves the Jobs as they are leaves the run that is going.
LEMMA SameJobs == jobs' = jobs => UNCHANGED Going
BY DEF Going, Active

\* A step after which every active Job was active before, and the same, leaves
\* the run that is going or drops it.
LEMMA FewerJobs ==
    ASSUME OneRun, \A n \in JobName : jobs'[n] = jobs[n] \/ jobs'[n] = Absent
    PROVE  UNCHANGED Going \/ (Going # NoJob /\ Going' = NoJob)
<1>1. ASSUME NEW n \in Active, jobs'[n] = jobs[n] PROVE UNCHANGED Going
  <2>1. n \in Active' /\ \A m \in Active' : m = n
    BY <1>1 DEF Active, OneRun, Runs, Absent
  <2>2. Going' = [fp |-> jobs'[n].fp, request |-> jobs'[n].request]
    BY <2>1 DEF Going
  <2> QED BY <1>1, <2>2, GoingIs
<1>2. ASSUME \A n \in Active : jobs'[n] # jobs[n] PROVE Active' = {}
  BY <1>2 DEF Active, Absent
<1>3. Active' = {} => Going' = NoJob
  BY DEF Going
<1> QED BY <1>1, <1>2, <1>3

\* Every step of the passes and of their surroundings is a step of SelfTest or none.
LEMMA PromiseStep ==
    TypeInv /\ RunInv /\ VerdictInv /\ VerdictInv' /\ [Next]_vars => [Promise!Next]_(Promise!vars)
<1> SUFFICES ASSUME TypeInv, RunInv, VerdictInv, VerdictInv', [Next]_vars
             PROVE  [Promise!Next]_(Promise!vars)
  OBVIOUS
<1> USE DEF Promise!Next, Promise!vars
<1>1. ASSUME jobs' = jobs, truth' = truth, status' = status
      PROVE  UNCHANGED Promise!vars
  BY <1>1, SameJobs DEF Ends, Recorded
<1>2. ASSUME \A n \in JobName : jobs'[n] = jobs[n] \/ jobs'[n] = Absent,
             truth' = truth, status' = status
      PROVE  Promise!Drop \/ UNCHANGED Promise!vars
  <2>1. UNCHANGED <<Ends, Recorded>>
    BY <1>2 DEF Ends, Recorded
  <2> QED BY <1>2, <2>1, FewerJobs DEF RunInv, Promise!Drop
<1>3. CASE (\E ready \in BOOLEAN : ReadZaentrum(ready)) \/ CollectRun \/ DecideRun \/ ListRuns
           \/ ConflictOnWrite \/ AbandonPass
  BY <1>1, <1>3 DEF ReadZaentrum, CollectRun, DecideRun, ListRuns, ConflictOnWrite, AbandonPass,
                    observer
<1>4. CASE (\E q \in Requests : AnnotateRequest(q)) \/ ToggleEnabled
           \/ (\E f \in Fingerprint : MoveImages(f)) \/ UNCHANGED vars
  BY <1>1, <1>4 DEF AnnotateRequest, ToggleEnabled, MoveImages, vars
<1>5. CASE DisableVerification
  <2>1. \A n \in JobName : jobs'[n] = jobs[n] \/ jobs'[n] = Absent
    BY <1>5, DeletedType DEF DisableVerification, TypeInv
  <2> QED BY <1>2, <1>5, <2>1 DEF DisableVerification, observer
<1>6. CASE ReplaceRuns
  <2>1. \A n \in JobName : jobs'[n] = jobs[n] \/ jobs'[n] = Absent
    BY <1>6, DeletedType DEF ReplaceRuns, TypeInv
  <2> QED BY <1>2, <1>6, <2>1 DEF ReplaceRuns, observer
<1>7. ASSUME NEW n \in JobName, RemoveJob(n) PROVE [Promise!Next]_(Promise!vars)
  <2>1. \A m \in JobName : jobs'[m] = jobs[m] \/ jobs'[m] = Absent
    BY <1>7 DEF RemoveJob, TypeInv, TypeOK
  <2> QED BY <1>2, <1>7, <2>1 DEF RemoveJob, observer
<1>8. CASE CreateRun
  <2>1. truth' = truth /\ status' = status
    BY <1>8 DEF CreateRun, observer
  <2>2. ASSUME NEW n \in JobName, jobs' = [jobs EXCEPT ![n] = RunJob(v)]
        PROVE  Promise!Start
    <3>1. Runs = {} /\ Going = NoJob
      BY <1>8 DEF RunInv, Cleared, CreateRun, Going, Active, Runs
    <3>2. RunJob(v) \in ActiveJob
      BY <1>8, StartingType DEF CreateRun, TypeInv, Starts
    <3>3. jobs'[n] \in ActiveJob /\ \A m \in JobName : m # n => jobs'[m] = jobs[m]
      BY <2>2, <3>2 DEF TypeInv, TypeOK
    <3>4. n \in Active' /\ \A m \in Active' : m = n
      BY <3>1, <3>3 DEF Active, ActiveJob, Runs
    <3>5. Going' = [fp |-> jobs'[n].fp, request |-> jobs'[n].request]
      BY <3>4 DEF Going
    <3>6. Going' \in Run
      BY <3>3, <3>5 DEF Run, ActiveJob
    <3> QED BY <2>1, <3>1, <3>6 DEF Promise!Start, Ends, Recorded
  <2>3. jobs' = jobs \/ \E n \in JobName : jobs' = [jobs EXCEPT ![n] = RunJob(v)]
    BY <1>8 DEF CreateRun
  <2> QED BY <1>1, <2>1, <2>2, <2>3
<1>9. CASE WriteStatus
  <2>1. jobs' = jobs /\ truth' = truth
    BY <1>9 DEF WriteStatus
  <2>2. (Recorded \in Ends \union {NoJob})'
    <3>1. Real(status)'
      BY DEF VerdictInv
    <3> QED BY <3>1, RecordedPrimed
  <2>3. Ends' = Ends /\ Going' = Going
    BY <2>1, SameJobs DEF Ends
  <2> QED BY <2>2, <2>3 DEF Promise!Record
<1>10. ASSUME NEW n \in JobName, NEW verdict \in Judgements, FinishRun(n, verdict)
       PROVE  Promise!End
  <2>1. n \in Active /\ verdict \in Verdict /\ status' = status
    BY <1>10, JudgementsType DEF FinishRun
  <2>2. Going = [fp |-> jobs[n].fp, request |-> jobs[n].request]
    BY <2>1, GoingIs DEF RunInv
  <2>3. Going # NoJob
    <3>1. jobs[n] \in ActiveJob
      BY <2>1 DEF Active, TypeInv, TypeOK, Job, DoneJob, Absent
    <3> QED BY <2>2, <3>1, Sentinels DEF ActiveJob, Requests
  <2>4. \A m \in JobName : jobs'[m].phase # "active"
    <3>1. \A m \in Active : m = n
      BY <2>1 DEF RunInv, OneRun, Active, Runs
    <3>2. \A m \in JobName : m # n => jobs'[m] = jobs[m]
      BY <1>10 DEF FinishRun, TypeInv, TypeOK
    <3>3. jobs[n] \in ActiveJob
      BY <2>1 DEF Active, TypeInv, TypeOK, Job, DoneJob, Absent
    <3>4. jobs'[n] = [jobs[n] EXCEPT !.phase = "done", !.verdict = verdict]
      BY <1>10 DEF FinishRun, TypeInv, TypeOK
    <3>5. jobs'[n].phase = "done"
      BY <3>3, <3>4 DEF ActiveJob
    <3> QED BY <3>1, <3>2, <3>5 DEF Active
  <2>5. Going' = NoJob
    BY <2>4 DEF Going, Active
  <2>6. Ends' = Ends \union {[of |-> Going, verdict |-> verdict]}
    <3> DEFINE t == [fp |-> jobs[n].fp, request |-> jobs[n].request, verdict |-> verdict]
    <3>1. truth' = truth \union {t}
      BY <1>10 DEF FinishRun
    <3>2. Ends' = Ends \union {[of |-> [fp |-> t.fp, request |-> t.request], verdict |-> t.verdict]}
      BY <3>1 DEF Ends
    <3> QED BY <2>2, <3>2
  <2>7. Recorded' = Recorded
    BY <2>1 DEF Recorded
  <2> QED BY <2>1, <2>3, <2>5, <2>6, <2>7 DEF Promise!End
<1>11. ASSUME NEW n \in JobName, LosePods(n) PROVE UNCHANGED Promise!vars
  <2>1. truth' = truth /\ status' = status
    BY <1>11 DEF LosePods, observer
  <2>2. \A m \in JobName : /\ jobs'[m].phase = jobs[m].phase /\ jobs'[m].fp = jobs[m].fp
                           /\ jobs'[m].request = jobs[m].request
    BY <1>11, LosesOne DEF TypeInv
  <2>3. Active' = Active
    BY <2>2 DEF Active
  <2>4. ASSUME Active = {} PROVE UNCHANGED Going
    <3>1. Active' = {}
      BY <2>3, <2>4
    <3>2. Going = NoJob /\ Going' = NoJob
      BY <2>4, <3>1 DEF Going
    <3> QED BY <3>2
  <2>5. ASSUME NEW m \in Active PROVE UNCHANGED Going
    <3>1. \A k \in Active : k = m
      BY DEF RunInv, OneRun, Active, Runs
    <3>2. Going' = [fp |-> jobs'[m].fp, request |-> jobs'[m].request]
      BY <2>3, <3>1 DEF Going
    <3> QED BY <2>2, <3>2, GoingIs DEF RunInv, Active
  <2> QED BY <2>1, <2>4, <2>5 DEF Ends, Recorded
<1> QED BY <1>3, <1>4, <1>5, <1>6, <1>7, <1>8, <1>9, <1>10, <1>11 DEF Next, Pass, Environment

\* The verification implements the promise of SelfTest: to whoever reads the
\* status, runs happen one after the other and a recorded verdict is one a run
\* of that platform and that request ended with.
THEOREM ImplementsSelfTest == Spec => KeepsPromise
<1>1. Spec => [](TypeInv /\ RunInv /\ VerdictInv)
  BY TypeInit, TypeStep, RunInit, RunStep, VerdictInit, VerdictStep, PTL DEF Spec
<1> QED BY <1>1, PromiseInit, PromiseStep, PTL DEF Spec, KeepsPromise, Promise!Spec

-----------------------------------------------------------------------------
\* Until the pass changes it, the status it works on is the one it read.
Reading == pc \in {"collect", "disable", "list", "replace", "create"} => v = status

\* The status a pass works on answers what the recorded one does, unless it is
\* that of a run that was started, or failed to start, for what it answers.
Answers ==
    pc # "idle" =>
        \/ v.request = status.request
        \/ /\ v.trigger = "Request"
           /\ v.job \in Runs => jobs[v.job].request = v.request

AnswerInv == Reading /\ Answers

\* Following a run: it answers what its Job names, or what was answered before.
LEMMA AdoptAnswers ==
    ASSUME NEW n \in Runs, NEW q
    PROVE  LET s == Adopt(n, q) IN
           s.request = q \/ (s.trigger = "Request" /\ jobs[s.job].request = s.request)
BY DEF Adopt

\* A verdict changes nothing else of a status.
LEMMA JudgedAnswers ==
    ASSUME NEW s \in RunStatus, NEW n
    PROVE  LET w == Judged(n, s) IN
           w.request = s.request /\ w.trigger = s.trigger /\ w.job = s.job
BY DEF Judged, RunStatus

LEMMA AnswerStep == TypeInv /\ AnswerInv /\ [Next]_vars => AnswerInv'
<1> SUFFICES ASSUME TypeInv, AnswerInv, [Next]_vars PROVE AnswerInv'
  OBVIOUS
<1> USE DEF AnswerInv, Reading, Answers
<1>1. ASSUME NEW ready \in BOOLEAN, ReadZaentrum(ready) PROVE AnswerInv'
  BY <1>1 DEF ReadZaentrum
<1>2. CASE DisableVerification
  BY <1>2 DEF DisableVerification, Skipped, NilStatus
<1>3. CASE CollectRun
  <2>1. v \in RunStatus /\ v.request \in Requests /\ v = status
    BY <1>3, RunningIsRun DEF CollectRun, TypeInv
  <2>2. UNCHANGED <<status, jobs>> /\ pc' = "write"
    BY <1>3 DEF CollectRun
  <2>3. Lost(v).request = v.request
    BY <2>1 DEF Lost, RunStatus
  <2>4. Judged(v.job, v).request = v.request
    BY <2>1, JudgedAnswers
  <2>5. ASSUME NEW n \in Runs, v' = Adopt(n, v.request) \/ v' = Judged(n, Adopt(n, v.request))
        PROVE  AnswerInv'
    <3>1. Adopt(n, v.request) \in RunStatus
      BY <2>1, AdoptType DEF TypeInv
    <3>2. \/ v'.request = v.request
          \/ v'.trigger = "Request" /\ jobs[v'.job].request = v'.request
      BY <2>5, <3>1, AdoptAnswers, JudgedAnswers
    <3> QED BY <2>1, <2>2, <3>2
  <2> QED BY <1>3, <2>1, <2>2, <2>3, <2>4, <2>5 DEF CollectRun
<1>4. CASE DecideRun
  BY <1>4 DEF DecideRun, Runs
<1>5. CASE ListRuns
  <2>1. UNCHANGED <<status, jobs>> /\ v = status
    BY <1>5 DEF ListRuns
  <2>2. ASSUME NEW n \in Active, v' = Adopt(n, v.request), pc' = "write" PROVE AnswerInv'
    <3>1. \/ v'.request = v.request
          \/ v'.trigger = "Request" /\ jobs[v'.job].request = v'.request
      BY <2>2, AdoptAnswers DEF Active, Runs
    <3> QED BY <2>1, <2>2, <3>1 DEF Runs
  <2>3. ASSUME v' = FailedStart(v), pc' = "write" PROVE AnswerInv'
    <3>1. /\ v'.request = IF Wanted(v) = "Request" THEN seen.request ELSE v.request
          /\ v'.trigger = Wanted(v) /\ v'.job = NoJob
      BY <2>3 DEF FailedStart, Starting
    <3> QED BY <2>1, <2>3, <3>1, Sentinels DEF Runs
  <2> QED BY <1>5, <2>1, <2>2, <2>3 DEF ListRuns
<1>6. CASE ReplaceRuns
  <2>1. ASSUME v' = FailedStart(v), pc' = "write" PROVE AnswerInv'
    <3>1. /\ v'.request = IF Wanted(v) = "Request" THEN seen.request ELSE v.request
          /\ v'.trigger = Wanted(v) /\ v'.job = NoJob
      BY <2>1 DEF FailedStart, Starting
    <3> QED BY <1>6, <2>1, <3>1, Sentinels DEF ReplaceRuns, Runs
  <2>2. ASSUME UNCHANGED v, pc' = "create" PROVE AnswerInv'
    BY <1>6, <2>2 DEF ReplaceRuns
  <2> QED BY <1>6, <2>1, <2>2 DEF ReplaceRuns
<1>7. CASE CreateRun
  <2>1. status' = status /\ v = status /\ pc' = "write"
    BY <1>7 DEF CreateRun
  <2>2. ASSUME v' = FailedStart(v) PROVE AnswerInv'
    <3>1. /\ v'.request = IF Wanted(v) = "Request" THEN seen.request ELSE v.request
          /\ v'.trigger = Wanted(v) /\ v'.job = NoJob
      BY <2>2 DEF FailedStart, Starting
    <3> QED BY <2>1, <3>1, Sentinels DEF Runs
  <2>3. ASSUME NEW n \in JobName, jobs' = [jobs EXCEPT ![n] = RunJob(v)],
               v' = [Starting(v) EXCEPT !.job = n]
        PROVE  AnswerInv'
    <3>1. /\ v'.request = IF Wanted(v) = "Request" THEN seen.request ELSE v.request
          /\ v'.trigger = Wanted(v) /\ v'.job = n
      BY <2>3 DEF Starting
    <3>2. jobs'[n].request = IF Wanted(v) = "Request" THEN seen.request ELSE NoRequest
      BY <2>3 DEF RunJob, TypeInv, TypeOK
    <3> QED BY <2>1, <3>1, <3>2
  <2> QED BY <1>7, <2>2, <2>3 DEF CreateRun
<1>8. CASE WriteStatus \/ ConflictOnWrite \/ AbandonPass
  BY <1>8 DEF WriteStatus, ConflictOnWrite, AbandonPass, EndPass
<1>9. CASE (\E q \in Requests : AnnotateRequest(q)) \/ ToggleEnabled
           \/ (\E f \in Fingerprint : MoveImages(f)) \/ UNCHANGED vars
  BY <1>9 DEF AnnotateRequest, ToggleEnabled, MoveImages, vars, Runs
<1>10. ASSUME NEW n \in JobName, RemoveJob(n) PROVE AnswerInv'
  <2>1. UNCHANGED <<status, v, pc>>
    BY <1>10 DEF RemoveJob
  <2>2. \A m \in JobName : jobs'[m] = jobs[m] \/ jobs'[m] = Absent
    BY <1>10 DEF RemoveJob, TypeInv, TypeOK
  <2> QED BY <2>1, <2>2 DEF Runs, Absent
<1>11. ASSUME NEW n \in JobName, NEW verdict \in Judgements, FinishRun(n, verdict) PROVE AnswerInv'
  <2>1. UNCHANGED <<status, v, pc>> /\ n \in Active
    BY <1>11 DEF FinishRun
  <2>2. jobs' = [jobs EXCEPT ![n] = [jobs[n] EXCEPT !.phase = "done", !.verdict = verdict]]
    BY <1>11 DEF FinishRun, TypeInv, TypeOK
  <2>3. jobs[n] \in ActiveJob
    BY <2>1 DEF Active, TypeInv, TypeOK, Job, DoneJob, Absent
  <2>4. /\ \A m \in JobName : m # n => jobs'[m] = jobs[m]
        /\ jobs'[n].request = jobs[n].request
    BY <2>2, <2>3 DEF TypeInv, TypeOK, ActiveJob
  <2> QED BY <2>1, <2>4 DEF Runs, Active
<1>12. ASSUME NEW n \in JobName, LosePods(n) PROVE AnswerInv'
  <2>1. UNCHANGED <<status, v, pc>>
    BY <1>12 DEF LosePods
  <2> QED BY <1>12, <2>1, LosesOne DEF Runs, TypeInv
<1> QED BY <1>1, <1>2, <1>3, <1>4, <1>5, <1>6, <1>7, <1>8, <1>9, <1>10, <1>11, <1>12
        DEF Next, Pass, Environment

LEMMA AnswerInit == Init => AnswerInv
BY DEF Init, AnswerInv, Reading, Answers

\* A request counts as answered only by a run of its own, whatever passes follow,
\* adopt, lose or fail to start: an update's run never uses one up (verify.go:51-53).
THEOREM RequestsAnsweredByTheirRun == Spec => AnsweredByItsRun
<1>1. Spec => [](TypeInv /\ AnswerInv)
  BY TypeInit, TypeStep, AnswerInit, AnswerStep, PTL DEF Spec
<1>2. AnswerInv /\ [Next]_vars =>
          (status'.request # status.request =>
              /\ status'.trigger = "Request"
              /\ status'.job # NoJob => status'.job \notin Runs
                                        \/ jobs[status'.job].request = status'.request)
  <2> SUFFICES ASSUME AnswerInv, [Next]_vars, status' # status
               PROVE  \/ status'.request = status.request
                      \/ /\ status'.trigger = "Request"
                         /\ status'.job \in Runs => jobs[status'.job].request = status'.request
    OBVIOUS
  <2>1. CASE WriteStatus
    BY <2>1 DEF WriteStatus, AnswerInv, Answers
  <2>2. WriteStatus
    BY DEF Next, Pass, Environment, vars, server, observer, bounds, ReadZaentrum,
           DisableVerification, CollectRun, DecideRun, ListRuns, ReplaceRuns, CreateRun,
           ConflictOnWrite, AbandonPass, AnnotateRequest, ToggleEnabled, MoveImages, FinishRun,
           LosePods, RemoveJob
  <2> QED BY <2>1, <2>2
<1> QED BY <1>1, <1>2, PTL DEF Spec, AnsweredByItsRun

-----------------------------------------------------------------------------
\* Where a verdict stands, the pass that may be under way read it, and finds
\* nothing it wants to start.
Resting ==
    rested => /\ enabled /\ Settled(status)
              /\ pc \in {"idle", "collect", "write"}
              /\ pc # "idle" => v = status /\ seen.request = request /\ seen.images = images

LEMMA RestStep == TypeInv /\ Resting /\ [Next]_vars => Resting'
<1> SUFFICES ASSUME TypeInv, Resting, [Next]_vars PROVE Resting'
  OBVIOUS
<1> USE DEF Resting, Settled
<1>1. ASSUME NEW ready \in BOOLEAN, ReadZaentrum(ready) PROVE Resting'
  BY <1>1 DEF ReadZaentrum, server, observer
<1>2. CASE CollectRun
  BY <1>2 DEF CollectRun, server, observer, Verdict
<1>3. CASE DecideRun
  <2>1. rested => Wanted(v) = "None"
    BY <1>3 DEF DecideRun, Wanted
  <2> QED BY <1>3, <2>1 DEF DecideRun, server, observer
<1>4. CASE DisableVerification \/ ListRuns \/ ReplaceRuns \/ CreateRun
  BY <1>4 DEF DisableVerification, ListRuns, ReplaceRuns, CreateRun, observer
<1>5. CASE WriteStatus
  BY <1>5 DEF WriteStatus, EndPass, server
<1>6. CASE ConflictOnWrite \/ AbandonPass
  BY <1>6 DEF ConflictOnWrite, AbandonPass, EndPass, server, observer
<1>7. CASE (\E q \in Requests : AnnotateRequest(q)) \/ ToggleEnabled
           \/ (\E f \in Fingerprint : MoveImages(f))
  BY <1>7 DEF AnnotateRequest, ToggleEnabled, MoveImages, Edit
<1>8. ASSUME NEW n \in JobName,
             RemoveJob(n) \/ LosePods(n) \/ \E verdict \in Judgements : FinishRun(n, verdict)
      PROVE  Resting'
  BY <1>8 DEF RemoveJob, LosePods, FinishRun, server, observer
<1>9. CASE UNCHANGED vars
  BY <1>9 DEF vars
<1> QED BY <1>1, <1>2, <1>3, <1>4, <1>5, <1>6, <1>7, <1>8, <1>9 DEF Next, Pass, Environment

LEMMA RestInit == Init => Resting
BY DEF Init, Resting

\* Only startRun's Create adds to the runs in flight.
LEMMA OnlyCreateStarts ==
    ASSUME TypeInv, [Next]_vars, pc # "create"
    PROVE  Active' \subseteq Active
<1> USE DEF Active
<1>1. CASE DisableVerification \/ ReplaceRuns
  <2>1. \A n \in JobName : jobs'[n] = jobs[n] \/ jobs'[n].phase = "absent"
    BY <1>1, DeletedType DEF DisableVerification, ReplaceRuns, TypeInv
  <2> QED BY <2>1
<1>2. CASE jobs' = jobs
  BY <1>2
<1>3. ASSUME NEW n \in JobName, RemoveJob(n) PROVE Active' \subseteq Active
  BY <1>3 DEF RemoveJob, Absent, TypeInv, TypeOK
<1>4. ASSUME NEW n \in JobName, NEW verdict \in Judgements, FinishRun(n, verdict)
      PROVE  Active' \subseteq Active
  BY <1>4 DEF FinishRun, TypeInv, TypeOK
<1>5. ASSUME NEW n \in JobName, LosePods(n) PROVE Active' \subseteq Active
  BY <1>5, LosesOne DEF TypeInv
<1>6. jobs' = jobs \/ DisableVerification \/ ReplaceRuns
      \/ \E n \in JobName : RemoveJob(n) \/ LosePods(n) \/ \E verdict \in Judgements : FinishRun(n, verdict)
  BY DEF Next, Pass, Environment, vars, ReadZaentrum, CollectRun, DecideRun, ListRuns, CreateRun,
         WriteStatus, ConflictOnWrite, AbandonPass, AnnotateRequest, ToggleEnabled, MoveImages
<1> QED BY <1>1, <1>2, <1>3, <1>4, <1>5, <1>6

\* Only the write at the end of a pass changes the status.
LEMMA OnlyWritesStatus ==
    ASSUME [Next]_vars, ~WriteStatus
    PROVE  status' = status
BY DEF Next, Pass, Environment, vars, server, ReadZaentrum, DisableVerification, CollectRun,
       DecideRun, ListRuns, ReplaceRuns, CreateRun, ConflictOnWrite, AbandonPass,
       AnnotateRequest, ToggleEnabled, MoveImages, FinishRun, LosePods, RemoveJob

\* A verdict is final: where one stands for the platform and the request as they
\* are, the pass under way has read it, so it writes it back as it is and finds
\* nothing to start (verify.go:49-58); no pass that read something else is left.
THEOREM VerdictIsFinal == Spec => QuietAfterVerdict
<1>1. Spec => [](TypeInv /\ Resting)
  BY TypeInit, TypeStep, RestInit, RestStep, PTL DEF Spec
<1>2. TypeInv /\ Resting /\ [Next]_vars
          => (rested => status' = status /\ Active' \subseteq Active)
  <2> SUFFICES ASSUME TypeInv, Resting, [Next]_vars, rested
               PROVE  status' = status /\ Active' \subseteq Active
    OBVIOUS
  <2>1. Active' \subseteq Active
    BY OnlyCreateStarts DEF Resting
  <2>2. status' = status
    <3>1. CASE WriteStatus
      BY <3>1 DEF WriteStatus, Resting
    <3>2. CASE ~WriteStatus
      BY <3>2, OnlyWritesStatus
    <3> QED BY <3>1, <3>2
  <2> QED BY <2>1, <2>2
<1> QED BY <1>1, <1>2, PTL DEF Spec, QuietAfterVerdict

-----------------------------------------------------------------------------
\* A finite set with a strict order has an element with nothing before it.
LEMMA FirstOf ==
    ASSUME NEW D, IsFiniteSet(D), D # {}, NEW R \in SUBSET (D \X D),
           \A i \in D : <<i, i>> \notin R,
           \A i, j, k \in D : <<i, j>> \in R /\ <<j, k>> \in R => <<i, k>> \in R
    PROVE  \E i \in D : \A j \in D : <<j, i>> \notin R
<1> DEFINE Ahead(i) == {j \in D : <<j, i>> \in R}
           All == {Ahead(i) : i \in D}
<1>1. All \subseteq FiniteSubsetsOf(D) /\ All # {}
  <2>1. ASSUME NEW i \in D PROVE Ahead(i) \in FiniteSubsetsOf(D)
    <3>1. Ahead(i) \in SUBSET D
      OBVIOUS
    <3> HIDE DEF Ahead
    <3>2. IsFiniteSet(Ahead(i))
      BY <3>1, FS_Subset
    <3> QED BY <3>1, <3>2 DEF FiniteSubsetsOf
  <2>2. All # {}
    <3>1. PICK i \in D : TRUE
      OBVIOUS
    <3> HIDE DEF Ahead
    <3>2. Ahead(i) \in All
      OBVIOUS
    <3> QED BY <3>2
  <2> HIDE DEF Ahead
  <2> QED BY <2>1, <2>2
<1>2. IsWellFoundedOn(StrictSubsetOrdering(D), FiniteSubsetsOf(D))
  BY FS_StrictSubsetOrderingWellFounded
<1>3. PICK x \in All : \A y \in All : ~(<<y, x>> \in StrictSubsetOrdering(D))
  <2> HIDE DEF All
  <2> QED BY <1>1, <1>2, WFMin
<1>4. PICK i \in D : x = Ahead(i)
  BY <1>3
<1>5. ASSUME NEW j \in D, <<j, i>> \in R PROVE FALSE
  <2>1. Ahead(j) \subseteq Ahead(i)
    BY <1>5
  <2>2. j \in Ahead(i) /\ j \notin Ahead(j)
    BY <1>5
  <2>3. Ahead(j) \in SUBSET D /\ Ahead(i) \in SUBSET D /\ Ahead(j) \in All
    OBVIOUS
  <2>4. <<Ahead(j), Ahead(i)>> \in StrictSubsetOrdering(D)
    <3> HIDE DEF Ahead, All
    <3> QED BY <2>1, <2>2, <2>3 DEF StrictSubsetOrdering
  <2> QED BY <1>3, <1>4, <2>3, <2>4
<1> QED BY <1>5

\* The pod that is chosen is the one whose check ended last.
LEMMA ChosenEndedLast ==
    ASSUME NEW pods \in Seq(Pod), pods # <<>>, HasEnded(pods[chooseRunPod(pods)])
    PROVE  /\ chooseRunPod(pods) \in DOMAIN pods
           /\ \A j \in DOMAIN pods : pods[j].ended <= pods[chooseRunPod(pods)].ended
<1> DEFINE Done == {i \in DOMAIN pods : HasEnded(pods[i])}
           Later(i, j) == pods[i].ended > pods[j].ended \/ (pods[i].ended = pods[j].ended /\ i < j)
           Last(i) == \A j \in Done : pods[j].ended < pods[i].ended \/ (pods[j].ended = pods[i].ended /\ i <= j)
<1>1. DOMAIN pods = 1 .. Len(pods) /\ Len(pods) \in Nat /\ 1 \in DOMAIN pods
  OBVIOUS
<1>2. \A i \in DOMAIN pods : pods[i].ended \in Nat
  <2>1. \A i \in DOMAIN pods : pods[i] \in Pod
    BY <1>1
  <2> QED BY <2>1 DEF Pod
<1>3. IsFiniteSet(Done) /\ Done \subseteq 1 .. Len(pods)
  <2>1. IsFiniteSet(1 .. Len(pods)) /\ Done \in SUBSET (1 .. Len(pods))
    BY <1>1, FS_Interval
  <2> QED BY <2>1, FS_Subset
<1>4. Done # {}
  <2>1. CASE Done = {}
    <3>1. chooseRunPod(pods) = 1
      BY <2>1 DEF chooseRunPod
    <3> QED BY <1>1, <3>1, <2>1
  <2> QED BY <2>1
<1>5. \E i \in Done : Last(i)
  <2> DEFINE R == {x \in Done \X Done : Later(x[1], x[2])}
  <2>1. \A i, j \in Done : <<i, j>> \in R <=> Later(i, j)
    OBVIOUS
  <2>2. \A i, j \in Done : i \in Nat /\ pods[i].ended \in Nat
    BY <1>1, <1>2, <1>3
  <2> HIDE DEF R
  <2>3. R \in SUBSET (Done \X Done)
    BY DEF R
  <2>4. \A i \in Done : <<i, i>> \notin R
    BY <2>1, <2>2
  <2>5. \A i, j, k \in Done : <<i, j>> \in R /\ <<j, k>> \in R => <<i, k>> \in R
    BY <2>1, <2>2
  <2>6. PICK i \in Done : \A j \in Done : <<j, i>> \notin R
    <3> HIDE DEF Done
    <3> QED BY <1>3, <1>4, <2>3, <2>4, <2>5, FirstOf
  <2>7. Last(i)
    <3> SUFFICES ASSUME NEW j \in Done
                 PROVE  pods[j].ended < pods[i].ended \/ (pods[j].ended = pods[i].ended /\ i <= j)
      OBVIOUS
    <3>1. ~Later(j, i)
      BY <2>1, <2>6
    <3>2. i \in Nat /\ j \in Nat /\ pods[i].ended \in Nat /\ pods[j].ended \in Nat
      BY <2>2
    <3> QED BY <3>1, <3>2
  <2> QED BY <2>7
<1> DEFINE c == CHOOSE i \in Done : Last(i)
<1>6. c \in Done /\ Last(c)
  <2> HIDE DEF Last, Done
  <2> QED BY <1>5
<1>7. chooseRunPod(pods) = c
  BY <1>4 DEF chooseRunPod
<1> HIDE DEF c
<1>8. ASSUME NEW j \in DOMAIN pods PROVE pods[j].ended <= pods[c].ended
  <2>1. c \in DOMAIN pods
    BY <1>6
  <2>2. CASE j \in Done
    BY <1>2, <1>6, <2>1, <2>2
  <2>3. CASE j \notin Done
    BY <1>2, <2>1, <2>3 DEF HasEnded
  <2> QED BY <2>2, <2>3
<1> QED BY <1>6, <1>7, <1>8

\* A sum that fits its type is itself.
LEMMA WrapFits ==
    ASSUME NEW n \in Nat, n <= IntMax
    PROVE  Wrap(n) = n
<1>1. IntMax \in Nat /\ IntMax # 0
  BY Counts
<1>2. ASSUME NEW m \in Nat, NEW k \in Nat, m < k, k # 0 PROVE m % k = m
  BY <1>2
<1>3. (n + IntMax + 1) % (2 * (IntMax + 1)) = n + IntMax + 1
  <2>1. n + IntMax + 1 \in Nat /\ 2 * (IntMax + 1) \in Nat /\ n + IntMax + 1 < 2 * (IntMax + 1)
        /\ 2 * (IntMax + 1) # 0
    BY <1>1
  <2> HIDE DEF Wrap
  <2> QED BY <2>1, <1>2
<1> QED BY <1>1, <1>3 DEF Wrap

\* What a report lists is counted: none only when there is none.
LEMMA ListedSome ==
    ASSUME NEW rep \in DoctorReport, NEW s
    PROVE  Listed(rep, s) \in Nat /\ (Listed(rep, s) > 0 <=> \E k \in DOMAIN rep.checks : rep.checks[k] = s)
<1> DEFINE L == {i \in DOMAIN rep.checks : rep.checks[i] = s}
<1>1. rep.checks \in Seq(STRING)
  BY DEF DoctorReport
<1>2. DOMAIN rep.checks = 1 .. Len(rep.checks) /\ Len(rep.checks) \in Nat
  BY <1>1
<1>3. IsFiniteSet(L)
  <2>1. IsFiniteSet(1 .. Len(rep.checks)) /\ L \in SUBSET (1 .. Len(rep.checks))
    BY <1>2, FS_Interval
  <2> HIDE DEF L
  <2> QED BY <2>1, FS_Subset
<1>4. L = {} <=> ~\E k \in DOMAIN rep.checks : rep.checks[k] = s
  OBVIOUS
<1> HIDE DEF L
<1>5. Cardinality(L) \in Nat /\ (Cardinality(L) = 0 <=> L = {})
  BY <1>3, FS_CardinalityType, FS_EmptySet
<1>6. Listed(rep, s) = Cardinality(L)
  BY DEF Listed, L
<1> QED BY <1>4, <1>5, <1>6

-----------------------------------------------------------------------------
\* A verdict is what the report says that it is read from.
LEMMA VerdictSays ==
    ASSUME NEW pods \in Outcome, judge(pods) # "Error"
    PROVE  SaysSo(pods) /\ runOutcome(pods) \in DoctorReport
<1> DEFINE c == chooseRunPod(pods)
           rep == runOutcome(pods)
           total == rep.passed + rep.warned + rep.failed + rep.skipped
           fails == \E k \in DOMAIN rep.checks : rep.checks[k] = "fail"
<1>1. pods \in Seq(Pod)
  BY PodsLeft
<1>2. parses(rep)
  BY DEF judge
<1>3. pods # <<>> /\ HasEnded(pods[c]) /\ rep = pods[c].report
  BY <1>2 DEF parses, runOutcome
<1>4. c \in DOMAIN pods /\ \A j \in DOMAIN pods : pods[j].ended <= pods[c].ended
  BY <1>1, <1>3, ChosenEndedLast
<1>5. rep \in DoctorReport
  <2>1. pods[c] \in Pod
    BY <1>1, <1>4
  <2>2. rep \in DoctorReport \union {NoText}
    BY <1>3, <2>1 DEF Pod
  <2> QED BY <1>2, <2>2 DEF parses
<1>6. /\ judge(pods) = "Failed" <=> failed(rep) > 0
      /\ judge(pods) = "Passed" => pods[c].exit = 0
  BY <1>2 DEF judge
<1>7. total \in Nat /\ rep.failed \in Nat /\ Len(rep.checks) \in Nat
  <2>1. rep.passed \in Nat /\ rep.warned \in Nat /\ rep.failed \in Nat /\ rep.skipped \in Nat
    BY <1>2, <1>5 DEF parses, DoctorReport
  <2>2. rep.checks \in Seq(STRING)
    BY <1>5 DEF DoctorReport
  <2> HIDE DEF rep, c
  <2>3. total \in Nat
    BY <2>1
  <2>4. Len(rep.checks) \in Nat
    BY <2>2
  <2> HIDE DEF total
  <2> QED BY <2>1, <2>3, <2>4
<1>8. Listed(rep, "fail") \in Nat /\ (Listed(rep, "fail") > 0 <=> fails)
  BY <1>5, ListedSome
<1> HIDE DEF rep, c
<1>9. ASSUME total <= IntMax
      PROVE  failed(rep) > 0 <=> (rep.failed > 0 /\ total >= Len(rep.checks)) \/ fails
  <2>1. Wrap(total) = total
    <3> HIDE DEF total
    <3> QED BY <1>7, <1>9, WrapFits
  <2>2. failed(rep) = IF total < Len(rep.checks) \/ (rep.failed = 0 /\ Listed(rep, "fail") > 0)
                      THEN Listed(rep, "fail") ELSE rep.failed
    BY <2>1 DEF failed
  <2>3. CASE total < Len(rep.checks)
    <3>1. failed(rep) = Listed(rep, "fail")
      BY <2>2, <2>3
    <3> HIDE DEF total, fails
    <3> QED BY <1>7, <1>8, <2>3, <3>1
  <2>4. CASE ~(total < Len(rep.checks)) /\ rep.failed = 0
    <3>1. Listed(rep, "fail") > 0 => failed(rep) = Listed(rep, "fail")
      BY <2>2, <2>4
    <3>2. ~(Listed(rep, "fail") > 0) => failed(rep) = rep.failed
      BY <2>2, <2>4
    <3> HIDE DEF total, fails
    <3> QED BY <1>7, <1>8, <2>4, <3>1, <3>2
  <2>5. CASE ~(total < Len(rep.checks)) /\ rep.failed # 0
    <3>1. failed(rep) = rep.failed
      BY <2>2, <2>5
    <3>2. fails => Listed(rep, "fail") > 0
      BY <1>8
    <3> HIDE DEF total, fails
    <3>3. total >= Len(rep.checks) /\ rep.failed > 0
      BY <1>7, <2>5
    <3> QED BY <3>1, <3>3
  <2> QED BY <2>3, <2>4, <2>5
<1>10. total > IntMax \/ total <= IntMax
  BY <1>7, Counts
<1>11. SaysSo(pods)
  <2>1. pods[c].ended # 0
    BY <1>3 DEF HasEnded
  <2>2. \/ total > IntMax
        \/ (judge(pods) = "Failed") <=> (rep.failed > 0 /\ total >= Len(rep.checks)) \/ fails
    BY <1>6, <1>9, <1>10
  <2>3. total = Total(rep)
    BY DEF Total
  <2> QED BY <1>2, <1>3, <1>4, <1>6, <2>1, <2>2, <2>3 DEF SaysSo
<1> QED BY <1>5, <1>11 DEF rep

-----------------------------------------------------------------------------
\* The place of a check in the order of keepChecks: how many come before it.
Ahead(checks, i) == {j \in DOMAIN checks : Before(checks, j, i)}
Place(checks, i) == Cardinality(Ahead(checks, i))

\* Before orders the checks of a report.
LEMMA BeforeOrders ==
    ASSUME NEW checks \in Seq(STRING), NEW i \in DOMAIN checks, NEW j \in DOMAIN checks
    PROVE  /\ ~Before(checks, i, i)
           /\ Before(checks, i, j) => ~Before(checks, j, i)
           /\ i = j \/ Before(checks, i, j) \/ Before(checks, j, i)
           /\ \A k \in DOMAIN checks : Before(checks, i, j) /\ Before(checks, j, k) => Before(checks, i, k)
<1>1. DOMAIN checks \subseteq Nat
  OBVIOUS
<1>2. \A k \in DOMAIN checks : rank(checks[k]) \in Nat
  BY DEF rank
<1> QED BY <1>1, <1>2 DEF Before

\* A place is one of as many as there are checks.
LEMMA PlaceType ==
    ASSUME NEW checks \in Seq(STRING), NEW i \in DOMAIN checks
    PROVE  /\ IsFiniteSet(Ahead(checks, i)) /\ Ahead(checks, i) \subseteq DOMAIN checks
           /\ Place(checks, i) \in 0 .. Len(checks) - 1
<1>1. DOMAIN checks = 1 .. Len(checks) /\ Len(checks) \in Nat
  OBVIOUS
<1>2. IsFiniteSet(DOMAIN checks) /\ Cardinality(DOMAIN checks) = Len(checks)
  <2> DEFINE n == Len(checks)
  <2>1. n \in Int /\ 1 \in Int /\ n \in Nat /\ n - 1 + 1 = n
    BY <1>1
  <2> HIDE DEF n
  <2>2. IsFiniteSet(1 .. n) /\ Cardinality(1 .. n) = n
    <3>1. /\ IsFiniteSet(1 .. n)
          /\ Cardinality(1 .. n) = IF 1 > n THEN 0 ELSE n - 1 + 1
      BY <2>1, FS_Interval
    <3> QED BY <2>1, <3>1
  <2> QED BY <1>1, <2>2 DEF n
<1>3. Ahead(checks, i) \in SUBSET (DOMAIN checks) /\ i \notin Ahead(checks, i)
  BY BeforeOrders DEF Ahead
<1>4. /\ IsFiniteSet(Ahead(checks, i)) /\ Place(checks, i) <= Len(checks)
      /\ Place(checks, i) # Len(checks)
  <2>1. IsFiniteSet(Ahead(checks, i)) /\ Cardinality(Ahead(checks, i)) <= Cardinality(DOMAIN checks)
        /\ (Cardinality(DOMAIN checks) = Cardinality(Ahead(checks, i)) => DOMAIN checks = Ahead(checks, i))
    BY <1>2, <1>3, FS_Subset
  <2> QED BY <1>2, <1>3, <2>1 DEF Place
<1>5. Place(checks, i) \in Nat
  BY <1>4, FS_CardinalityType DEF Place
<1> QED BY <1>1, <1>3, <1>4, <1>5

\* A check that comes before another one has the smaller place.
LEMMA PlaceOrders ==
    ASSUME NEW checks \in Seq(STRING), NEW i \in DOMAIN checks, NEW j \in DOMAIN checks, Before(checks, i, j)
    PROVE  Place(checks, i) < Place(checks, j)
<1>1. Ahead(checks, i) \in SUBSET Ahead(checks, j)
  BY BeforeOrders DEF Ahead
<1>2. i \in Ahead(checks, j) /\ i \notin Ahead(checks, i)
  BY BeforeOrders DEF Ahead
<1>3. IsFiniteSet(Ahead(checks, j)) /\ Place(checks, i) \in Nat /\ Place(checks, j) \in Nat
  BY PlaceType
<1>4. /\ Place(checks, i) <= Place(checks, j)
      /\ Place(checks, j) = Place(checks, i) => Ahead(checks, j) = Ahead(checks, i)
  BY <1>1, <1>3, FS_Subset DEF Place
<1> QED BY <1>2, <1>3, <1>4

\* Each place is one check's.
LEMMA PlacesBijection ==
    ASSUME NEW checks \in Seq(STRING)
    PROVE  [i \in DOMAIN checks |-> Place(checks, i)] \in Bijection(DOMAIN checks, 0 .. Len(checks) - 1)
<1> DEFINE S == DOMAIN checks
           T == 0 .. Len(checks) - 1
           f == [i \in S |-> Place(checks, i)]
<1>1. S = 1 .. Len(checks) /\ Len(checks) \in Nat
  OBVIOUS
<1>2. IsFiniteSet(S) /\ IsFiniteSet(T) /\ Cardinality(S) = Cardinality(T)
  <2> DEFINE n == Len(checks)
  <2>1. n \in Int /\ 0 \in Int /\ 1 \in Int /\ n \in Nat /\ n - 1 \in Int
    BY <1>1
  <2> HIDE DEF n
  <2>2. /\ IsFiniteSet(1 .. n)
        /\ Cardinality(1 .. n) = IF 1 > n THEN 0 ELSE n - 1 + 1
    BY <2>1, FS_Interval
  <2>3. /\ IsFiniteSet(0 .. n - 1)
        /\ Cardinality(0 .. n - 1) = IF 0 > n - 1 THEN 0 ELSE n - 1 - 0 + 1
    BY <2>1, FS_Interval
  <2>4. Cardinality(0 .. n - 1) = Cardinality(1 .. n)
    BY <2>1, <2>2, <2>3
  <2> QED BY <1>1, <2>2, <2>3, <2>4 DEF n
<1>3. f \in [S -> T]
  BY PlaceType
<1>4. ASSUME NEW i \in S, NEW j \in S, f[i] = f[j] PROVE i = j
  <2>1. Place(checks, i) = Place(checks, j) /\ Place(checks, i) \in T
    BY <1>4, PlaceType
  <2> QED BY <2>1, BeforeOrders, PlaceOrders
<1> HIDE DEF f, S, T
<1>5. f \in Injection(S, T)
  BY <1>3, <1>4, Fun_IsInj
<1>6. f \in Surjection(S, T)
  BY <1>2, <1>5, FS_Injection
<1>7. f \in Bijection(S, T)
  BY <1>5, <1>6 DEF Bijection
<1> QED BY <1>7 DEF f, S, T

\* As many checks are kept as fit.
LEMMA KeptAreAsMany ==
    ASSUME NEW checks \in Seq(STRING)
    PROVE  Cardinality(keepChecks(checks)) = IF Len(checks) <= MaxChecks THEN Len(checks) ELSE MaxChecks
<1> DEFINE S == DOMAIN checks
           f == [i \in S |-> Place(checks, i)]
           kept == keepChecks(checks)
           n == IF Len(checks) <= MaxChecks THEN Len(checks) ELSE MaxChecks
           g == [i \in kept |-> Place(checks, i)]
<1>1. S = 1 .. Len(checks) /\ Len(checks) \in Nat /\ MaxChecks \in Nat /\ n \in Nat
  BY Counts
<1>2. f \in Bijection(S, 0 .. Len(checks) - 1)
  BY PlacesBijection
<1>3. kept = {i \in S : Place(checks, i) < MaxChecks}
  BY DEF keepChecks, Place, Ahead
<1>4. \A i \in S : Place(checks, i) \in 0 .. Len(checks) - 1 /\ f[i] = Place(checks, i)
  BY PlaceType
<1> HIDE DEF f, S, kept
<1>5. \A i \in kept : i \in S /\ g[i] = f[i] /\ g[i] \in 0 .. n - 1
  BY <1>1, <1>3, <1>4
<1>6. \A t \in 0 .. n - 1 : \E i \in kept : g[i] = t
  <2> SUFFICES ASSUME NEW t \in 0 .. n - 1 PROVE \E i \in kept : g[i] = t
    OBVIOUS
  <2>1. t \in 0 .. Len(checks) - 1 /\ t < MaxChecks
    BY <1>1
  <2>2. PICK i \in S : f[i] = t
    BY <1>2, <2>1 DEF Bijection, Surjection
  <2>3. i \in kept
    BY <1>3, <1>4, <2>1, <2>2
  <2> QED BY <1>5, <2>2, <2>3
<1>7. \A i, j \in kept : g[i] = g[j] => i = j
  <2>1. \A i, j \in S : f[i] = f[j] => i = j
    BY <1>2 DEF Bijection, Injection, IsInjective
  <2> HIDE DEF g
  <2> QED BY <1>5, <2>1
<1>8. g \in Bijection(kept, 0 .. n - 1)
  <2> HIDE DEF n
  <2>1. g \in [kept -> 0 .. n - 1]
    BY <1>5
  <2> HIDE DEF g
  <2>2. g \in Injection(kept, 0 .. n - 1)
    BY <2>1, <1>7, Fun_IsInj
  <2>3. g \in Surjection(kept, 0 .. n - 1)
    BY <2>1, <1>6, Fun_IsSurj
  <2> QED BY <2>2, <2>3 DEF Bijection
<1>9. IsFiniteSet(kept)
  <2>1. IsFiniteSet(S) /\ kept \in SUBSET S
    BY <1>1, <1>3, FS_Interval
  <2> QED BY <2>1, FS_Subset
<1>10. Cardinality(0 .. n - 1) = Cardinality(kept)
  <2> HIDE DEF g, n
  <2> QED BY <1>8, <1>9, FS_Bijection DEF ExistsBijection
<1>11. Cardinality(0 .. n - 1) = n
  <2> HIDE DEF n
  <2> QED BY <1>1, FS_Interval
<1> QED BY <1>10, <1>11 DEF kept

\* What is cut comes after all that is kept.
LEMMA CutComesAfter ==
    ASSUME NEW checks \in Seq(STRING), NEW k \in keepChecks(checks), NEW c \in DOMAIN checks \ keepChecks(checks)
    PROVE  rank(checks[k]) <= rank(checks[c])
<1>1. k \in DOMAIN checks /\ Place(checks, k) < MaxChecks /\ ~(Place(checks, c) < MaxChecks)
  BY DEF keepChecks, Place, Ahead
<1>2. Place(checks, k) \in Nat /\ Place(checks, c) \in Nat /\ MaxChecks \in Nat
  BY <1>1, PlaceType, Counts
<1>3. Before(checks, k, c)
  <2>1. k # c
    BY <1>1
  <2>2. CASE Before(checks, c, k)
    <3>1. Place(checks, c) < Place(checks, k)
      BY <1>1, <2>2, PlaceOrders
    <3> QED BY <1>1, <1>2, <3>1
  <2> QED BY <1>1, <2>1, <2>2, BeforeOrders
<1> QED BY <1>3 DEF Before, rank

\* What went wrong is cut only when more of it fills the list.
LEMMA NothingHidden ==
    ASSUME NEW checks \in Seq(STRING)
    PROVE  HidesNothing(checks)
<1>1. ASSUME NEW c \in DOMAIN checks \ keepChecks(checks), NEW k \in keepChecks(checks)
      PROVE  /\ checks[c] = "fail" => checks[k] = "fail"
             /\ checks[c] = "warn" => checks[k] \in {"fail", "warn"}
  <2>1. rank(checks[k]) <= rank(checks[c])
    BY CutComesAfter
  <2> QED BY <2>1 DEF rank
<1> QED BY <1>1, KeptAreAsMany DEF HidesNothing

\* Whatever pods a run leaves, the verdict is faithful.
LEMMA AllFaithful == Verdict \subseteq Faithful
<1> SUFFICES ASSUME NEW pods \in Outcome, judge(pods) # "Error"
             PROVE  SaysSo(pods) /\ HidesNothing(runOutcome(pods).checks)
  BY DEF Faithful
<1>1. SaysSo(pods) /\ runOutcome(pods) \in DoctorReport
  BY VerdictSays
<1>2. runOutcome(pods).checks \in Seq(STRING)
  BY <1>1 DEF DoctorReport
<1> QED BY <1>1, <1>2, NothingHidden

\* Every run that ends is judged as its report says, whatever pods it leaves and
\* however many checks they list: the pod whose check ended last is the one read,
\* its counts stand unless its list denies them, and the lines that are cut come
\* after every line that is kept (chooseRunPod, fillChecks, judge and keepChecks).
THEOREM ReportsAreFaithful == Spec => []ReportIsFaithful
<1>1. TypeOK => ReportIsFaithful
  BY AllFaithful DEF TypeOK, ReportIsFaithful
<1> QED BY <1>1, TypeCorrect, PTL

=============================================================================
