-------------------------------- MODULE Prune --------------------------------
(***************************************************************************)
(* What a pass applies and what it removes (prune.go, with the render's    *)
(* questions to the cluster in tls.go, the apply of zaentrum_controller.go *)
(* and the schedule of backup.go). A render left without an object has it  *)
(* removed, so the pass must be sure of its render: it asks the API server *)
(* one thing at a time, while the Zaentrum is edited, kinds come and go    *)
(* and others write the same objects.                                      *)
(*                                                                         *)
(* An object is one of the chart's, of a kind the prune may remove: plain  *)
(* Deployments, the bundled Postgres among them, a Route, the CronJob of   *)
(* the backups, the Certificate. Every cluster serves Deployments and      *)
(* CronJobs. Left out: what a render says of an object but the certificate *)
(* its Route carries, the kinds KeptKinds, objects nobody controls, and    *)
(* spec.tls not set at all.                                                *)
(***************************************************************************)
EXTENDS Naturals, Sequences

CONSTANTS
    Chart,          \* the chart's objects, in the order the pass applies them
    Postgres, Route, Cron, Certificate,     \* four of them
    PruneKinds,     \* the kinds, in the order the pass lists them
    Content,        \* what the certificate's Secret may hold, by what is said of it
    MaxEdits,       \* bound: what others do
    MaxFaults       \* bound: failed calls and crashes

Object == {Chart[i] : i \in DOMAIN Chart}
Optional == {Route, Certificate}        \* kinds of their own that a cluster may not serve

KindOf(o) == IF o \in Optional \union {Cron} THEN o ELSE "Deployment"
Kind == {PruneKinds[i] : i \in DOMAIN PruneKinds}

ASSUME Shape ==
    /\ Chart \in Seq(Object) /\ PruneKinds \in Seq(Kind)
    /\ \A i, j \in DOMAIN PruneKinds : PruneKinds[i] = PruneKinds[j] => i = j
    /\ {Postgres, Route, Cron, Certificate} \subseteq Object
    /\ Postgres \notin {Route, Cron, Certificate}
    /\ Kind = {KindOf(o) : o \in Object}
    /\ Content \subseteq {"BadCertificate", "WrongHost", "Expired", "Certificate"}

ASSUME Bounds == MaxEdits \in Nat /\ MaxFaults \in Nat

VARIABLES
    want,           \* the Zaentrum: the objects its spec asks the chart for
    object, inline, tls, served,    \* the cluster: the objects, what the Route carries,
                                    \* the certificate's Secret, the kinds it serves
    pruned, tlsSays,                \* the conditions Pruned and TLS
    unserved,       \* the operator's memory: kinds the cluster lately did not serve
    pc, pass,       \* the pass
    moved, remade,  \* since the pass began, what others changed; since it listed,
                    \* the objects that were made anew
    edits, faults

cluster == <<object, inline, tls, served>>
conditions == <<pruned, tlsSays>>
seen == <<moved, remade>>
vars == <<want, cluster, conditions, unserved, pc, pass, seen, edits, faults>>

-----------------------------------------------------------------------------
(* An object: who controls it, and whether it has the operator's label and *)
(* the annotation that keeps it.                                            *)

Live == [by : {"None", "Platform", "Other"}, labelled : BOOLEAN, kept : BOOLEAN]

Absent  == [by |-> "None", labelled |-> FALSE, kept |-> FALSE]
Earlier == [by |-> "Platform", labelled |-> FALSE, kept |-> FALSE]  \* before operators labelled
Applied == [by |-> "Platform", labelled |-> TRUE, kept |-> FALSE]

Secret == Content \union {"None"}
Pruned == {"None", "Failed", "Removed", "NothingToRemove"}
TLS == Content \union {"None", "NoCertManager", "Issuing", "SecretMissing"}

\* What the chart makes of a spec: a Certificate only where cert-manager is there
\* to issue, backups only of the bundled Postgres.
Rendered(w, issuing) ==
    {o \in w : (o = Certificate => issuing) /\ (o = Cron => Postgres \in w)}

\* The condition TLS, of what the pass knows (reportTLS).
ReportTLS(p) ==
    IF Certificate \in p.want /\ ~p.issuing THEN "NoCertManager"
    ELSE IF p.tls # "None" THEN p.tls
    ELSE IF Certificate \in p.want THEN "Issuing" ELSE "SecretMissing"

\* What a pass knows: the spec, whether cert-manager is there, the Secret, how
\* far it is, what it lists as stale, whether it removed anything or failed to.
NoPass == [want |-> {}, issuing |-> FALSE, tls |-> "None", next |-> 1, stale |-> {},
           removed |-> FALSE, failed |-> FALSE, schedule |-> FALSE]

Init ==
    /\ want \in SUBSET Object
    /\ \E was \in {Earlier, Applied} : object = [o \in Object |-> was]
    /\ inline = "None" /\ tls \in Secret /\ served \in SUBSET Optional
    /\ pruned = "None" /\ tlsSays = "None"
    /\ unserved = {}
    /\ pc = "idle" /\ pass = NoPass
    /\ moved = {} /\ remade = {}
    /\ edits = 0 /\ faults = 0

-----------------------------------------------------------------------------
(* The render: it waits for every answer it needs *)

Fault == faults < MaxFaults /\ faults' = faults + 1
Serves(k) == k \in Optional => k \in served
Carries == Rendered(pass.want, pass.issuing)
Go(p, step) == pass' = p /\ pc' = step

EndPass == Go(NoPass, "idle") /\ moved' = {} /\ remade' = {}

\* What ends the pass before its render writes no condition; nor does a crash.
GiveUp ==
    /\ EndPass
    /\ UNCHANGED <<want, cluster, conditions, unserved, edits>>

ReadZaentrum ==
    /\ pc = "idle"
    /\ Go([NoPass EXCEPT !.want = want], "ask")
    /\ UNCHANGED <<want, cluster, conditions, unserved, seen, edits, faults>>

\* Is cert-manager there? A lookup that fails is no answer.
AskCertManagerOrGuess ==
    /\ pc = "ask" /\ Certificate \in pass.want
    /\ \/ Go([pass EXCEPT !.issuing = Certificate \in served], "read") /\ UNCHANGED faults
       \/ Go([pass EXCEPT !.issuing = FALSE], "read") /\ Fault
    /\ UNCHANGED <<want, cluster, conditions, unserved, seen, edits>>

AskCertManager ==
    /\ pc = "ask" /\ Certificate \in pass.want
    /\ Go([pass EXCEPT !.issuing = Certificate \in served], "read")
    /\ UNCHANGED <<want, cluster, conditions, unserved, seen, edits, faults>>

NoIssuer ==
    /\ pc = "ask" /\ Certificate \notin pass.want
    /\ Go(pass, "read")
    /\ UNCHANGED <<want, cluster, conditions, unserved, seen, edits, faults>>

\* The certificate's Secret: absent is an answer, a failed read is not.
ReadCertificateOrNone ==
    /\ pc = "read"
    /\ \/ Go([pass EXCEPT !.tls = tls], "apply") /\ UNCHANGED faults
       \/ Go([pass EXCEPT !.tls = "None"], "apply") /\ Fault
    /\ UNCHANGED <<want, cluster, conditions, unserved, seen, edits>>

ReadCertificate ==
    /\ pc = "read"
    /\ Go([pass EXCEPT !.tls = tls], "apply")
    /\ UNCHANGED <<want, cluster, conditions, unserved, seen, edits, faults>>

AnswerFails == pc \in {"ask", "read"} /\ GiveUp /\ Fault

-----------------------------------------------------------------------------
(* The apply: one object after the other, by force. What another controls  *)
(* the API server refuses, and what it does not serve; either ends the     *)
(* pass before it removes anything.                                         *)

NextObject == Chart[pass.next]

Applies(o) == object[o].by # "Other" /\ Serves(KindOf(o))

ApplyObject ==
    /\ pc = "apply" /\ pass.next <= Len(Chart)
    /\ NextObject \in Carries /\ Applies(NextObject)
    /\ object' = [object EXCEPT ![NextObject].by = "Platform", ![NextObject].labelled = TRUE]
    /\ inline' = IF NextObject = Route THEN pass.tls ELSE inline
    /\ Go([pass EXCEPT !.next = @ + 1], pc)
    /\ UNCHANGED <<want, tls, served, conditions, unserved, seen, edits, faults>>

NotRendered ==
    /\ pc = "apply" /\ pass.next <= Len(Chart) /\ NextObject \notin Carries
    /\ Go([pass EXCEPT !.next = @ + 1], pc)
    /\ UNCHANGED <<want, cluster, conditions, unserved, seen, edits, faults>>

ApplyRefused ==
    /\ pc = "apply" /\ pass.next <= Len(Chart)
    /\ NextObject \in Carries /\ ~Applies(NextObject)
    /\ GiveUp /\ UNCHANGED faults

AllApplied ==
    /\ pc = "apply" /\ pass.next > Len(Chart)
    /\ Go([pass EXCEPT !.next = 1], "list")
    /\ UNCHANGED <<want, cluster, conditions, unserved, seen, edits, faults>>

-----------------------------------------------------------------------------
(* The prune *)

NextKind == PruneKinds[pass.next]
RendersKind(k) == \E o \in Carries : KindOf(o) = k

\* stale: labelled for this Zaentrum and controlled by it, not kept, not the
\* Postgres whose data may be in its pod, not rendered. That an object is not on
\* its way out goes without saying: a deleted object is gone at once here.
Stale(o) ==
    /\ object[o].labelled /\ object[o].by = "Platform"
    /\ ~object[o].kept /\ o # Postgres
    /\ o \notin Carries

\* A kind the render lacks and the cluster lately did not serve is not asked about.
Skipped(k) == ~RendersKind(k) /\ k \in unserved

ListKind ==
    /\ pc = "list" /\ pass.next <= Len(PruneKinds) /\ ~Skipped(NextKind) /\ Serves(NextKind)
    /\ unserved' = unserved \ {NextKind}
    /\ Go([pass EXCEPT !.next = @ + 1,
                       !.stale = @ \union {o \in Object : KindOf(o) = NextKind /\ Stale(o)}], pc)
    /\ remade' = {o \in remade : KindOf(o) # NextKind}
    /\ UNCHANGED <<want, cluster, conditions, moved, edits, faults>>

NotServed ==
    /\ pc = "list" /\ pass.next <= Len(PruneKinds) /\ ~Skipped(NextKind) /\ ~Serves(NextKind)
    /\ unserved' = unserved \union {NextKind}
    /\ Go([pass EXCEPT !.next = @ + 1], pc)
    /\ UNCHANGED <<want, cluster, conditions, seen, edits, faults>>

SkipKind ==
    /\ pc = "list" /\ pass.next <= Len(PruneKinds) /\ Skipped(NextKind)
    /\ Go([pass EXCEPT !.next = @ + 1], pc)
    /\ UNCHANGED <<want, cluster, conditions, unserved, seen, edits, faults>>

ListFails ==
    /\ pc = "list" /\ pass.next <= Len(PruneKinds) /\ ~Skipped(NextKind)
    /\ Go([pass EXCEPT !.next = @ + 1, !.failed = TRUE], pc)
    /\ Fault
    /\ UNCHANGED <<want, cluster, conditions, unserved, seen, edits>>

AllListed ==
    /\ pc = "list" /\ pass.next > Len(PruneKinds)
    /\ Go(pass, "remove")
    /\ UNCHANGED <<want, cluster, conditions, unserved, seen, edits, faults>>

\* o goes - and where cert-manager owns the Secret of its Certificate, that too.
Gone(o) ==
    /\ object' = [object EXCEPT ![o] = Absent]
    /\ inline' = IF o = Route THEN "None" ELSE inline
    /\ tls' \in IF o = Certificate THEN {tls, "None"} ELSE {tls}
    /\ UNCHANGED served

\* The delete has the UID that was listed for a precondition.
ConflictsNever(o) == FALSE

Conflicts(o) == object[o] # Absent /\ o \in remade

Remove(o) ==
    /\ pc = "remove" /\ o \in pass.stale
    /\ IF object[o] = Absent \/ Conflicts(o) THEN
          /\ UNCHANGED cluster
          /\ Go([pass EXCEPT !.stale = @ \ {o}, !.failed = @ \/ Conflicts(o)], pc)
       ELSE Gone(o) /\ Go([pass EXCEPT !.stale = @ \ {o}, !.removed = TRUE], pc)
    /\ UNCHANGED <<want, conditions, unserved, seen, edits, faults>>

RemoveFails(o) ==
    /\ pc = "remove" /\ o \in pass.stale
    /\ UNCHANGED cluster \/ (object[o] # Absent /\ ~Conflicts(o) /\ Gone(o))
    /\ Go([pass EXCEPT !.stale = @ \ {o}, !.failed = TRUE], pc)
    /\ Fault
    /\ UNCHANGED <<want, conditions, unserved, seen, edits>>

\* The condition Pruned; the last removal stays named until there is another.
Conclusion ==
    IF pass.failed THEN "Failed"
    ELSE IF pass.removed THEN "Removed"
    ELSE IF pruned = "Removed" THEN pruned ELSE "NothingToRemove"

Removed ==
    /\ pc = "remove" /\ pass.stale = {}
    /\ Go(pass, "schedule")
    /\ UNCHANGED <<want, cluster, conditions, unserved, seen, edits, faults>>

-----------------------------------------------------------------------------
(* The schedule of backups turned off goes with no label to its name, and   *)
(* is read and removed by its name alone (removeBackupSchedule).            *)

TurnedOff == Postgres \in pass.want /\ Cron \notin Carries

ReadSchedule ==
    /\ pc = "schedule"
    /\ \/ Go([pass EXCEPT !.schedule = TurnedOff /\ object[Cron].by = "Platform"], "report")
          /\ UNCHANGED faults
       \/ Go(pass, "report") /\ Fault
    /\ UNCHANGED <<want, cluster, conditions, unserved, seen, edits>>

RemoveSchedule ==
    /\ pc = "report" /\ pass.schedule
    /\ \/ Gone(Cron) /\ UNCHANGED faults
       \/ UNCHANGED cluster /\ Fault
    /\ Go([pass EXCEPT !.schedule = FALSE], pc)
    /\ UNCHANGED <<want, conditions, unserved, seen, edits>>

\* The conditions are written at the end, unless the Zaentrum was written since.
WriteStatus ==
    /\ pc = "report" /\ ~pass.schedule
    /\ IF "spec" \in moved THEN UNCHANGED conditions
       ELSE pruned' = Conclusion /\ tlsSays' = ReportTLS(pass)
    /\ EndPass
    /\ UNCHANGED <<want, cluster, unserved, edits, faults>>

\* A call of the rest of the pass fails, or the operator stops.
AbandonPass == pc # "idle" /\ GiveUp /\ Fault

Restart ==
    /\ unserved' = {} /\ EndPass /\ Fault
    /\ UNCHANGED <<want, cluster, conditions, edits>>

\* The defect of a memory that is never asked again.
RecheckNever == FALSE

\* unservedRecheck has passed.
Recheck ==
    /\ unserved # {}
    /\ unserved' = {}
    /\ UNCHANGED <<want, cluster, conditions, pc, pass, seen, edits, faults>>

Pass ==
    \/ ReadZaentrum
    \/ AskCertManager \/ NoIssuer \/ ReadCertificate
    \/ ApplyObject \/ NotRendered \/ ApplyRefused \/ AllApplied
    \/ ListKind \/ NotServed \/ SkipKind \/ AllListed
    \/ \E o \in Object : Remove(o)
    \/ Removed \/ ReadSchedule \/ RemoveSchedule \/ WriteStatus

Faults ==
    \/ AnswerFails \/ ListFails \/ AbandonPass \/ Restart
    \/ \E o \in Object : RemoveFails(o)

-----------------------------------------------------------------------------
(* Around the pass: people, Helm, cert-manager, the cluster's APIs *)

Edit(what) ==
    /\ edits < MaxEdits /\ edits' = edits + 1
    /\ moved' = IF pc = "idle" THEN moved ELSE moved \union what
    /\ UNCHANGED <<conditions, unserved, pc, pass, faults>>

EditZaentrum(o) ==
    /\ want' = IF o \in want THEN want \ {o} ELSE want \union {o}
    /\ Edit({"spec"}) /\ UNCHANGED <<cluster, remade>>

\* An API comes or goes; its objects may outlive the time it is not served.
ServeKind(k) ==
    /\ k \notin served /\ served' = served \union {k}
    /\ Edit({"kinds"}) /\ UNCHANGED <<want, object, inline, tls, remade>>

UnserveKind(k) ==
    /\ k \in served /\ served' = served \ {k}
    /\ object' \in {object, [object EXCEPT ![k] = Absent]}
    /\ inline' = IF k = Route /\ object'[k] = Absent THEN "None" ELSE inline
    /\ Edit({"kinds"}) /\ UNCHANGED <<want, tls, remade>>

\* Another controller takes an object over, a person marks it to be kept.
TakeOver(o) ==
    /\ object[o].by = "Platform" /\ object' = [object EXCEPT ![o].by = "Other"]
    /\ Edit({"objects"}) /\ UNCHANGED <<want, inline, tls, served, remade>>

Keep(o) ==
    /\ object[o] # Absent /\ ~object[o].kept /\ object' = [object EXCEPT ![o].kept = TRUE]
    /\ Edit({"objects"}) /\ UNCHANGED <<want, inline, tls, served, remade>>

\* Someone deletes an object and makes another of its name.
Remake(o) ==
    /\ Serves(KindOf(o))
    /\ \E l \in BOOLEAN :
          object' = [object EXCEPT ![o] = [by |-> "Other", labelled |-> l, kept |-> FALSE]]
    /\ inline' = IF o = Route THEN "None" ELSE inline
    /\ remade' = remade \union {o}
    /\ Edit({}) /\ UNCHANGED <<want, tls, served>>

Delete(o) ==
    /\ object[o] # Absent /\ object' = [object EXCEPT ![o] = Absent]
    /\ inline' = IF o = Route THEN "None" ELSE inline
    /\ Edit({}) /\ UNCHANGED <<want, tls, served, remade>>

\* The certificate's Secret: a person or cert-manager writes it, it expires, it goes.
SetSecret(s) ==
    /\ s # tls /\ tls' = s
    /\ Edit({"secret"}) /\ UNCHANGED <<want, object, inline, served, remade>>

Environment ==
    \/ \E o \in Object : EditZaentrum(o) \/ TakeOver(o) \/ Keep(o) \/ Remake(o) \/ Delete(o)
    \/ \E k \in Optional : ServeKind(k) \/ UnserveKind(k)
    \/ \E s \in Secret : SetSecret(s)

Next == Pass \/ Recheck \/ Faults \/ Environment

Spec == Init /\ [][Next]_vars

\* The work queue runs a pass again and again, whatever ended the last one, and
\* time passes.
FairSpec == Spec /\ WF_vars(Pass) /\ WF_vars(Recheck)

-----------------------------------------------------------------------------
(* Properties *)

\* Every variable has its type.
TypeOK ==
    /\ want \subseteq Object /\ object \in [Object -> Live]
    /\ inline \in Secret /\ tls \in Secret /\ served \subseteq Optional
    /\ pruned \in Pruned /\ tlsSays \in TLS
    /\ unserved \subseteq Kind
    /\ pc \in {"idle", "ask", "read", "apply", "list", "remove", "schedule", "report"}
    /\ pass \in [want : SUBSET Object, issuing : BOOLEAN, tls : Secret,
                 next : Nat \ {0}, stale : SUBSET Object,
                 removed : BOOLEAN, failed : BOOLEAN, schedule : BOOLEAN]
    /\ moved \subseteq {"spec", "kinds", "secret", "objects"} /\ remade \subseteq Object
    /\ edits \in Nat /\ faults \in Nat

\* The operator's own steps.
Operator == edits' = edits

Goes(o) == object[o] # Absent /\ object'[o] = Absent

\* "nothing without it ever is" (templates.go:39): what the operator removes is
\* labelled, its own and not marked to be kept - unless another took an object
\* over or marked it during that pass - and is still the object that was listed.
\* The bundled Postgres never goes. Only the schedule of backups turned off is
\* removed by its name.
RemovesItsOwn ==
    [][Operator =>
          \A o \in Object : Goes(o) =>
             /\ o # Postgres
             /\ \/ o \notin remade /\ (object[o] = Applied \/ "objects" \in moved)
                \/ o = Cron /\ pc = "report"]_vars

\* "a render without the platform's Certificate would have it removed ... the
\* certificate with it" (tls.go:44): unless the Zaentrum or what the cluster serves
\* changed during the pass, nothing goes that the spec asks of this cluster.
RemovesNothingAskedFor ==
    [][Operator /\ moved \intersect {"spec", "kinds"} = {} =>
          \A o \in Object : Goes(o) => o \notin Rendered(want, Certificate \in served)]_vars

\* "rather than strip the Routes of the certificate they have" (zaentrum_controller.go):
\* a pass leaves a Route without a certificate only if there was none in the
\* Secret at some time in that pass.
RoutesKeepCertificate ==
    [][Operator /\ object'[Route] # Absent /\ inline # "None" /\ inline' = "None" =>
          tls = "None" \/ "secret" \in moved]_vars

\* Something a pass must apply it cannot: another's object, an API that is not there.
Blocked == \E o \in Rendered(want, Certificate \in served) : ~Applies(o)

\* Once nobody else changes anything, and nothing the Zaentrum asks for is out
\* of the operator's hands, all of it is there and the operator's, nothing it
\* applied before is left, the Route has the Secret's certificate, and the
\* conditions say so - also of a kind the cluster did not serve for a while.
Settled ==
    LET asked == Rendered(want, Certificate \in served) IN
    /\ \A o \in asked : object[o].by = "Platform" /\ object[o].labelled
    /\ \A o \in Object \ asked :
          \/ object[o].by # "Platform" \/ ~object[o].labelled \/ object[o].kept
          \/ o = Postgres \/ ~Serves(KindOf(o))
    /\ Route \in asked => inline = tls
    /\ pruned \in {"Removed", "NothingToRemove"}
    /\ tlsSays = ReportTLS([want |-> want, issuing |-> Certificate \in want /\ Certificate \in served,
                           tls |-> tls])

PruneSettles == <>[](Blocked \/ Settled)

=============================================================================
