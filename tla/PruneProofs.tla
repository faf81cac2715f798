----------------------------- MODULE PruneProofs -----------------------------
(***************************************************************************)
(* What Prune promises for every chart, every list of kinds and every      *)
(* bound: types, and what a pass never removes and never strips.           *)
(***************************************************************************)
EXTENDS Prune, TLAPS

PassType == [want : SUBSET Object, issuing : BOOLEAN, tls : Secret,
             next : Nat \ {0}, stale : SUBSET Object,
             removed : BOOLEAN, failed : BOOLEAN, schedule : BOOLEAN]

Step == {"idle", "ask", "read", "apply", "list", "remove", "schedule", "report"}

LEMMA NoPassType == NoPass \in PassType
BY DEF NoPass, PassType, Secret

\* The faults and edits that are counted stay numbers.
LEMMA CountType == TypeOK => (Fault => faults' \in Nat) /\ (\A w : Edit(w) => edits' \in Nat)
<1> SUFFICES ASSUME TypeOK PROVE (Fault => faults' \in Nat) /\ (\A w : Edit(w) => edits' \in Nat)
  OBVIOUS
<1>1. faults \in Nat /\ edits \in Nat
  BY DEF TypeOK
<1> QED BY <1>1 DEF Fault, Edit

LEMMA FourObjects == {Postgres, Route, Cron, Certificate} \subseteq Object
BY Shape

LEMMA LiveType ==
    /\ Absent \in Live /\ Earlier \in Live /\ Applied \in Live
    /\ \A l \in BOOLEAN : [by |-> "Other", labelled |-> l, kept |-> FALSE] \in Live
BY DEF Absent, Earlier, Applied, Live

\* What the pass has at hand is one of the chart's, or of the kinds'.
LEMMA AtHand ==
    ASSUME pass.next \in Nat \ {0}
    PROVE  /\ pass.next <= Len(Chart) => NextObject \in Object
           /\ pass.next <= Len(PruneKinds) => NextKind \in Kind
<1>1. DOMAIN Chart = 1 .. Len(Chart) /\ DOMAIN PruneKinds = 1 .. Len(PruneKinds)
      /\ Len(Chart) \in Nat /\ Len(PruneKinds) \in Nat
  BY Shape
<1> QED BY <1>1 DEF NextObject, NextKind, Object, Kind

LEMMA GoneType ==
    ASSUME TypeOK, NEW o \in Object, Gone(o)
    PROVE  object' \in [Object -> Live] /\ inline' \in Secret /\ tls' \in Secret /\ served' = served
<1>1. object' \in [Object -> Live] /\ served' = served
  BY LiveType DEF Gone, TypeOK
<1>2. inline' \in Secret /\ tls' \in Secret
  BY DEF Gone, TypeOK, Secret
<1> QED BY <1>1, <1>2

\* A step of the pass that leaves the cluster's and the conditions' types.
LEMMA PassStepType ==
    ASSUME TypeOK, NEW p \in PassType, NEW step \in Step, Go(p, step), UNCHANGED <<want, edits>>,
           object' \in [Object -> Live], inline' \in Secret, tls' \in Secret, served' = served,
           pruned' \in Pruned, tlsSays' \in TLS, unserved' \subseteq Kind,
           moved' \subseteq moved, remade' \subseteq remade, faults' \in Nat
    PROVE  TypeOK'
BY DEF TypeOK, Go, PassType, Step

\* Prune keeps its types.
LEMMA TypeStep == TypeOK /\ [Next]_vars => TypeOK'
<1> SUFFICES ASSUME TypeOK, [Next]_vars PROVE TypeOK'
  OBVIOUS
<1>0. /\ pass \in PassType /\ pass.next + 1 \in Nat \ {0}
      /\ object \in [Object -> Live] /\ inline \in Secret /\ tls \in Secret
      /\ pruned \in Pruned /\ tlsSays \in TLS /\ unserved \subseteq Kind /\ faults \in Nat
  BY DEF TypeOK, PassType
<1>1. ASSUME NEW p \in PassType, NEW step \in Step, Go(p, step), UNCHANGED <<want, edits>>,
             UNCHANGED <<cluster, conditions>>, unserved' \subseteq Kind,
             moved' \subseteq moved, remade' \subseteq remade, faults' \in Nat
      PROVE  TypeOK'
  BY <1>0, <1>1, PassStepType DEF cluster, conditions
<1>2. ASSUME GiveUp, faults' \in Nat PROVE TypeOK'
  BY <1>0, <1>1, <1>2, NoPassType DEF GiveUp, EndPass, Step
<1>3. CASE ReadZaentrum
  <2>1. [NoPass EXCEPT !.want = want] \in PassType
    BY NoPassType DEF PassType, TypeOK
  <2> QED BY <1>0, <1>1, <1>3, <2>1 DEF ReadZaentrum, seen, Step
<1>4. CASE AskCertManager
  <2> DEFINE there == Certificate \in served
  <2> HIDE DEF there
  <2>1. [pass EXCEPT !.issuing = there] \in PassType
    <3>1. there \in BOOLEAN
      BY DEF there
    <3> QED BY <1>0, <3>1 DEF PassType
  <2> QED BY <1>0, <1>1, <1>4, <2>1 DEF AskCertManager, seen, Step, there
<1>5. CASE ReadCertificate
  <2>1. [pass EXCEPT !.tls = tls] \in PassType
    BY <1>0 DEF PassType
  <2> QED BY <1>0, <1>1, <1>5, <2>1 DEF ReadCertificate, seen, Step
<1>6. CASE ApplyObject
  <2>1. [pass EXCEPT !.next = @ + 1] \in PassType
    BY <1>0 DEF PassType
  <2>2. NextObject \in Object /\ object[NextObject] \in Live
    BY <1>0, <1>6, AtHand DEF ApplyObject, PassType
  <2>3. object' \in [Object -> Live]
    <3>1. [object[NextObject] EXCEPT !.by = "Platform", !.labelled = TRUE] \in Live
      BY <2>2 DEF Live
    <3>2. object' = [object EXCEPT ![NextObject] =
                        [object[NextObject] EXCEPT !.by = "Platform", !.labelled = TRUE]]
      BY <1>0, <1>6, <2>2 DEF ApplyObject, Live
    <3> QED BY <1>0, <3>1, <3>2
  <2>4. inline' \in Secret
    BY <1>0, <1>6 DEF ApplyObject, PassType
  <2> QED BY <1>0, <1>6, <2>1, <2>3, <2>4, PassStepType DEF ApplyObject, conditions, seen, Step
<1>7. CASE NoIssuer \/ AllListed \/ Removed
  BY <1>0, <1>1, <1>7 DEF NoIssuer, AllListed, Removed, seen, Step
<1>8. CASE NotRendered \/ SkipKind \/ NotServed
  <2>1. [pass EXCEPT !.next = @ + 1] \in PassType
    BY <1>0 DEF PassType
  <2>2. unserved' \subseteq Kind
    BY <1>0, <1>8, AtHand DEF NotRendered, SkipKind, NotServed, PassType
  <2> QED BY <1>0, <1>1, <1>8, <2>1, <2>2 DEF NotRendered, SkipKind, NotServed, seen, Step
<1>9. CASE AllApplied
  <2>1. [pass EXCEPT !.next = 1] \in PassType
    BY <1>0 DEF PassType
  <2> QED BY <1>0, <1>1, <1>9, <2>1 DEF AllApplied, seen, Step
<1>10. CASE ListKind
  <2>1. [pass EXCEPT !.next = @ + 1,
                     !.stale = @ \union {o \in Object : KindOf(o) = NextKind /\ Stale(o)}] \in PassType
    BY <1>0 DEF PassType
  <2>2. unserved' \subseteq Kind /\ remade' \subseteq remade
    BY <1>0, <1>10 DEF ListKind
  <2> QED BY <1>0, <1>1, <1>10, <2>1, <2>2 DEF ListKind, Step
<1>11. CASE ListFails
  <2>1. [pass EXCEPT !.next = @ + 1, !.failed = TRUE] \in PassType
    BY <1>0 DEF PassType
  <2> QED BY <1>0, <1>1, <1>11, <2>1, CountType DEF ListFails, seen, Step
<1>12. ASSUME NEW o \in Object, Remove(o) PROVE TypeOK'
  <2>1. CASE object[o] = Absent \/ Conflicts(o)
    <3>1. Conflicts(o) \in BOOLEAN
      BY DEF Conflicts
    <3>2. [pass EXCEPT !.stale = @ \ {o}, !.failed = @ \/ Conflicts(o)] \in PassType
      BY <1>0, <3>1 DEF PassType
    <3> QED BY <1>0, <1>1, <1>12, <2>1, <3>2 DEF Remove, seen, Step
  <2>2. CASE ~(object[o] = Absent \/ Conflicts(o))
    <3>1. [pass EXCEPT !.stale = @ \ {o}, !.removed = TRUE] \in PassType
      BY <1>0 DEF PassType
    <3>2. Gone(o)
      BY <1>12, <2>2 DEF Remove
    <3> QED BY <1>0, <1>12, <2>2, <3>1, <3>2, GoneType, PassStepType DEF Remove, conditions, seen, Step
  <2> QED BY <2>1, <2>2
<1>13. ASSUME NEW o \in Object, RemoveFails(o) PROVE TypeOK'
  <2>1. [pass EXCEPT !.stale = @ \ {o}, !.failed = TRUE] \in PassType
    BY <1>0 DEF PassType
  <2>2. CASE UNCHANGED cluster
    BY <1>0, <1>1, <1>13, <2>1, <2>2, CountType DEF RemoveFails, seen, Step
  <2>3. CASE Gone(o)
    BY <1>0, <1>13, <2>1, <2>3, CountType, GoneType, PassStepType DEF RemoveFails, conditions, seen, Step
  <2> QED BY <1>13, <2>2, <2>3 DEF RemoveFails
<1>14. CASE ReadSchedule
  <2>1. [pass EXCEPT !.schedule = TurnedOff /\ object[Cron].by = "Platform"] \in PassType
    BY <1>0 DEF PassType
  <2>2. faults' \in Nat
    BY <1>0, <1>14, CountType DEF ReadSchedule
  <2> QED BY <1>0, <1>1, <1>14, <2>1, <2>2 DEF ReadSchedule, seen, Step
<1>15. CASE RemoveSchedule
  <2>1. [pass EXCEPT !.schedule = FALSE] \in PassType
    BY <1>0 DEF PassType
  <2>2. faults' \in Nat
    BY <1>0, <1>15, CountType DEF RemoveSchedule
  <2>3. CASE UNCHANGED cluster
    BY <1>0, <1>1, <1>15, <2>1, <2>2, <2>3 DEF RemoveSchedule, seen, Step
  <2>4. CASE Gone(Cron)
    BY <1>0, <1>15, <2>1, <2>2, <2>4, FourObjects, GoneType, PassStepType
       DEF RemoveSchedule, conditions, seen, Step
  <2> QED BY <1>15, <2>3, <2>4 DEF RemoveSchedule
<1>16. CASE WriteStatus
  <2>1. Conclusion \in Pruned /\ ReportTLS(pass) \in TLS
    BY <1>0 DEF Conclusion, Pruned, ReportTLS, TLS, PassType, Secret
  <2>2. pruned' \in Pruned /\ tlsSays' \in TLS
    BY <1>0, <1>16, <2>1 DEF WriteStatus, conditions
  <2> QED BY <1>0, <1>16, <2>2, NoPassType, PassStepType DEF WriteStatus, EndPass, cluster, Step
<1>17. CASE ApplyRefused \/ AnswerFails \/ AbandonPass
  BY <1>0, <1>2, <1>17, CountType DEF ApplyRefused, AnswerFails, AbandonPass
<1>18. CASE Restart
  BY <1>0, <1>1, <1>18, CountType, NoPassType DEF Restart, EndPass, Step
<1>19. CASE Recheck
  BY <1>19 DEF Recheck, TypeOK, cluster, conditions, seen
<1>20. ASSUME NEW w \in SUBSET {"spec", "kinds", "secret", "objects"}, Edit(w),
              want' \subseteq Object, object' \in [Object -> Live], inline' \in Secret,
              tls' \in Secret, served' \subseteq Optional, remade' \subseteq Object
       PROVE  TypeOK'
  <2>1. edits' \in Nat
    BY <1>20, CountType
  <2> QED BY <1>20, <2>1 DEF Edit, TypeOK, conditions
<1>21. CASE Environment
  <2>1. ASSUME NEW o \in Object, EditZaentrum(o) PROVE TypeOK'
    BY <1>0, <1>20, <2>1 DEF EditZaentrum, cluster, TypeOK
  <2>2. ASSUME NEW o \in Object, TakeOver(o) PROVE TypeOK'
    <3>1. object' \in [Object -> Live]
      BY <1>0, <2>2 DEF TakeOver, Live
    <3> QED BY <1>0, <1>20, <2>2, <3>1 DEF TakeOver, TypeOK
  <2>3. ASSUME NEW o \in Object, Keep(o) PROVE TypeOK'
    <3>1. object' \in [Object -> Live]
      BY <1>0, <2>3 DEF Keep, Live
    <3> QED BY <1>0, <1>20, <2>3, <3>1 DEF Keep, TypeOK
  <2>4. ASSUME NEW o \in Object, Remake(o) PROVE TypeOK'
    <3>1. object' \in [Object -> Live] /\ inline' \in Secret
      BY <1>0, <2>4, LiveType DEF Remake, Secret
    <3> QED BY <1>0, <1>20, <2>4, <3>1 DEF Remake, TypeOK
  <2>5. ASSUME NEW o \in Object, Delete(o) PROVE TypeOK'
    <3>1. object' \in [Object -> Live] /\ inline' \in Secret
      BY <1>0, <2>5, LiveType DEF Delete, Secret
    <3> QED BY <1>0, <1>20, <2>5, <3>1 DEF Delete, TypeOK
  <2>6. ASSUME NEW k \in Optional, ServeKind(k) \/ UnserveKind(k) PROVE TypeOK'
    <3>1. object' \in [Object -> Live] /\ inline' \in Secret
      BY <1>0, <2>6, LiveType DEF ServeKind, UnserveKind, Secret
    <3>2. served' \subseteq Optional
      BY <2>6 DEF ServeKind, UnserveKind, TypeOK
    <3> QED BY <1>0, <1>20, <2>6, <3>1, <3>2 DEF ServeKind, UnserveKind, TypeOK
  <2>7. ASSUME NEW s \in Secret, SetSecret(s) PROVE TypeOK'
    BY <1>0, <1>20, <2>7 DEF SetSecret, TypeOK
  <2> QED BY <1>21, <2>1, <2>2, <2>3, <2>4, <2>5, <2>6, <2>7 DEF Environment
<1>22. CASE UNCHANGED vars
  BY <1>22 DEF vars, cluster, conditions, seen, TypeOK
<1> QED BY <1>3, <1>4, <1>5, <1>6, <1>7, <1>8, <1>9, <1>10, <1>11, <1>12, <1>13, <1>14, <1>15,
           <1>16, <1>17, <1>18, <1>19, <1>21, <1>22 DEF Next, Pass, Faults

LEMMA TypeInit == Init => TypeOK
<1> SUFFICES ASSUME Init PROVE TypeOK
  OBVIOUS
<1>1. object \in [Object -> Live]
  BY LiveType DEF Init
<1> QED BY <1>1, NoPassType DEF Init, TypeOK, PassType, Secret, Pruned, TLS

\* Every reachable state is well typed.
THEOREM TypeCorrect == Spec => []TypeOK
BY TypeInit, TypeStep, PTL DEF Spec

-----------------------------------------------------------------------------
\* The steps of a pass before it lists, and what it knows of the Zaentrum and of
\* cert-manager while nobody changed them.
Before == {"idle", "ask", "read", "apply"}

Knows ==
    /\ pc # "idle" /\ "spec" \notin moved => pass.want = want
    /\ pc \notin {"idle", "ask"} /\ "kinds" \notin moved /\ Certificate \in pass.want =>
          pass.issuing = (Certificate \in served)
    /\ pc = "apply" => pass.tls = tls \/ "secret" \in moved

\* A stale object is of a kind that was listed, is not rendered, and is still what
\* it was, is gone, or was changed by another.
Sound(o) ==
    /\ o # Postgres /\ o \notin Carries
    /\ pc = "list" => \E i \in DOMAIN PruneKinds : i < pass.next /\ PruneKinds[i] = KindOf(o)
    /\ o \in remade \/ object[o] \in {Applied, Absent} \/ "objects" \in moved

Listed ==
    /\ pc \in Before => pass.stale = {}
    /\ \A o \in pass.stale : Sound(o)
    /\ pass.schedule => pc = "report" /\ Cron \notin Carries

LEMMA KnowsInit == Init => Knows /\ Listed
BY DEF Init, Knows, Listed, NoPass

LEMMA KnowsStep == TypeOK /\ Knows /\ [Next]_vars => Knows'
<1> SUFFICES ASSUME TypeOK, Knows, [Next]_vars PROVE Knows'
  OBVIOUS
<1>0. pass \in PassType
  BY DEF TypeOK, PassType
<1>1. CASE ReadZaentrum
  BY <1>1 DEF ReadZaentrum, Go, NoPass, Knows
<1>2. CASE AskCertManager
  BY <1>0, <1>2 DEF AskCertManager, Go, PassType, Knows, cluster, seen
<1>3. CASE NoIssuer
  BY <1>3 DEF NoIssuer, Go, Knows, cluster, seen
<1>4. CASE ReadCertificate
  BY <1>0, <1>4 DEF ReadCertificate, Go, PassType, Knows, cluster, seen
<1>5. CASE ApplyObject \/ NotRendered
  BY <1>0, <1>5 DEF ApplyObject, NotRendered, Go, PassType, Knows, cluster, seen
<1>6. ASSUME UNCHANGED <<want, served, moved, pc>>, pc \notin {"idle", "ask", "apply"},
             pass'.want = pass.want, pass'.issuing = pass.issuing
      PROVE  Knows'
  BY <1>6 DEF Knows
<1>7. CASE AllApplied \/ AllListed \/ Removed \/ ReadSchedule
  BY <1>0, <1>7 DEF AllApplied, AllListed, Removed, ReadSchedule, Go, PassType, Knows, cluster, seen
<1>8. CASE ListKind \/ NotServed \/ SkipKind \/ ListFails
  BY <1>0, <1>6, <1>8 DEF ListKind, NotServed, SkipKind, ListFails, Go, PassType, cluster, seen
<1>9. CASE (\E o \in Object : Remove(o) \/ RemoveFails(o)) \/ RemoveSchedule
  BY <1>0, <1>6, <1>9 DEF Remove, RemoveFails, RemoveSchedule, Gone, Go, PassType, cluster, seen
<1>10. CASE WriteStatus \/ ApplyRefused \/ AnswerFails \/ AbandonPass \/ Restart
  BY <1>10 DEF WriteStatus, ApplyRefused, AnswerFails, AbandonPass, Restart, GiveUp, EndPass, Go, Knows
<1>11. CASE Recheck \/ UNCHANGED vars
  BY <1>11 DEF Recheck, vars, cluster, seen, Knows
<1>12. ASSUME NEW w, Edit(w), want' = want \/ "spec" \in w, served' = served \/ "kinds" \in w,
              tls' = tls \/ "secret" \in w
       PROVE  Knows'
  BY <1>12 DEF Edit, Knows
<1>13. CASE Environment
  BY <1>12, <1>13 DEF Environment, EditZaentrum, ServeKind, UnserveKind, TakeOver, Keep, Remake,
                      Delete, SetSecret, cluster
<1> QED BY <1>1, <1>2, <1>3, <1>4, <1>5, <1>7, <1>8, <1>9, <1>10, <1>11, <1>13 DEF Next, Pass, Faults

LEMMA ListedStep == TypeOK /\ TypeOK' /\ Listed /\ [Next]_vars => Listed'
<1> SUFFICES ASSUME TypeOK, TypeOK', Listed, [Next]_vars PROVE Listed'
  OBVIOUS
<1>0. /\ pass \in PassType /\ pass' \in PassType
      /\ object \in [Object -> Live] /\ pass.stale \subseteq Object
  BY DEF TypeOK, PassType
\* The pass ends, or has listed nothing yet.
<1>1. ASSUME pass'.stale = {}, pass'.schedule = FALSE PROVE Listed'
  BY <1>1 DEF Listed
<1>2. CASE WriteStatus \/ ApplyRefused \/ AnswerFails \/ AbandonPass \/ Restart \/ ReadZaentrum
  <2>1. CASE ReadZaentrum
    BY <1>1, <2>1 DEF ReadZaentrum, Go, NoPass
  <2>2. CASE WriteStatus \/ ApplyRefused \/ AnswerFails \/ AbandonPass \/ Restart
    <3>1. pass' = NoPass
      BY <2>2 DEF WriteStatus, ApplyRefused, AnswerFails, AbandonPass, Restart, GiveUp, EndPass, Go
    <3> QED BY <1>1, <3>1 DEF NoPass
  <2> QED BY <1>2, <2>1, <2>2
<1>3. CASE AskCertManager \/ NoIssuer \/ ReadCertificate \/ ApplyObject \/ NotRendered \/ AllApplied
  <2>1. pc \in Before /\ pass'.stale = pass.stale /\ pass'.schedule = pass.schedule
    BY <1>0, <1>3 DEF AskCertManager, NoIssuer, ReadCertificate, ApplyObject, NotRendered, AllApplied,
                      Go, PassType, Before
  <2> QED BY <1>0, <1>1, <2>1 DEF Listed, PassType, Before
\* What is listed stays, but for what is removed; the cluster's objects stay, but
\* for those that go or that another makes anew or changes.
<1>4. ASSUME pass'.stale \subseteq pass.stale, Carries' = Carries,
             pc' \notin Before \/ pass.stale = {},
             pass'.schedule => pass.schedule /\ pc' = "report",
             pc' = "list" => pc = "list" /\ pass'.next >= pass.next,
             remade \subseteq remade', moved \subseteq moved',
             \A o \in Object : object'[o] \in {object[o], Absent} \/ o \in remade' \/ "objects" \in moved'
      PROVE  Listed'
  <2>1. ASSUME NEW o \in pass'.stale PROVE Sound(o)'
    <3>1. Sound(o) /\ o \in Object
      BY <1>0, <1>4 DEF Listed
    <3>2. pc' = "list" => \E i \in DOMAIN PruneKinds : i < pass'.next /\ PruneKinds[i] = KindOf(o)
      <4> SUFFICES ASSUME pc' = "list"
                   PROVE  \E i \in DOMAIN PruneKinds : i < pass'.next /\ PruneKinds[i] = KindOf(o)
        OBVIOUS
      <4>1. PICK i \in DOMAIN PruneKinds : i < pass.next /\ PruneKinds[i] = KindOf(o)
        BY <1>4, <3>1 DEF Sound
      <4>2. i \in Nat /\ pass.next \in Nat /\ pass'.next \in Nat
        BY <1>0, Shape DEF PassType
      <4> QED BY <1>4, <4>1, <4>2
    <3> QED BY <1>4, <3>1, <3>2 DEF Sound
  <2> QED BY <1>4, <2>1 DEF Listed
<1>5. CASE NotServed \/ SkipKind \/ ListFails
  <2>1. pass'.next >= pass.next
    <3>1. pass'.next = pass.next + 1
      BY <1>0, <1>5 DEF NotServed, SkipKind, ListFails, Go, PassType
    <3>2. pass.next \in Nat
      BY <1>0 DEF PassType
    <3> QED BY <3>1, <3>2
  <2>2. /\ pass'.stale = pass.stale /\ pass'.want = pass.want /\ pass'.issuing = pass.issuing
        /\ pass'.schedule = pass.schedule /\ pc = "list" /\ pc' = "list"
        /\ UNCHANGED <<object, moved, remade>>
    BY <1>0, <1>5 DEF NotServed, SkipKind, ListFails, Go, PassType, cluster, seen
  <2> QED BY <1>4, <2>1, <2>2 DEF Carries, Before, Listed
<1>6. CASE AllListed \/ Removed
  <2>1. /\ pass' = pass /\ UNCHANGED <<object, moved, remade>>
        /\ pc \in {"list", "remove"} /\ pc' \in {"remove", "schedule"}
    BY <1>6 DEF AllListed, Removed, Go, cluster, seen
  <2> QED BY <1>4, <2>1 DEF Carries, Before, Listed
<1>7. CASE ReadSchedule
  <2>1. /\ pass'.stale = pass.stale /\ pass'.want = pass.want /\ pass'.issuing = pass.issuing
        /\ pc = "schedule" /\ pc' = "report" /\ UNCHANGED <<object, moved, remade>>
    BY <1>0, <1>7 DEF ReadSchedule, Go, PassType, cluster, seen
  <2>2. Carries' = Carries
    BY <2>1 DEF Carries
  <2>3. pass'.schedule => Cron \notin Carries
    BY <1>0, <1>7 DEF ReadSchedule, Go, PassType, TurnedOff, Listed
  <2> QED BY <2>1, <2>2, <2>3 DEF Listed, Before, Sound
<1>8. ASSUME NEW o \in Object, Remove(o) \/ RemoveFails(o) PROVE Listed'
  <2>1. /\ pass'.stale = pass.stale \ {o} /\ pass'.want = pass.want /\ pass'.issuing = pass.issuing
        /\ pass'.schedule = pass.schedule /\ pc = "remove" /\ pc' = "remove"
        /\ UNCHANGED <<moved, remade>>
    BY <1>0, <1>8 DEF Remove, RemoveFails, Go, PassType, seen
  <2>2. \A q \in Object : object'[q] \in {object[q], Absent}
    BY <1>0, <1>8 DEF Remove, RemoveFails, Gone, cluster
  <2> QED BY <1>4, <2>1, <2>2 DEF Carries, Before, Listed
<1>9. CASE RemoveSchedule
  <2>1. /\ pass'.stale = pass.stale /\ pass'.want = pass.want /\ pass'.issuing = pass.issuing
        /\ pass'.schedule = FALSE /\ pc = "report" /\ pc' = "report"
        /\ UNCHANGED <<moved, remade>>
    BY <1>0, <1>9 DEF RemoveSchedule, Go, PassType, seen
  <2>2. \A q \in Object : object'[q] \in {object[q], Absent}
    BY <1>0, <1>9 DEF RemoveSchedule, Gone, cluster
  <2> QED BY <1>4, <2>1, <2>2 DEF Carries, Before, Listed
<1>10. CASE ListKind
  <2>1. /\ pass'.stale = pass.stale \union {o \in Object : KindOf(o) = NextKind /\ Stale(o)}
        /\ pass'.next = pass.next + 1 /\ pass'.want = pass.want /\ pass'.issuing = pass.issuing
        /\ pass'.schedule = pass.schedule /\ pc = "list" /\ pc' = "list"
        /\ remade' = {o \in remade : KindOf(o) # NextKind}
        /\ UNCHANGED <<object, moved>> /\ pass.next \in DOMAIN PruneKinds
    <3>1. pass.next \in DOMAIN PruneKinds
      BY <1>0, <1>10, Shape DEF ListKind, PassType
    <3> QED BY <1>0, <1>10, <3>1 DEF ListKind, Go, PassType, cluster
  <2>2. Carries' = Carries
    BY <2>1 DEF Carries
  <2>3. pass.next \in Nat /\ DOMAIN PruneKinds \subseteq Nat
    BY <1>0, Shape DEF PassType
  <2>4. ASSUME NEW o \in pass.stale PROVE Sound(o)'
    <3>1. Sound(o)
      BY DEF Listed
    <3>2. PICK i \in DOMAIN PruneKinds : i < pass.next /\ PruneKinds[i] = KindOf(o)
      BY <2>1, <3>1 DEF Sound
    <3>3. i < pass'.next /\ i # pass.next
      BY <2>1, <2>3, <3>2
    <3>4. KindOf(o) # NextKind
      BY <2>1, <3>2, <3>3, Shape DEF NextKind
    <3>5. o \in remade => o \in remade'
      BY <2>1, <3>4
    <3> QED BY <2>1, <2>2, <3>1, <3>2, <3>3, <3>5 DEF Sound
  <2>5. ASSUME NEW o \in Object, KindOf(o) = NextKind, Stale(o) PROVE Sound(o)'
    <3>1. object[o] = Applied
      BY <1>0, <2>5 DEF Stale, Live, Applied
    <3>2. pass.next < pass'.next /\ PruneKinds[pass.next] = KindOf(o)
      BY <2>1, <2>3, <2>5 DEF NextKind
    <3>3. \E i \in DOMAIN PruneKinds : i < pass'.next /\ PruneKinds[i] = KindOf(o)
      BY <2>1, <3>2
    <3> QED BY <2>1, <2>2, <2>5, <3>1, <3>3 DEF Sound, Stale
  <2> QED BY <2>1, <2>4, <2>5 DEF Listed, Before
<1>11. ASSUME UNCHANGED <<pc, pass>>, remade \subseteq remade', moved \subseteq moved',
              pc # "idle" => \A o \in Object :
                 object'[o] \in {object[o], Absent} \/ o \in remade' \/ "objects" \in moved'
       PROVE  Listed'
  <2>1. Carries' = Carries
    BY <1>11 DEF Carries
  <2>2. CASE pc = "idle"
    BY <1>0, <1>1, <1>11, <2>2 DEF Listed, Before, PassType
  <2>3. CASE pc # "idle"
    <3>1. pass'.next >= pass.next
      BY <1>0, <1>11 DEF PassType
    <3> QED BY <1>4, <1>11, <2>1, <2>3, <3>1 DEF Listed, Before
  <2> QED BY <2>2, <2>3
<1>12. CASE Recheck \/ UNCHANGED vars
  BY <1>11, <1>12 DEF Recheck, vars, cluster, seen
<1>13. CASE Environment
  <2>1. ASSUME NEW w, Edit(w) PROVE /\ UNCHANGED <<pc, pass>> /\ moved \subseteq moved'
                                    /\ pc # "idle" => w \subseteq moved'
    BY <2>1 DEF Edit
  <2>2. ASSUME NEW o \in Object, TakeOver(o) \/ Keep(o) PROVE Listed'
    BY <1>11, <2>1, <2>2 DEF TakeOver, Keep
  <2>3. ASSUME NEW o \in Object, Remake(o) PROVE Listed'
    <3>1. o \in remade' /\ remade \subseteq remade' /\ \A q \in Object : q # o => object'[q] = object[q]
      BY <1>0, <2>3 DEF Remake
    <3> QED BY <1>11, <2>1, <2>3, <3>1 DEF Remake
  <2>4. ASSUME NEW o \in Object, Delete(o) PROVE Listed'
    <3>1. \A q \in Object : object'[q] \in {object[q], Absent}
      BY <1>0, <2>4 DEF Delete
    <3> QED BY <1>11, <2>1, <2>4, <3>1 DEF Delete
  <2>5. ASSUME NEW k \in Optional, ServeKind(k) \/ UnserveKind(k) PROVE Listed'
    <3>1. \A q \in Object : object'[q] \in {object[q], Absent}
      BY <1>0, <2>5 DEF ServeKind, UnserveKind
    <3> QED BY <1>11, <2>1, <2>5, <3>1 DEF ServeKind, UnserveKind
  <2>6. CASE (\E o \in Object : EditZaentrum(o)) \/ (\E s \in Secret : SetSecret(s))
    BY <1>11, <2>1, <2>6 DEF EditZaentrum, SetSecret, cluster
  <2> QED BY <1>13, <2>2, <2>3, <2>4, <2>5, <2>6 DEF Environment
<1> QED BY <1>2, <1>3, <1>5, <1>6, <1>7, <1>8, <1>9, <1>10, <1>12, <1>13 DEF Next, Pass, Faults

\* Every reachable state satisfies what the three theorems below rest on.
LEMMA Invariant == Spec => [](TypeOK /\ Knows /\ Listed)
BY TypeInit, TypeStep, KnowsInit, KnowsStep, ListedStep, PTL DEF Spec

\* What a step of the operator removes: a stale object, or the schedule by its name.
LEMMA WhatGoes ==
    ASSUME TypeOK, Listed, [Next]_vars, edits' = edits, NEW o \in Object, Goes(o)
    PROVE  \/ pc = "remove" /\ o \in pass.stale /\ o \notin remade
           \/ pc = "report" /\ pass.schedule /\ o = Cron
<1>0. object \in [Object -> Live] /\ edits \in Nat
  BY DEF TypeOK
<1>1. ASSUME UNCHANGED object PROVE FALSE
  BY <1>1 DEF Goes
<1>2. ASSUME NEW q \in Object, Gone(q), q = o => pc = "remove" /\ o \in pass.stale /\ ~Conflicts(q)
      PROVE  pc = "remove" /\ o \in pass.stale /\ o \notin remade
  BY <1>0, <1>2 DEF Gone, Goes, Conflicts
<1>3. ASSUME NEW q \in Object, Remove(q) \/ RemoveFails(q)
      PROVE  pc = "remove" /\ o \in pass.stale /\ o \notin remade
  <2>1. CASE UNCHANGED cluster
    BY <1>1, <2>1 DEF cluster
  <2>2. CASE ~Conflicts(q) /\ Gone(q)
    BY <1>2, <1>3, <2>2 DEF Remove, RemoveFails
  <2> QED BY <1>3, <2>1, <2>2 DEF Remove, RemoveFails
<1>4. CASE RemoveSchedule
  <2>1. CASE UNCHANGED cluster
    BY <1>1, <2>1 DEF cluster
  <2>2. CASE Gone(Cron)
    BY <1>0, <1>4, <2>2, FourObjects DEF Gone, Goes, RemoveSchedule
  <2> QED BY <1>4, <2>1, <2>2 DEF RemoveSchedule
<1>5. CASE ApplyObject
  <2>1. object'[o] # Absent
    <3>1. /\ object' = [object EXCEPT ![NextObject].by = "Platform", ![NextObject].labelled = TRUE]
          /\ object[o] # Absent /\ object[o] \in Live
      BY <1>0, <1>5 DEF ApplyObject, Goes
    <3>2. object'[o] = object[o] \/ object'[o].by = "Platform"
      BY <1>0, <3>1 DEF Live
    <3> QED BY <3>1, <3>2 DEF Absent
  <2> QED BY <2>1 DEF Goes
<1>6. CASE ReadZaentrum \/ AskCertManager \/ NoIssuer \/ ReadCertificate \/ NotRendered \/ ApplyRefused
           \/ AllApplied \/ ListKind \/ NotServed \/ SkipKind \/ AllListed \/ Removed \/ ReadSchedule
           \/ WriteStatus \/ AnswerFails \/ ListFails \/ AbandonPass \/ Restart \/ Recheck \/ UNCHANGED vars
  <2>1. UNCHANGED object
    BY <1>6 DEF ReadZaentrum, AskCertManager, NoIssuer, ReadCertificate, NotRendered, ApplyRefused,
                AllApplied, ListKind, NotServed, SkipKind, AllListed, Removed, ReadSchedule, WriteStatus,
                AnswerFails, ListFails, AbandonPass, Restart, Recheck, GiveUp, vars, cluster
  <2> QED BY <1>1, <2>1
<1>7. CASE Environment
  <2>1. edits' = edits + 1
    BY <1>7 DEF Environment, EditZaentrum, ServeKind, UnserveKind, TakeOver, Keep, Remake, Delete,
                SetSecret, Edit
  <2> QED BY <1>0, <2>1
<1> QED BY <1>3, <1>4, <1>5, <1>6, <1>7 DEF Next, Pass, Faults

\* A pass removes no object but one it listed that is still the same, its own,
\* labelled and not kept, or that another changed while it ran; never the bundled
\* Postgres; and by its name alone only the schedule of backups turned off.
THEOREM OnlyItsOwn == Spec => RemovesItsOwn
<1>1. ASSUME TypeOK, Knows, Listed, [Next]_vars, edits' = edits, NEW o \in Object, Goes(o)
      PROVE  /\ o # Postgres
             /\ \/ o \notin remade /\ (object[o] = Applied \/ "objects" \in moved)
                \/ o = Cron /\ pc = "report"
  <2>1. CASE pc = "remove" /\ o \in pass.stale /\ o \notin remade
    BY <1>1, <2>1 DEF Listed, Sound, Goes
  <2>2. CASE pc = "report" /\ o = Cron
    BY <2>2, Shape
  <2> QED BY <1>1, <2>1, <2>2, WhatGoes
<1>2. TypeOK /\ Knows /\ Listed /\ [Next]_vars =>
         [Operator => \A o \in Object : Goes(o) =>
             /\ o # Postgres
             /\ \/ o \notin remade /\ (object[o] = Applied \/ "objects" \in moved)
                \/ o = Cron /\ pc = "report"]_vars
  BY <1>1 DEF Operator
<1> QED BY Invariant, <1>2, PTL DEF Spec, RemovesItsOwn

\* Unless the Zaentrum or the kinds served changed while it ran, a pass removes
\* nothing the spec asks of this cluster, whatever answer failed before.
THEOREM NothingAskedFor == Spec => RemovesNothingAskedFor
<1>1. ASSUME TypeOK, Knows, Listed, [Next]_vars, edits' = edits,
             moved \intersect {"spec", "kinds"} = {}, NEW o \in Object, Goes(o)
      PROVE  o \notin Rendered(want, Certificate \in served)
  <2>1. o \notin Carries /\ pc \notin {"idle", "ask"}
    BY <1>1, WhatGoes DEF Listed, Sound
  <2>2. pass.want = want /\ (Certificate \in want => pass.issuing = (Certificate \in served))
    BY <1>1, <2>1 DEF Knows
  <2> QED BY <2>1, <2>2 DEF Carries, Rendered
<1>2. TypeOK /\ Knows /\ Listed /\ [Next]_vars =>
         [Operator /\ moved \intersect {"spec", "kinds"} = {} =>
             \A o \in Object : Goes(o) => o \notin Rendered(want, Certificate \in served)]_vars
  BY <1>1 DEF Operator
<1> QED BY Invariant, <1>2, PTL DEF Spec, RemovesNothingAskedFor

\* A pass takes the certificate off a Route only if the Secret had none at some
\* time while it ran: a read that failed never counts as one.
THEOREM RouteKeepsCertificate == Spec => RoutesKeepCertificate
<1>1. ASSUME TypeOK, Knows, Listed, [Next]_vars, edits' = edits,
             object'[Route] # Absent, inline # "None", inline' = "None"
      PROVE  tls = "None" \/ "secret" \in moved
  <2>0. object \in [Object -> Live] /\ edits \in Nat /\ Route \in Object
    BY <1>1, FourObjects DEF TypeOK
  <2>1. CASE ApplyObject
    BY <1>1, <2>1 DEF ApplyObject, Knows
  <2>2. ASSUME NEW q \in Object, Gone(q) PROVE FALSE
    BY <1>1, <2>0, <2>2 DEF Gone
  <2>3. ASSUME UNCHANGED inline PROVE FALSE
    BY <1>1, <2>3
  <2>4. CASE (\E q \in Object : Remove(q) \/ RemoveFails(q)) \/ RemoveSchedule
    BY <2>2, <2>3, <2>4, FourObjects DEF Remove, RemoveFails, RemoveSchedule, cluster
  <2>5. CASE ReadZaentrum \/ AskCertManager \/ NoIssuer \/ ReadCertificate \/ NotRendered \/ ApplyRefused
             \/ AllApplied \/ ListKind \/ NotServed \/ SkipKind \/ AllListed \/ Removed \/ ReadSchedule
             \/ WriteStatus \/ AnswerFails \/ ListFails \/ AbandonPass \/ Restart \/ Recheck \/ UNCHANGED vars
    <3>1. UNCHANGED inline
      BY <2>5 DEF ReadZaentrum, AskCertManager, NoIssuer, ReadCertificate, NotRendered, ApplyRefused,
                  AllApplied, ListKind, NotServed, SkipKind, AllListed, Removed, ReadSchedule, WriteStatus,
                  AnswerFails, ListFails, AbandonPass, Restart, Recheck, GiveUp, vars, cluster
    <3> QED BY <2>3, <3>1
  <2>6. CASE Environment
    <3>1. edits' = edits + 1
      BY <2>6 DEF Environment, EditZaentrum, ServeKind, UnserveKind, TakeOver, Keep, Remake, Delete,
                  SetSecret, Edit
    <3> QED BY <1>1, <2>0, <3>1
  <2> QED BY <1>1, <2>1, <2>4, <2>5, <2>6 DEF Next, Pass, Faults
<1>2. TypeOK /\ Knows /\ Listed /\ [Next]_vars =>
         [Operator /\ object'[Route] # Absent /\ inline # "None" /\ inline' = "None" =>
             tls = "None" \/ "secret" \in moved]_vars
  BY <1>1 DEF Operator
<1> QED BY Invariant, <1>2, PTL DEF Spec, RoutesKeepCertificate

=============================================================================
