------------------------------- MODULE Addon -------------------------------
(***************************************************************************)
(* One ZaentrumAddon: a pass lists what is applied for it, renders, refuses *)
(* names that are taken, applies in order of kind, prunes what is no longer *)
(* rendered. The kill switch of pods assigned to the VPN is an object of    *)
(* the operator's own, rendered whenever a workload asks for the VPN.       *)
(* Around a pass: the user, others who make objects of the same names, the  *)
(* controllers that start and stop pods, and garbage collection.            *)
(*                                                                          *)
(* Abstracted: what an object says beyond whether its pod template asks for *)
(* the VPN; fetch, values, schema and guardrails, any of which may refuse   *)
(* the plan; the status. The addon is read from a cache; a late cache is a  *)
(* pass that began earlier. The values Secrets are module AddonValues.      *)
(***************************************************************************)
EXTENDS Naturals, FiniteSets

CONSTANTS
    Plain,          \* names of objects no pod comes from: Services, ConfigMaps, ...
    Deployment, Job,
    Policy,         \* the NetworkPolicy zaentrum-addon-<name>-vpn
    Uid,            \* UIDs the addon has, each time it is created
    Nobody, Hand, Other,  \* who else controls an object: it is absent, no one, another
    MaxEdits,       \* bound: edits of chart, values or suspend, and creations again
    MaxFaults,      \* bound: crashes, failed calls, refused plans
    MaxOthers       \* bound: objects made or removed by others

Workload == Deployment \union Job
Charted  == Plain \union Workload
Object   == Charted \union {Policy}

ASSUME NamesDiffer ==
    /\ Plain \intersect Workload = {} /\ Deployment \intersect Job = {}
    /\ Policy \notin Charted
ASSUME Sentinels ==
    /\ {Nobody, Hand, Other} \intersect Uid = {}
    /\ Nobody # Hand /\ Nobody # Other /\ Hand # Other
ASSUME Bounds == MaxEdits \in Nat /\ MaxFaults \in Nat /\ MaxOthers \in Nat

VARIABLES
    \* the ZaentrumAddon: its UID or Nobody, what chart and values render, and
    \* its metadata
    uid, chart, suspend, finalizer, removing, used,
    \* the objects: who controls each, and whether its template asks for the VPN
    obj,
    \* workloads whose controllers keep a pod in the VPN, and those that run one
    scaled, pods,
    \* the pass: its reading of the addon, what it listed, what is left to do,
    \* whether the addon changed since, and (an observer) the names others took
    \* after the pass had looked them up
    pc, pass, todo, stale, late,
    edits, faults, others

addon    == <<uid, chart, suspend, finalizer, removing, used>>
rollouts == <<scaled, pods>>
passing  == <<pc, pass, todo, stale, late>>
counts   == <<edits, faults, others>>
vars     == <<uid, chart, suspend, finalizer, removing, used, obj, scaled, pods,
              pc, pass, todo, stale, late, edits, faults, others>>

-----------------------------------------------------------------------------
\* What a chart renders of each name: nothing, or an object whose pods, if it
\* has any, are in the VPN or not.
Chart == {c \in [Charted -> {"no", "clear", "vpn"}] : \A o \in Plain : c[o] # "vpn"}

Held  == [by : Uid \union {Nobody, Hand, Other}, asks : {"clear", "vpn"}]
Gone  == [by |-> Nobody, asks |-> "clear"]

Pass   == [uid : Uid \union {Nobody}, chart : Chart, suspend : BOOLEAN,
           applied : SUBSET Object]
Empty  == [o \in Charted |-> "no"]
NoPass == [uid |-> Nobody, chart |-> Empty, suspend |-> FALSE, applied |-> {}]

\* VPNPolicy: rendered when a Deployment or Job assigns its pods to the VPN.
Rendered(c) ==
    {o \in Charted : c[o] # "no"}
        \union (IF \E w \in Workload : c[w] = "vpn" THEN {Policy} ELSE {})

Asks(c, o) == IF o = Policy THEN "clear" ELSE c[o]

\* AppliedKinds: the order objects are applied and listed in.
RankPolicyLast(o) == IF o \in Plain THEN 1 ELSE IF o \in Deployment THEN 3
                     ELSE IF o \in Job THEN 4 ELSE 5

Rank(o) == IF o \in Plain THEN 1 ELSE IF o = Policy THEN 2 ELSE IF o \in Deployment THEN 3 ELSE 4

Due(o) == o \in todo /\ \A p \in todo : Rank(o) <= Rank(p)

Init ==
    /\ uid = Nobody /\ used = {}
    /\ chart = Empty /\ suspend = FALSE /\ finalizer = FALSE /\ removing = FALSE
    /\ obj = [o \in Object |-> Gone]
    /\ scaled = {} /\ pods = {}
    /\ pc = "idle" /\ pass = NoPass /\ todo = {} /\ stale = FALSE
    /\ late = {}
    /\ edits = 0 /\ faults = 0 /\ others = 0

Fault == faults < MaxFaults /\ faults' = faults + 1

-----------------------------------------------------------------------------
(* The pass *)

EndPass == pc' = "idle" /\ pass' = NoPass /\ todo' = {} /\ stale' = FALSE /\ late' = {}

AddonGone ==
    /\ uid' = Nobody /\ chart' = Empty
    /\ suspend' = FALSE /\ finalizer' = FALSE /\ removing' = FALSE

\* Reconcile: an addon being removed is finalized, one without the finalizer
\* gets it first.
ReadAddon ==
    /\ pc = "idle" /\ uid # Nobody
    /\ pass' = [uid |-> uid, chart |-> chart, suspend |-> suspend, applied |-> {}]
    /\ pc' = IF removing THEN "finalize" ELSE IF finalizer THEN "list" ELSE "add"
    /\ todo' = Object
    /\ UNCHANGED <<addon, obj, rollouts, stale, late, counts>>

\* Both finalizer patches carry the resourceVersion that was read.
AddFinalizer ==
    /\ pc = "add" /\ ~stale
    /\ finalizer' = TRUE /\ pc' = "list"
    /\ UNCHANGED <<uid, chart, suspend, removing, used, obj, rollouts, pass, todo, stale,
                   late, counts>>

Finalize ==
    /\ pc = "finalize" /\ ~stale
    /\ AddonGone
    /\ EndPass
    /\ UNCHANGED <<used, obj, rollouts, counts>>

Conflict ==
    /\ pc \in {"add", "finalize"} /\ stale
    /\ EndPass
    /\ UNCHANGED <<addon, obj, rollouts, counts>>

\* inventory: the objects this very ZaentrumAddon controls, listed kind by kind (the
\* plain kinds, which no property tells apart, as one).
InventoryOfChart == {o \in Charted : obj[o].by = pass.uid}

Inventory == {o \in Object : obj[o].by = pass.uid}

ListKind ==
    /\ pc = "list"
    /\ LET kind == {o \in todo : Due(o)} IN
         /\ pass' = [pass EXCEPT !.applied = @ \union (Inventory \intersect kind)]
         /\ IF kind = todo THEN pc' = "check" /\ todo' = Rendered(pass.chart)
                           ELSE pc' = "list" /\ todo' = todo \ kind
    /\ UNCHANGED <<addon, obj, rollouts, stale, late, counts>>

\* Collisions: a rendered name that is taken by what this addon does not control.
TakenByController(o) == obj[o].by \notin {Nobody, Hand, pass.uid}

Taken(o) == obj[o].by \notin {Nobody, pass.uid}

\* prune's first line: what was listed and is not rendered.
StaleOfChart == pass.applied \ (Rendered(pass.chart) \ {Policy})

Stale == pass.applied \ Rendered(pass.chart)

Go(step, rest) == pc' = step /\ todo' = rest /\ UNCHANGED <<pass, stale>>

Prune(rest, made) ==
    IF rest = {} THEN EndPass ELSE Go("prune", rest) /\ late' = made

\* What is left after one object was applied.
Applied(rest, made) ==
    IF rest = {} THEN Prune(Stale, made) ELSE Go("apply", rest) /\ late' = made

\* The names are looked up one at a time, the kill switch's last. A plan with a
\* collision is not applied, so what is looked up after one changes nothing.
CheckName(o) ==
    /\ pc = "check" /\ o \in todo /\ (o = Policy => todo = {Policy})
    /\ IF Taken(o) THEN EndPass ELSE Go(pc, todo \ {o}) /\ late' = late
    /\ UNCHANGED <<addon, obj, rollouts, counts>>

\* Nor is a suspended addon's.
ApplyPlan ==
    /\ pc = "check" /\ todo = {}
    /\ IF pass.suspend THEN EndPass ELSE Applied(Rendered(pass.chart), late)
    /\ UNCHANGED <<addon, obj, rollouts, counts>>

\* Server-side apply with force: what no one controls is taken over, what
\* another controls is refused (an object has one controller), and so is a
\* change of a Job's template.
Immutable(o) == o \in Job /\ obj[o].by # Nobody /\ obj[o].asks # pass.chart[o]

Apply(o) ==
    /\ pc \in {"apply", "reapply"} /\ Due(o)
    /\ obj[o].by \in {Nobody, Hand, pass.uid} /\ ~Immutable(o)
    /\ obj' = [obj EXCEPT ![o] = [by |-> pass.uid, asks |-> Asks(pass.chart, o)]]
    /\ Applied(todo \ {o}, late \ {o})
    /\ UNCHANGED <<addon, rollouts, counts>>

ApplyRefused(o) ==
    /\ pc \in {"apply", "reapply"} /\ Due(o)
    /\ obj[o].by \notin {Nobody, Hand, pass.uid} \/ (pc = "reapply" /\ Immutable(o))
    /\ EndPass
    /\ UNCHANGED <<addon, obj, rollouts, counts>>

\* The error says a field is immutable, whoever controls the Job: it is deleted
\* by its name, and applied again.
ApplyImmutable(o) ==
    /\ pc = "apply" /\ Due(o) /\ Immutable(o)
    /\ pc' = "delete"
    /\ UNCHANGED <<addon, obj, rollouts, pass, todo, stale, late, counts>>

DeleteJob(o) ==
    /\ pc = "delete" /\ Due(o)
    /\ obj' = [obj EXCEPT ![o] = Gone]
    /\ late' = late \ {o}
    /\ pc' = "reapply"
    /\ UNCHANGED <<addon, rollouts, pass, todo, stale, counts>>

\* A delete carries the UID of the object that was listed: one of the same name
\* that someone made since is a conflict, one already gone is fine.
DeleteListed(o) ==
    /\ obj' = IF obj[o].by = pass.uid THEN [obj EXCEPT ![o] = Gone] ELSE obj
    /\ IF obj[o].by \in {Nobody, pass.uid} THEN Prune(todo \ {o}, late) ELSE EndPass

PruneObject(o) ==
    /\ pc = "prune" /\ Due(o) /\ o # Policy
    /\ DeleteListed(o)
    /\ UNCHANGED <<addon, rollouts, counts>>

\* vpnPodsRunning: the kill switch stays while a pod it selects has not stopped.
LookForPods ==
    /\ pc = "prune" /\ Due(Policy)
    /\ IF pods = {} THEN Go("drop", todo) /\ late' = late ELSE Prune(todo \ {Policy}, late)
    /\ UNCHANGED <<addon, obj, rollouts, counts>>

DropPolicy ==
    /\ pc = "drop"
    /\ DeleteListed(Policy)
    /\ UNCHANGED <<addon, rollouts, counts>>

\* A crash, a call that failed, or a plan refused for another reason: what was
\* done stays. A call may also fail after it took effect.
AbandonPass ==
    /\ pc # "idle" /\ Fault
    /\ EndPass
    /\ UNCHANGED <<addon, obj, rollouts, edits, others>>

-----------------------------------------------------------------------------
(* The world around it *)

\* The names a pass renders and has looked up.
Checked ==
    IF pc \in {"apply", "delete", "reapply", "prune", "drop"} THEN Rendered(pass.chart)
    ELSE IF pc = "check" THEN Rendered(pass.chart) \ todo ELSE {}

Outdate == stale' = (pc \in {"add", "finalize"}) /\ UNCHANGED <<pc, pass, todo, late>>

\* A new UID: one never used, whichever it is.
CreateAddon ==
    /\ uid = Nobody /\ Uid \ used # {}
    /\ uid' = (CHOOSE u \in Uid \ used : TRUE) /\ used' = used \union {uid'}
    /\ IF used = {} THEN UNCHANGED edits ELSE edits < MaxEdits /\ edits' = edits + 1
    /\ chart' \in Chart
    /\ suspend' = FALSE /\ finalizer' = FALSE /\ removing' = FALSE
    /\ Outdate
    /\ UNCHANGED <<obj, rollouts, faults, others>>

EditAddon ==
    /\ uid # Nobody /\ ~removing /\ edits < MaxEdits
    /\ \/ chart' \in Chart \ {chart} /\ UNCHANGED suspend
       \/ suspend' = ~suspend /\ UNCHANGED chart
    /\ edits' = edits + 1 /\ Outdate
    /\ UNCHANGED <<uid, finalizer, removing, used, obj, rollouts, faults, others>>

\* Without a finalizer a deleted addon is gone at once.
RemoveAddon ==
    /\ uid # Nobody /\ ~removing
    /\ IF finalizer THEN removing' = TRUE /\ UNCHANGED <<uid, chart, suspend, finalizer>>
                    ELSE AddonGone
    /\ Outdate
    /\ UNCHANGED <<used, obj, rollouts, counts>>

CollectGarbage(o) ==
    /\ obj[o].by \in Uid \ {uid}
    /\ obj' = [obj EXCEPT ![o] = Gone]
    /\ UNCHANGED <<addon, rollouts, passing, counts>>

\* Others make objects of any name, and remove any but an addon's kill switch.
OthersMake(o) ==
    /\ others < MaxOthers /\ others' = others + 1
    /\ obj[o].by = Nobody
    /\ \E by \in {Hand, Other}, asks \in {"clear", "vpn"} :
         /\ asks = "vpn" => o \in Workload
         /\ obj' = [obj EXCEPT ![o] = [by |-> by, asks |-> asks]]
    /\ late' = IF o \in Checked THEN late \union {o} ELSE late
    /\ UNCHANGED <<addon, rollouts, pc, pass, todo, stale, edits, faults>>

OthersRemove(o) ==
    /\ others < MaxOthers /\ others' = others + 1
    /\ obj[o].by # Nobody /\ (o = Policy => obj[o].by \notin Uid)
    /\ obj' = [obj EXCEPT ![o] = Gone] /\ late' = late \ {o}
    /\ UNCHANGED <<addon, rollouts, pc, pass, todo, stale, edits, faults>>

\* A Deployment's ReplicaSets, or a Job's controller, follow the template, and
\* keep a pod until they are scaled down: one that stops before is started again.
InVPN(w) == obj[w].by \in Uid /\ obj[w].asks = "vpn"

ScaleUp(w) ==
    /\ InVPN(w) /\ w \notin scaled
    /\ scaled' = scaled \union {w}
    /\ UNCHANGED <<addon, obj, pods, passing, counts>>

ScaleDown(w) ==
    /\ ~InVPN(w) /\ w \in scaled
    /\ scaled' = scaled \ {w}
    /\ UNCHANGED <<addon, obj, pods, passing, counts>>

StartPod(w) ==
    /\ w \in scaled /\ w \notin pods
    /\ pods' = pods \union {w}
    /\ UNCHANGED <<addon, obj, scaled, passing, counts>>

StopPod(w) ==
    /\ w \in pods
    /\ pods' = pods \ {w}
    /\ UNCHANGED <<addon, obj, scaled, passing, counts>>

-----------------------------------------------------------------------------
Step ==
    \/ ReadAddon \/ AddFinalizer \/ Finalize \/ Conflict \/ ListKind \/ ApplyPlan
    \/ \E o \in Charted \union {Policy} :
         CheckName(o) \/ Apply(o) \/ ApplyRefused(o) \/ PruneObject(o)
    \/ \E o \in Job : ApplyImmutable(o) \/ DeleteJob(o)
    \/ LookForPods \/ DropPolicy

World ==
    \/ CreateAddon \/ EditAddon \/ RemoveAddon
    \/ \E o \in Object : CollectGarbage(o) \/ OthersMake(o) \/ OthersRemove(o)
    \/ \E w \in Workload : ScaleUp(w) \/ ScaleDown(w) \/ StartPod(w) \/ StopPod(w)

Next == Step \/ AbandonPass \/ World

Spec == Init /\ [][Next]_vars

\* A pass comes again after every pass and every error; garbage is collected,
\* controllers follow their templates, and a pod that is let go stops.
Fairness ==
    /\ WF_vars(Step)
    /\ \A o \in Object : WF_vars(CollectGarbage(o))
    /\ \A w \in Workload : WF_vars(ScaleDown(w)) /\ WF_vars(w \notin scaled /\ StopPod(w))

FairSpec == Spec /\ Fairness

-----------------------------------------------------------------------------
TypeOK ==
    /\ uid \in used \union {Nobody} /\ used \subseteq Uid
    /\ chart \in Chart /\ suspend \in BOOLEAN /\ finalizer \in BOOLEAN
    /\ removing \in BOOLEAN
    /\ obj \in [Object -> Held]
    /\ scaled \subseteq Workload /\ pods \subseteq Workload
    /\ pc \in {"idle", "add", "finalize", "list", "check", "apply", "delete", "reapply",
               "prune", "drop"}
    /\ pass \in Pass /\ todo \subseteq Object /\ stale \in BOOLEAN
    /\ late \subseteq Object
    /\ edits \in 0..MaxEdits /\ faults \in 0..MaxFaults /\ others \in 0..MaxOthers

\* An object that another controls, or that no one does, and that did not come
\* after the pass had looked up its name is neither changed nor deleted by the
\* operator: not by applying, not by replacing a Job by its name, not by pruning a
\* name it listed (guardrails.go:612-615).
OthersKept ==
    [][\A o \in Object :
        Step /\ obj[o].by \in {Hand, Other} /\ o \notin late => obj'[o] = obj[o]]_vars

\* guardrails.go:38-42: a workload's pods are assigned to the VPN only while the
\* addon's kill switch stands.
PolicyFirst ==
    [][\A w \in Workload :
        InVPN(w)' /\ ~InVPN(w) => obj[Policy].by = obj'[w].by]_vars

\* The operator takes the kill switch of a live addon away only when every
\* workload still assigned to the VPN is one it prunes in the same pass.
PolicyLast ==
    [][obj[Policy].by = uid /\ uid # Nobody /\ obj'[Policy] = Gone
        => \A w \in Workload : InVPN(w) /\ obj[w].by = uid => w \in todo]_vars

\* What an addon that stays as it is comes to: exactly what it renders, the kill
\* switch included, whatever crashed and whoever made something on the way. An
\* addon that was removed leaves nothing.
Standing  == uid # Nobody /\ ~suspend /\ \A o \in Rendered(chart) : obj[o].by \in {Nobody, uid}
Installed == \A o \in Object :
    IF o \in Rendered(chart) THEN obj[o] = [by |-> uid, asks |-> Asks(chart, o)]
                             ELSE obj[o].by # uid

Converges == <>[]((Standing => Installed) /\ \A o \in Object : obj[o].by \notin Uid \ {uid})

=============================================================================
