------------------------------ MODULE Rollout ------------------------------
(***************************************************************************)
(* From the render to the phase: a pass applies every Deployment, reads    *)
(* them back from its cache (refreshComponents), counts a rollout that has *)
(* given up as stalled (rolloutStalled), writes the phase, and lets the    *)
(* verification start when all of them are ready.                          *)
(*                                                                         *)
(* Abstracted: a Deployment has one replica, none while the render stops   *)
(* it for a restore; its image stands for its pod template. The Deployment *)
(* controller and the watch that feeds the cache are external, and what    *)
(* the status says may be of an earlier spec: the code compares no         *)
(* observedGeneration.                                                     *)
(***************************************************************************)
EXTENDS Naturals, FiniteSets

CONSTANTS
    Component,      \* the Deployments of the render
    Client,         \* those a restore stops
    Image, Pullable,\* images a render may name; those a node can pull and run
    MaxEdits,       \* bound: new images, restores asked for
    MaxFaults       \* bound: crashes, failed calls, pods lost

ASSUME Subsets == Client \subseteq Component /\ Pullable \subseteq Image
ASSUME Bounds == MaxEdits \in Nat /\ MaxFaults \in Nat

VARIABLES
    target, restore,        \* what the next render names; a restore in flight
    deploy,                 \* the Deployments on the API server, with their status
    cache,                  \* what the operator's cache holds of them
    phase,                  \* status.phase
    pc, pass,               \* the pass
    everUp,                 \* observer: Deployments that had a pod available once
    edits, faults

vars == <<target, restore, deploy, cache, phase, pc, pass, everUp, edits, faults>>

-----------------------------------------------------------------------------
Phases == {"None", "Error", "Restoring", "Ready", "Degraded", "Progressing"}

\* A Deployment: its spec, the image its controller has acted on last, whether
\* pods of that image and of earlier ones are available, and whether its rollout
\* has given up (Progressing is False).
Deployment == [there : BOOLEAN, image : Image, replicas : {0, 1},
               ran : Image, new : BOOLEAN, old : BOOLEAN, gaveUp : BOOLEAN]

\* What a pass reads of one: AvailableReplicas counts pods of any image.
Reading == [there : BOOLEAN, replicas : {0, 1}, available : {0, 1}, gaveUp : BOOLEAN]

Read(d) == [there |-> d.there, replicas |-> d.replicas,
            available |-> IF d.new \/ d.old THEN 1 ELSE 0, gaveUp |-> d.gaveUp]

\* The pass: the image and replicas it rendered, the Deployments not applied or
\* not read yet, whether all read were ready (allReady) and one was stalled.
Pass == [image : Image, restoring : BOOLEAN, todo : SUBSET Component,
         ready : BOOLEAN, stalled : BOOLEAN]

NoPass == [image |-> CHOOSE i \in Image : TRUE, restoring |-> FALSE, todo |-> {},
           ready |-> TRUE, stalled |-> FALSE]

Init ==
    /\ target \in Image /\ restore = FALSE
    /\ deploy = [c \in Component |-> [there |-> FALSE, image |-> NoPass.image, replicas |-> 1,
                                      ran |-> NoPass.image, new |-> FALSE, old |-> FALSE, gaveUp |-> FALSE]]
    /\ cache = [c \in Component |-> Read(deploy[c])]
    /\ phase = "None"
    /\ pc = "idle"
    /\ pass = NoPass
    /\ everUp = {}
    /\ edits = 0 /\ faults = 0

Fault == faults < MaxFaults /\ faults' = faults + 1

-----------------------------------------------------------------------------
(* The pass *)

BeginPass ==
    /\ pc = "idle" /\ pc' = "apply"
    /\ pass' = [NoPass EXCEPT !.image = target, !.restoring = restore, !.todo = Component]
    /\ UNCHANGED <<target, restore, deploy, cache, phase, everUp, edits, faults>>

\* Server-side apply of one Deployment: its spec. The status stays that of the
\* spec before until the Deployment controller acts on this one; a new one has none.
Applied(d, image, replicas) ==
    [d EXCEPT !.there = TRUE, !.image = image, !.replicas = replicas,
              !.ran = IF d.there THEN @ ELSE image]

ApplyOne(c) ==
    /\ pc = "apply" /\ c \in pass.todo
    /\ deploy' = [deploy EXCEPT ![c] =
           Applied(deploy[c], pass.image, IF pass.restoring /\ c \in Client THEN 0 ELSE 1)]
    /\ pass' = [pass EXCEPT !.todo = @ \ {c}]
    /\ UNCHANGED <<target, restore, cache, phase, pc, everUp, edits, faults>>

\* All applied: the Deployments are read back, from the cache. The restore may
\* have ended in between.
StartRefresh ==
    /\ pc = "apply" /\ pass.todo = {}
    /\ pc' = "refresh"
    /\ pass' = [pass EXCEPT !.image = NoPass.image,
           !.todo = Component, !.restoring = @ /\ restore]
    /\ UNCHANGED <<target, restore, deploy, cache, phase, everUp, edits, faults>>

\* Ready: as many available as desired, whichever pods they are, and not none.
ReadyAtZero(d) == d.there /\ d.available >= d.replicas

Ready(d) == d.there /\ d.available >= d.replicas /\ d.replicas > 0

\* rolloutStalled: Kubernetes' own verdict.
NeverStalled(d) == FALSE

Stalled(d) == d.there /\ d.gaveUp

RefreshOne(c) ==
    /\ pc = "refresh" /\ c \in pass.todo
    /\ pass' = [pass EXCEPT !.todo = @ \ {c},
           !.ready = @ /\ Ready(cache[c]) /\ ~Stalled(cache[c]),
           !.stalled = @ \/ Stalled(cache[c])]
    /\ UNCHANGED <<target, restore, deploy, cache, phase, pc, everUp, edits, faults>>

\* The phase this pass arrives at.
PassPhase ==
    IF pass.restoring THEN "Restoring"
    ELSE IF pass.ready THEN "Ready"
    ELSE IF pass.stalled THEN "Degraded"
    ELSE "Progressing"

\* With everything ready, a verification that is wanted starts before the write.
MayVerify == pc = "refresh" /\ pass.todo = {} /\ PassPhase = "Ready"

WriteStatus ==
    /\ pc = "refresh" /\ pass.todo = {} /\ pc' = "idle"
    /\ phase' = PassPhase /\ pass' = NoPass
    /\ UNCHANGED <<target, restore, deploy, cache, everUp, edits, faults>>

\* What must come before the apply fails, or the apply of an object does: the
\* pass ends there and says so, whatever it has applied by then.
FailPass ==
    /\ pc = "apply" /\ pc' = "idle" /\ Fault
    /\ phase' = "Error" /\ pass' = NoPass
    /\ UNCHANGED <<target, restore, deploy, cache, everUp, edits>>

\* A return that writes nothing, a refused write of the status, or the operator dies.
AbandonPass ==
    /\ pc # "idle" /\ pc' = "idle" /\ Fault
    /\ pass' = NoPass
    /\ UNCHANGED <<target, restore, deploy, cache, phase, everUp, edits>>

Step ==
    \/ BeginPass \/ StartRefresh \/ WriteStatus
    \/ \E c \in Component : ApplyOne(c) \/ RefreshOne(c)

-----------------------------------------------------------------------------
(* Around the pass *)

NewImage(i) ==
    /\ edits < MaxEdits /\ edits' = edits + 1
    /\ i # target /\ target' = i
    /\ UNCHANGED <<restore, deploy, cache, phase, pc, pass, everUp, faults>>

StartRestore ==
    /\ edits < MaxEdits /\ edits' = edits + 1
    /\ ~restore /\ restore' = TRUE
    /\ UNCHANGED <<target, deploy, cache, phase, pc, pass, everUp, faults>>

EndRestore ==
    /\ restore /\ restore' = FALSE
    /\ UNCHANGED <<target, deploy, cache, phase, pc, pass, everUp, edits, faults>>

\* The Deployment controller acts on the spec. A changed image starts a rollout:
\* the pods there are become pods of an earlier one. Scaled to none, all of them go.
Acted(d) ==
    [d EXCEPT !.ran = d.image,
              !.new = d.new /\ d.ran = d.image /\ d.replicas = 1,
              !.old = (d.old \/ (d.new /\ d.ran # d.image)) /\ d.replicas = 1,
              !.gaveUp = d.gaveUp /\ d.ran = d.image /\ d.replicas = 1]

Act(c) ==
    /\ deploy[c] # Acted(deploy[c])
    /\ deploy' = [deploy EXCEPT ![c] = Acted(@)]
    /\ UNCHANGED <<target, restore, cache, phase, pc, pass, everUp, edits, faults>>

\* The pod of the current spec comes up where its image can be pulled, and the
\* earlier ones go: they are kept until then.
PodUp(c) ==
    /\ deploy[c].there /\ deploy[c] = Acted(deploy[c])
    /\ deploy[c].replicas = 1 /\ ~deploy[c].new /\ deploy[c].image \in Pullable
    /\ deploy' = [deploy EXCEPT ![c].new = TRUE, ![c].old = FALSE, ![c].gaveUp = FALSE]
    /\ everUp' = everUp \union {c}
    /\ UNCHANGED <<target, restore, cache, phase, pc, pass, edits, faults>>

PodLost(c) ==
    /\ deploy[c].new \/ deploy[c].old
    /\ deploy' = [deploy EXCEPT ![c].new = FALSE, ![c].old = FALSE]
    /\ Fault
    /\ UNCHANGED <<target, restore, cache, phase, pc, pass, everUp, edits>>

\* progressDeadlineSeconds are over.
GiveUp(c) ==
    /\ deploy[c].there /\ deploy[c] = Acted(deploy[c])
    /\ deploy[c].replicas = 1 /\ ~deploy[c].new /\ ~deploy[c].gaveUp
    /\ deploy' = [deploy EXCEPT ![c].gaveUp = TRUE]
    /\ UNCHANGED <<target, restore, cache, phase, pc, pass, everUp, edits, faults>>

\* The watch brings the cache up to date.
SyncCache(c) ==
    /\ cache[c] # Read(deploy[c])
    /\ cache' = [cache EXCEPT ![c] = Read(deploy[c])]
    /\ UNCHANGED <<target, restore, deploy, phase, pc, pass, everUp, edits, faults>>

DeploymentController == \E c \in Component : Act(c) \/ PodUp(c) \/ GiveUp(c)

Watch == \E c \in Component : SyncCache(c)

Environment ==
    \/ DeploymentController \/ Watch
    \/ \E i \in Image : NewImage(i)
    \/ StartRestore \/ EndRestore
    \/ \E c \in Component : PodLost(c)

Next == Step \/ FailPass \/ AbandonPass \/ Environment

Spec == Init /\ [][Next]_vars

\* Passes recur, the watch delivers, a restore ends, and the Deployment
\* controller acts on a spec and brings a pod up or gives up.
FairSpec ==
    /\ Spec
    /\ WF_vars(Step) /\ WF_vars(EndRestore)
    /\ WF_vars(DeploymentController) /\ WF_vars(Watch)

-----------------------------------------------------------------------------
(* Properties *)

\* Every variable has its type.
TypeOK ==
    /\ target \in Image /\ restore \in BOOLEAN
    /\ deploy \in [Component -> Deployment] /\ cache \in [Component -> Reading]
    /\ phase \in Phases
    /\ pc \in {"idle", "apply", "refresh"} /\ pass \in Pass
    /\ everUp \subseteq Component
    /\ edits \in Nat /\ faults \in Nat

\* The phase never says Ready of a platform with a component that was never up,
\* nor does a verification start against one: neither a Deployment the cache does
\* not know yet, nor one scaled to none, passes for ready
\* (zaentrum_controller.go:496-523), however late the cache is.
ReadyMeansCameUp == phase = "Ready" \/ MayVerify => everUp = Component

\* A rollout that has given up "is not still working on it" and must not be
\* invisible behind old pods that keep serving (zaentrum_controller.go:282-290):
\* once edits stop, the phase rests at Degraded where an image cannot be pulled
\* and at Ready where all can, whatever the passes before it wrote.
PhaseSettles ==
    <>[](phase = IF target \in Pullable THEN "Ready" ELSE "Degraded")

=============================================================================
