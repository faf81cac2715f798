---------------------------- MODULE AddonProofs ----------------------------
(* Types and safety of module Addon, for any objects and any number of       *)
(* creations, edits, faults and objects of others.                           *)
EXTENDS Addon, TLAPS

Applying == {"apply", "delete", "reapply"}

\* While a pass works, its addon exists: the finalizer holds it.
PassInv ==
    /\ pc \notin {"idle", "add", "finalize"} => uid = pass.uid /\ uid \in Uid /\ finalizer
    /\ pc \in {"add", "finalize"} /\ ~stale => uid = pass.uid /\ uid \in Uid

\* Only what was rendered is looked up and applied.
TodoInv == pc \in Applying \union {"check"} => todo \subseteq Rendered(pass.chart)

\* The kill switch is applied before any workload that needs it is due.
PolicyInv ==
    pc \in Applying /\ (\E w \in Workload : pass.chart[w] = "vpn")
        => Policy \in todo \/ obj[Policy].by = pass.uid

\* What was applied says what was rendered; what the addon controls was listed,
\* if its kind was, or is rendered.
AppliedInv ==
    /\ pc \in Applying =>
         \A o \in Rendered(pass.chart) \ todo :
            obj[o].by = pass.uid => obj[o].asks = Asks(pass.chart, o)
    /\ pc = "add" => todo = Object
    /\ pc = "list" =>
         \A o \in Object : obj[o].by = pass.uid => o \in pass.applied \union todo
    /\ pc \in Applying \union {"check"} =>
         \A o \in Object : obj[o].by = pass.uid => o \in pass.applied \union Rendered(pass.chart)

\* A name that was free when it was looked up is still, or was taken since.
OthersInv ==
    /\ pc = "check" =>
         \A o \in Rendered(pass.chart) \ todo : obj[o].by \in {Nobody, pass.uid} \/ o \in late
    /\ pc \in Applying =>
         \A o \in todo : obj[o].by \in {Nobody, pass.uid} \/ o \in late

\* While the kill switch is to go, so is every workload still assigned to the VPN.
DropInv ==
    /\ pc = "drop" => Policy \in todo
    /\ pc \in {"prune", "drop"} /\ Policy \in todo =>
         \A w \in Workload : obj[w].by = pass.uid /\ obj[w].asks = "vpn" => w \in todo

IInv == TypeOK /\ PassInv /\ TodoInv /\ PolicyInv /\ AppliedInv /\ OthersInv /\ DropInv

-----------------------------------------------------------------------------
LEMMA EmptyChart == Empty \in Chart
<1>1. Empty \in [Charted -> {"no", "clear", "vpn"}]
  BY DEF Empty
<1>2. \A o \in Plain : Empty[o] # "vpn"
  BY DEF Empty, Charted
<1> QED BY <1>1, <1>2 DEF Chart

LEMMA TypeInit == Init => TypeOK
<1> SUFFICES ASSUME Init PROVE TypeOK
  OBVIOUS
<1>1. Empty \in Chart
  BY EmptyChart
<1>2. obj \in [Object -> Held]
  BY DEF Init, Held, Gone
<1>3. pass \in Pass
  BY <1>1 DEF Init, Pass, NoPass
<1>4. edits \in 0..MaxEdits /\ faults \in 0..MaxFaults /\ others \in 0..MaxOthers
  BY Bounds DEF Init
<1>5. /\ uid \in used \union {Nobody} /\ used \subseteq Uid /\ chart \in Chart
      /\ suspend \in BOOLEAN /\ finalizer \in BOOLEAN /\ removing \in BOOLEAN
  BY <1>1 DEF Init
<1>6. /\ scaled \subseteq Workload /\ pods \subseteq Workload /\ pc = "idle"
      /\ todo \subseteq Object /\ stale \in BOOLEAN /\ late \subseteq Object
  BY DEF Init
<1> QED BY <1>2, <1>3, <1>4, <1>5, <1>6 DEF TypeOK

\* The ways a pass goes on keep its types.
LEMMA EndPassType == EndPass => pc' = "idle" /\ pass' \in Pass /\ todo' = {} /\ stale' = FALSE /\ late' = {}
<1>1. NoPass \in Pass
  BY EmptyChart DEF NoPass, Pass
<1> QED BY <1>1 DEF EndPass

LEMMA PruneType ==
    ASSUME TypeOK, NEW rest \in SUBSET Object, NEW made \in SUBSET Object, Prune(rest, made)
    PROVE  /\ pc' \in {"idle", "prune"} /\ pass' \in Pass /\ todo' \subseteq Object
           /\ stale' \in BOOLEAN /\ late' \subseteq Object
  BY EndPassType DEF Prune, Go, TypeOK

LEMMA AppliedType ==
    ASSUME TypeOK, NEW rest \in SUBSET Object, NEW made \in SUBSET Object, Applied(rest, made)
    PROVE  /\ pc' \in {"idle", "prune", "apply"} /\ pass' \in Pass /\ todo' \subseteq Object
           /\ stale' \in BOOLEAN /\ late' \subseteq Object
<1>1. Stale \in SUBSET Object
  BY DEF Stale, TypeOK, Pass
<1> QED BY <1>1, PruneType DEF Applied, Go, TypeOK

LEMMA RenderedType == ASSUME NEW c \in Chart PROVE Rendered(c) \in SUBSET Object
  BY DEF Rendered, Object

\* What an apply leaves of an object is one the types know.
LEMMA AskedType ==
    ASSUME NEW c \in Chart, NEW o \in Rendered(c)
    PROVE  Asks(c, o) \in {"clear", "vpn"}
  BY DEF Rendered, Asks, Chart

LEMMA DeleteType ==
    ASSUME TypeOK, NEW o \in Object, DeleteListed(o)
    PROVE  /\ obj' \in [Object -> Held]
           /\ pc' \in {"idle", "prune"} /\ pass' \in Pass /\ todo' \subseteq Object
           /\ stale' \in BOOLEAN /\ late' \subseteq Object
<1>1. obj' \in [Object -> Held]
  BY DEF DeleteListed, TypeOK, Held, Gone
<1>2. todo \ {o} \in SUBSET Object /\ late \in SUBSET Object
  BY DEF TypeOK
<1> QED BY <1>1, <1>2, PruneType, EndPassType DEF DeleteListed

LEMMA WorldType == ASSUME TypeOK, World PROVE TypeOK'
<1>1. CASE CreateAddon
  <2>1. edits' \in 0..MaxEdits
    BY <1>1, Bounds DEF CreateAddon, TypeOK
  <2>2. /\ uid' \in used' \union {Nobody} /\ used' \subseteq Uid /\ chart' \in Chart
        /\ stale' \in BOOLEAN
    BY <1>1 DEF CreateAddon, TypeOK, Outdate
  <2> QED BY <1>1, <2>1, <2>2 DEF CreateAddon, Outdate, TypeOK, rollouts
<1>2. CASE EditAddon
  <2>1. edits' \in 0..MaxEdits
    BY <1>2, Bounds DEF EditAddon, TypeOK
  <2>2. chart' \in Chart
    BY <1>2 DEF EditAddon, TypeOK
  <2>3. suspend' \in BOOLEAN
    <3>1. suspend' = ~suspend \/ suspend' = suspend
      BY <1>2 DEF EditAddon
    <3> QED BY <3>1, Zenon DEF TypeOK
  <2>4. stale' \in BOOLEAN
    BY <1>2 DEF EditAddon, Outdate
  <2> QED BY <1>2, <2>1, <2>2, <2>3, <2>4 DEF EditAddon, Outdate, TypeOK, rollouts
<1>3. CASE RemoveAddon
  <2>1. stale' \in BOOLEAN /\ chart' \in Chart
    BY <1>3, EmptyChart DEF RemoveAddon, AddonGone, Outdate, TypeOK
  <2> QED BY <1>3, <2>1 DEF RemoveAddon, AddonGone, Outdate, TypeOK, rollouts, counts
<1>4. ASSUME NEW o \in Object, CollectGarbage(o) PROVE TypeOK'
  <2>1. obj' \in [Object -> Held]
    BY <1>4 DEF CollectGarbage, TypeOK, Held, Gone
  <2> QED BY <1>4, <2>1 DEF CollectGarbage, TypeOK, addon, rollouts, passing, counts
<1>5. ASSUME NEW o \in Object, OthersMake(o) PROVE TypeOK'
  <2>1. obj' \in [Object -> Held]
    BY <1>5 DEF OthersMake, TypeOK, Held
  <2>2. others' \in 0..MaxOthers
    BY <1>5, Bounds DEF OthersMake, TypeOK
  <2>3. late' \subseteq Object
    BY <1>5 DEF OthersMake, TypeOK
  <2> QED BY <1>5, <2>1, <2>2, <2>3 DEF OthersMake, TypeOK, addon, rollouts
<1>6. ASSUME NEW o \in Object, OthersRemove(o) PROVE TypeOK'
  <2>1. obj' \in [Object -> Held]
    BY <1>6 DEF OthersRemove, TypeOK, Held, Gone
  <2>2. others' \in 0..MaxOthers
    BY <1>6, Bounds DEF OthersRemove, TypeOK
  <2> QED BY <1>6, <2>1, <2>2 DEF OthersRemove, TypeOK, addon, rollouts
<1>7. ASSUME NEW w \in Workload, ScaleUp(w) \/ ScaleDown(w) \/ StartPod(w) \/ StopPod(w)
      PROVE  TypeOK'
  <2>1. scaled' \subseteq Workload /\ pods' \subseteq Workload
    BY <1>7 DEF ScaleUp, ScaleDown, StartPod, StopPod, TypeOK
  <2> QED BY <1>7, <2>1 DEF ScaleUp, ScaleDown, StartPod, StopPod, TypeOK, addon, passing, counts
<1> QED BY <1>1, <1>2, <1>3, <1>4, <1>5, <1>6, <1>7 DEF World

LEMMA TypeStep == TypeOK /\ TodoInv /\ [Next]_vars => TypeOK'
<1> SUFFICES ASSUME TypeOK, TodoInv, [Next]_vars PROVE TypeOK'
  OBVIOUS
<1>1. CASE ReadAddon
  <2>1. pass' \in Pass
    BY <1>1 DEF ReadAddon, TypeOK, Pass
  <2> QED BY <1>1, <2>1 DEF ReadAddon, TypeOK, addon, rollouts, counts
<1>2. CASE AddFinalizer
  BY <1>2 DEF AddFinalizer, TypeOK, rollouts, counts
<1>3. CASE Finalize
  BY <1>3, EndPassType, EmptyChart DEF Finalize, AddonGone, TypeOK, rollouts, counts
<1>4. CASE Conflict
  BY <1>4, EndPassType DEF Conflict, TypeOK, addon, rollouts, counts
<1>5. CASE ListKind
  <2>1. pass' \in Pass
    BY <1>5 DEF ListKind, Inventory, TypeOK, Pass
  <2>2. pc' \in {"list", "check"} /\ todo' \subseteq Object
    BY <1>5, RenderedType DEF ListKind, TypeOK, Pass
  <2> QED BY <1>5, <2>1, <2>2 DEF ListKind, TypeOK, addon, rollouts, counts
<1>6. CASE ApplyPlan
  <2>1. Rendered(pass.chart) \in SUBSET Object /\ late \in SUBSET Object
    BY RenderedType DEF TypeOK, Pass
  <2>2. /\ pc' \in {"idle", "prune", "apply"} /\ pass' \in Pass /\ todo' \subseteq Object
        /\ stale' \in BOOLEAN /\ late' \subseteq Object
    BY <1>6, <2>1, AppliedType, EndPassType DEF ApplyPlan
  <2> QED BY <1>6, <2>2 DEF ApplyPlan, TypeOK, addon, rollouts, counts
<1>7. ASSUME NEW o \in Object, Apply(o) PROVE TypeOK'
  <2>1. o \in Rendered(pass.chart) /\ pass.chart \in Chart /\ pass.uid \in Uid \union {Nobody}
    BY <1>7 DEF Apply, Due, TodoInv, Applying, TypeOK, Pass
  <2>2. obj' \in [Object -> Held]
    BY <1>7, <2>1, AskedType DEF Apply, TypeOK, Held
  <2>3. /\ pc' \in {"idle", "prune", "apply"} /\ pass' \in Pass /\ todo' \subseteq Object
        /\ stale' \in BOOLEAN /\ late' \subseteq Object
    <3>1. todo \ {o} \in SUBSET Object /\ late \ {o} \in SUBSET Object
      BY DEF TypeOK
    <3> QED BY <1>7, <3>1, AppliedType DEF Apply
  <2> QED BY <1>7, <2>2, <2>3 DEF Apply, TypeOK, addon, rollouts, counts
<1>8. ASSUME NEW o \in Object, ApplyRefused(o) PROVE TypeOK'
  BY <1>8, EndPassType DEF ApplyRefused, TypeOK, addon, rollouts, counts
<1>9. ASSUME NEW o \in Object, PruneObject(o) PROVE TypeOK'
  BY <1>9, DeleteType DEF PruneObject, TypeOK, addon, rollouts, counts
<1>10. ASSUME NEW o \in Object, ApplyImmutable(o) PROVE TypeOK'
  BY <1>10 DEF ApplyImmutable, TypeOK, addon, rollouts, counts
<1>11. ASSUME NEW o \in Object, DeleteJob(o) PROVE TypeOK'
  <2>1. obj' \in [Object -> Held]
    BY <1>11 DEF DeleteJob, TypeOK, Held, Gone
  <2> QED BY <1>11, <2>1 DEF DeleteJob, TypeOK, addon, rollouts, counts
<1>12. CASE LookForPods
  <2>1. /\ pc' \in {"idle", "prune", "drop"} /\ pass' \in Pass /\ todo' \subseteq Object
        /\ stale' \in BOOLEAN /\ late' \subseteq Object
    <3>1. todo \ {Policy} \in SUBSET Object /\ late \in SUBSET Object
      BY DEF TypeOK
    <3> QED BY <1>12, <3>1, PruneType DEF LookForPods, Go, TypeOK
  <2> QED BY <1>12, <2>1 DEF LookForPods, TypeOK, addon, rollouts, counts
<1>13. CASE DropPolicy
  <2>1. Policy \in Object
    BY DEF Object
  <2> QED BY <1>13, <2>1, DeleteType DEF DropPolicy, TypeOK, addon, rollouts, counts
<1>14. CASE AbandonPass
  <2>1. faults' \in 0..MaxFaults
    BY <1>14, Bounds DEF AbandonPass, Fault, TypeOK
  <2> QED BY <1>14, <2>1, EndPassType DEF AbandonPass, TypeOK, addon, rollouts
<1>15. CASE World
  BY <1>15, WorldType
<1>16. CASE UNCHANGED vars
  BY <1>16 DEF vars, TypeOK
<1>17. ASSUME NEW o \in Object, CheckName(o) PROVE TypeOK'
  BY <1>17, EndPassType DEF CheckName, Go, TypeOK, addon, rollouts, counts
<1> QED BY <1>1, <1>2, <1>3, <1>4, <1>5, <1>6, <1>7, <1>8, <1>9, <1>10, <1>11, <1>12, <1>13,
           <1>14, <1>15, <1>16, <1>17 DEF Next, Step, Object, Charted, Workload

-----------------------------------------------------------------------------
LEMMA RestInit == Init => PassInv /\ TodoInv /\ PolicyInv /\ AppliedInv /\ OthersInv /\ DropInv
  BY DEF Init, PassInv, TodoInv, PolicyInv, AppliedInv, OthersInv, DropInv, Applying

\* What the world may do beside a pass: of the objects, remove any but the kill
\* switch of this addon, and make new ones, which are noted.
LEMMA WorldStep ==
    ASSUME TypeOK, PassInv, World
    PROVE  /\ pc' = pc /\ pass' = pass /\ todo' = todo
           /\ \A o \in late : o \in late' \/ obj'[o] = Gone
           /\ \A o \in Object :
                \/ obj'[o] = obj[o]
                \/ obj'[o] = Gone /\ (o = Policy => obj[o].by \notin Uid \/ obj[o].by # uid)
                \/ /\ obj[o].by = Nobody /\ obj'[o].by \in {Hand, Other}
                   /\ o \in Checked => o \in late'
<1>1. CASE CreateAddon \/ EditAddon \/ RemoveAddon
  BY <1>1 DEF CreateAddon, EditAddon, RemoveAddon, Outdate
<1>2. ASSUME NEW o \in Object, CollectGarbage(o)
      PROVE  /\ obj' = [obj EXCEPT ![o] = Gone] /\ obj[o].by # uid /\ UNCHANGED passing
  BY <1>2 DEF CollectGarbage
<1>3. ASSUME NEW o \in Object, OthersRemove(o)
      PROVE  /\ obj' = [obj EXCEPT ![o] = Gone] /\ (o = Policy => obj[o].by \notin Uid)
             /\ UNCHANGED <<pc, pass, todo>> /\ late' = late \ {o}
  BY <1>3 DEF OthersRemove
<1>4. ASSUME NEW o \in Object, OthersMake(o)
      PROVE  /\ obj[o].by = Nobody
             /\ \E h \in Held : h.by \in {Hand, Other} /\ obj' = [obj EXCEPT ![o] = h]
             /\ late \subseteq late' /\ (o \in Checked => o \in late')
             /\ UNCHANGED <<pc, pass, todo>>
  BY <1>4 DEF OthersMake, Held
<1>5. ASSUME NEW w \in Workload, ScaleUp(w) \/ ScaleDown(w) \/ StartPod(w) \/ StopPod(w)
      PROVE  UNCHANGED passing /\ obj' = obj
  BY <1>5 DEF ScaleUp, ScaleDown, StartPod, StopPod
<1> QED
  <2>1. ASSUME NEW o \in Object, CollectGarbage(o)
        PROVE  /\ pc' = pc /\ pass' = pass /\ todo' = todo /\ late' = late
               /\ \A p \in Object : obj'[p] = obj[p]
                    \/ (obj'[p] = Gone /\ (p = Policy => obj[p].by # uid))
    BY <2>1, <1>2 DEF TypeOK, passing
  <2>2. ASSUME NEW o \in Object, OthersRemove(o)
        PROVE  /\ pc' = pc /\ pass' = pass /\ todo' = todo
               /\ \A p \in late : p \in late' \/ obj'[p] = Gone
               /\ \A p \in Object : obj'[p] = obj[p]
                    \/ (obj'[p] = Gone /\ (p = Policy => obj[p].by \notin Uid))
    BY <2>2, <1>3 DEF TypeOK
  <2>3. ASSUME NEW o \in Object, OthersMake(o)
        PROVE  /\ pc' = pc /\ pass' = pass /\ todo' = todo /\ late \subseteq late'
               /\ \A p \in Object : obj'[p] = obj[p]
                    \/ /\ obj[p].by = Nobody /\ obj'[p].by \in {Hand, Other}
                       /\ p \in Checked => p \in late'
    BY <2>3, <1>4 DEF TypeOK
  <2>4. ASSUME NEW w \in Workload, ScaleUp(w) \/ ScaleDown(w) \/ StartPod(w) \/ StopPod(w)
        PROVE  pc' = pc /\ pass' = pass /\ todo' = todo /\ late' = late /\ obj' = obj
    BY <2>4, <1>5 DEF passing
  <2> QED BY <1>1, <2>1, <2>2, <2>3, <2>4 DEF World

LEMMA PassStep == IInv /\ [Next]_vars => PassInv'
<1> SUFFICES ASSUME IInv, [Next]_vars PROVE PassInv'
  OBVIOUS
<1> USE DEF IInv
<1>1. CASE ReadAddon
  BY <1>1 DEF ReadAddon, PassInv, TypeOK, addon
<1>2. CASE AddFinalizer
  BY <1>2 DEF AddFinalizer, PassInv
<1>3. CASE Finalize \/ Conflict \/ AbandonPass
  BY <1>3 DEF Finalize, Conflict, AbandonPass, EndPass, PassInv
<1>4. CASE ListKind
  BY <1>4 DEF ListKind, PassInv, TypeOK, Pass, addon
<1>5. CASE ApplyPlan
  BY <1>5 DEF ApplyPlan, Applied, Prune, Go, EndPass, PassInv, addon
<1>6. ASSUME NEW o \in Object, CheckName(o) \/ Apply(o) \/ ApplyRefused(o) \/ PruneObject(o) PROVE PassInv'
  BY <1>6 DEF CheckName, Apply, ApplyRefused, PruneObject, DeleteListed, Applied, Prune, Go, EndPass,
       PassInv, addon
<1>7. ASSUME NEW o \in Job, ApplyImmutable(o) \/ DeleteJob(o) PROVE PassInv'
  BY <1>7 DEF ApplyImmutable, DeleteJob, PassInv, addon
<1>8. CASE LookForPods \/ DropPolicy
  BY <1>8 DEF LookForPods, DropPolicy, DeleteListed, Prune, Go, EndPass, PassInv, addon
<1>9. CASE World
  <2>1. CASE CreateAddon \/ EditAddon \/ RemoveAddon
    BY <1>9, <2>1, Sentinels DEF CreateAddon, EditAddon, RemoveAddon, AddonGone, Outdate,
         PassInv, TypeOK
  <2>2. CASE ~(CreateAddon \/ EditAddon \/ RemoveAddon)
    BY <1>9, <2>2 DEF World, CollectGarbage, OthersMake, OthersRemove, ScaleUp, ScaleDown,
         StartPod, StopPod, addon, passing, PassInv
  <2> QED BY <2>1, <2>2
<1>10. CASE UNCHANGED vars
  BY <1>10 DEF vars, PassInv
<1> QED BY <1>1, <1>2, <1>3, <1>4, <1>5, <1>6, <1>7, <1>8, <1>9, <1>10
        DEF Next, Step, Object, Charted, Workload

ObjInv == TodoInv /\ PolicyInv /\ AppliedInv /\ OthersInv /\ DropInv

\* A pass that ended has nothing to do.
LEMMA IdleObjInv == ASSUME pc' \notin Applying \union {"add", "list", "check", "prune", "drop"} PROVE ObjInv'
  BY DEF ObjInv, TodoInv, PolicyInv, AppliedInv, OthersInv, DropInv, Applying

\* The world keeps what is known of the objects.
LEMMA WorldObjInv == ASSUME IInv, World PROVE ObjInv'
<1> USE DEF IInv
<1>1. /\ pc' = pc /\ pass' = pass /\ todo' = todo
      /\ \A o \in late : o \in late' \/ obj'[o] = Gone
      /\ \A o \in Object :
           \/ obj'[o] = obj[o]
           \/ obj'[o] = Gone /\ (o = Policy => obj[o].by \notin Uid \/ obj[o].by # uid)
           \/ /\ obj[o].by = Nobody /\ obj'[o].by \in {Hand, Other}
              /\ o \in Checked => o \in late'
  BY WorldStep
<1>2. pc \in Applying \union {"list", "check", "prune", "drop"}
        => pass.uid = uid /\ pass.uid \notin {Nobody, Hand, Other} /\ pass.uid \in Uid
  BY Sentinels DEF PassInv, Applying
<1>3. \A o \in Object : pc \in Applying \union {"list", "check", "prune", "drop"} /\ obj'[o].by = pass.uid
        => obj'[o] = obj[o]
  BY <1>1, <1>2 DEF Gone
<1>4. Policy \in Object /\ Workload \subseteq Object /\ todo \subseteq Object
  BY DEF Object, Charted, TypeOK
<1>5. TodoInv'
  BY <1>1 DEF TodoInv
<1>6. PolicyInv'
  BY <1>1, <1>2, <1>4 DEF PolicyInv, Applying
<1>7. AppliedInv'
  <2>1. Rendered(pass.chart) \subseteq Object
    BY RenderedType DEF TypeOK, Pass
  <2> QED BY <1>1, <1>3, <2>1 DEF AppliedInv
<1>8. OthersInv'
  <2>1. SUFFICES ASSUME NEW o,
                        \/ pc = "check" /\ o \in Rendered(pass.chart) \ todo
                        \/ pc \in Applying /\ o \in todo
                 PROVE  obj'[o].by \in {Nobody, pass.uid} \/ o \in late'
    BY <1>1 DEF OthersInv
  <2>2. obj[o].by \in {Nobody, pass.uid} \/ o \in late
    BY <2>1 DEF OthersInv
  <2>3. o \in Object /\ o \in Checked
    BY <1>4, <2>1, RenderedType DEF Applying, Checked, TodoInv, TypeOK, Pass
  <2> QED BY <1>1, <2>2, <2>3 DEF Gone
<1>9. DropInv'
  BY <1>1, <1>3, <1>4 DEF DropInv
<1> QED BY <1>5, <1>6, <1>7, <1>8, <1>9 DEF ObjInv

\* All that was rendered stands as rendered, so what is to be pruned includes
\* every workload assigned to the VPN when it includes the kill switch.
LEMMA PruneStart ==
    ASSUME TypeOK, pc' = "prune", todo' = Stale, pass' = pass,
           \A o \in Rendered(pass.chart) :
              obj'[o].by = pass.uid => obj'[o].asks = Asks(pass.chart, o),
           \A o \in Object : obj'[o].by = pass.uid => o \in pass.applied \union Rendered(pass.chart)
    PROVE  ObjInv'
<1>1. DropInv'
  <2>1. SUFFICES ASSUME Policy \in Stale, NEW w \in Workload,
                        obj'[w].by = pass.uid, obj'[w].asks = "vpn"
                 PROVE  w \in Stale
    BY DEF DropInv
  <2>2. pass.chart[w] # "vpn"
    BY <2>1 DEF Stale, Rendered
  <2>3. w # Policy
    BY NamesDiffer DEF Charted
  <2>4. w \notin Rendered(pass.chart)
    BY <2>1, <2>2, <2>3 DEF Asks
  <2> QED BY <2>1, <2>4 DEF Stale, Object, Charted
<1> QED BY <1>1 DEF ObjInv, TodoInv, PolicyInv, AppliedInv, OthersInv, Applying

LEMMA ApplyObjInv == ASSUME IInv, NEW o \in Object, Apply(o) PROVE ObjInv'
<1> USE DEF IInv
<1>1. /\ pc \in Applying /\ o \in todo /\ pass.uid \in Uid /\ pass.uid # Nobody
      /\ \A p \in todo : Rank(o) <= Rank(p)
  BY Sentinels DEF Apply, Applying, PassInv, Due
<1>2. obj' = [obj EXCEPT ![o] = [by |-> pass.uid, asks |-> Asks(pass.chart, o)]]
  BY DEF Apply
<1>3. obj'[o].by = pass.uid /\ obj'[o].asks = Asks(pass.chart, o)
  BY <1>2 DEF TypeOK
<1>4. \A p \in Object : p # o => obj'[p] = obj[p]
  BY <1>2 DEF TypeOK
<1>5. Rendered(pass.chart) \subseteq Object
  BY RenderedType DEF TypeOK, Pass
<1>6. \A p \in Rendered(pass.chart) \ (todo \ {o}) :
         obj'[p].by = pass.uid => obj'[p].asks = Asks(pass.chart, p)
  BY <1>1, <1>3, <1>4, <1>5 DEF AppliedInv
<1>7. \A p \in Object : obj'[p].by = pass.uid => p \in pass.applied \union Rendered(pass.chart)
  BY <1>1, <1>4 DEF AppliedInv, TodoInv
<1>8. Applied(todo \ {o}, late \ {o})
  BY DEF Apply
<1>9. CASE todo \ {o} # {}
  <2>1. pc' = "apply" /\ todo' = todo \ {o} /\ pass' = pass /\ late' = late \ {o}
    BY <1>8, <1>9 DEF Applied, Go
  <2>2. TodoInv'
    BY <1>1, <2>1 DEF TodoInv
  <2>3. PolicyInv'
    BY <1>1, <1>3, <1>4, <2>1 DEF PolicyInv, Object
  <2>4. AppliedInv'
    BY <1>6, <1>7, <2>1 DEF AppliedInv, Applying
  <2>5. OthersInv'
    BY <1>1, <1>4, <2>1 DEF OthersInv, TypeOK
  <2>6. DropInv'
    BY <2>1 DEF DropInv
  <2> QED BY <2>2, <2>3, <2>4, <2>5, <2>6 DEF ObjInv
<1>10. CASE todo \ {o} = {} /\ Stale # {}
  <2>1. pc' = "prune" /\ todo' = Stale /\ pass' = pass
    BY <1>8, <1>10 DEF Applied, Prune, Go
  <2> QED BY <1>6, <1>7, <1>10, <2>1, PruneStart
<1>11. CASE todo \ {o} = {} /\ Stale = {}
  <2>1. pc' = "idle"
    BY <1>8, <1>11 DEF Applied, Prune, EndPass
  <2> QED BY <2>1, IdleObjInv DEF Applying
<1> QED BY <1>9, <1>10, <1>11

LEMMA ListObjInv == ASSUME IInv, ListKind PROVE ObjInv'
<1> USE DEF IInv
<1>1. PICK kind : kind \subseteq todo
         /\ pass' = [pass EXCEPT !.applied = @ \union (Inventory \intersect kind)]
         /\ IF kind = todo THEN pc' = "check" /\ todo' = Rendered(pass.chart)
                           ELSE pc' = "list" /\ todo' = todo \ kind
  BY DEF ListKind
<1>2. pc = "list" /\ obj' = obj /\ todo \subseteq Object
  BY DEF ListKind, TypeOK
<1>3. /\ pass'.uid = pass.uid /\ pass'.chart = pass.chart
      /\ pass'.applied = pass.applied \union (Inventory \intersect kind)
  BY <1>1 DEF TypeOK, Pass
<1>4. \A o \in Object : obj'[o].by = pass.uid => o \in pass'.applied \union (todo \ kind)
  BY <1>2, <1>3 DEF AppliedInv, Inventory
<1>5. CASE pc' = "list"
  BY <1>1, <1>3, <1>4, <1>5 DEF ObjInv, TodoInv, PolicyInv, AppliedInv, OthersInv, DropInv, Applying
<1>6. CASE pc' = "check"
  BY <1>1, <1>3, <1>4, <1>6 DEF ObjInv, TodoInv, PolicyInv, AppliedInv, OthersInv, DropInv, Applying
<1> QED BY <1>1, <1>5, <1>6

\* Looking a name up leaves it free, the addon's own, or taken since.
LEMMA CheckObjInv == ASSUME IInv, NEW o \in Object, CheckName(o) PROVE ObjInv'
<1> USE DEF IInv
<1>1. CASE pc' = "idle"
  BY <1>1, IdleObjInv DEF Applying
<1>2. CASE pc' # "idle"
  <2>1. /\ pc = "check" /\ pc' = "check" /\ ~Taken(o) /\ todo' = todo \ {o}
        /\ obj' = obj /\ pass' = pass /\ late' = late
    BY <1>2 DEF CheckName, Go, EndPass
  <2>2. OthersInv'
    BY <2>1 DEF OthersInv, Taken, Applying
  <2> QED BY <2>1, <2>2 DEF ObjInv, TodoInv, PolicyInv, AppliedInv, DropInv, Applying
<1> QED BY <1>1, <1>2

LEMMA PlanObjInv == ASSUME IInv, ApplyPlan PROVE ObjInv'
<1> USE DEF IInv
<1>1. /\ pc = "check" /\ todo = {} /\ obj' = obj /\ pass.uid \in Uid
  BY DEF ApplyPlan, PassInv
<1>2. \A o \in Object : obj[o].by = pass.uid => o \in pass.applied \union Rendered(pass.chart)
  BY <1>1 DEF AppliedInv
<1>3. CASE pc' = "idle"
  BY <1>3, IdleObjInv DEF Applying
<1>4. CASE pc' # "idle"
  <2>1. Applied(Rendered(pass.chart), late)
    BY <1>4 DEF ApplyPlan, EndPass
  <2>2. CASE Rendered(pass.chart) # {}
    <3>1. pc' = "apply" /\ todo' = Rendered(pass.chart) /\ pass' = pass /\ late' = late
      BY <2>1, <2>2 DEF Applied, Go
    <3>2. TodoInv' /\ DropInv'
      BY <3>1 DEF TodoInv, DropInv
    <3>3. PolicyInv'
      BY <3>1 DEF PolicyInv, Rendered
    <3>4. AppliedInv'
      BY <1>1, <1>2, <3>1 DEF AppliedInv
    <3>5. OthersInv'
      BY <1>1, <3>1 DEF OthersInv
    <3> QED BY <3>2, <3>3, <3>4, <3>5 DEF ObjInv
  <2>3. CASE Rendered(pass.chart) = {}
    <3>1. pc' = "prune" /\ todo' = Stale /\ pass' = pass
      BY <1>4, <2>1, <2>3 DEF Applied, Prune, Go, EndPass
    <3> QED BY <1>1, <1>2, <2>3, <3>1, PruneStart
  <2> QED BY <2>2, <2>3
<1> QED BY <1>3, <1>4

\* Pruning one object leaves of what is to be pruned all but that one.
LEMMA DeleteObjInv ==
    ASSUME IInv, pc \in {"prune", "drop"}, NEW o \in todo, DeleteListed(o)
    PROVE  ObjInv'
<1> USE DEF IInv
<1>1. o \in Object /\ pass.uid \in Uid
  BY DEF TypeOK, PassInv
<1>2. CASE pc' = "idle"
  BY <1>2, IdleObjInv DEF Applying
<1>3. CASE pc' # "idle"
  <2>1. /\ obj[o].by \in {Nobody, pass.uid} /\ pc' = "prune" /\ todo' = todo \ {o}
        /\ pass' = pass
    BY <1>3 DEF DeleteListed, Prune, Go, EndPass
  <2>2. obj'[o].by # pass.uid /\ \A p \in Object : p # o => obj'[p] = obj[p]
    BY <1>1, <2>1, Sentinels DEF DeleteListed, TypeOK, Gone
  <2>3. DropInv'
    BY <2>1, <2>2 DEF DropInv, Object, Charted
  <2> QED BY <2>1, <2>3 DEF ObjInv, TodoInv, PolicyInv, AppliedInv, OthersInv, Applying
<1> QED BY <1>2, <1>3

LEMMA JobObjInv == ASSUME IInv, NEW o \in Job, ApplyImmutable(o) \/ DeleteJob(o) PROVE ObjInv'
<1> USE DEF IInv
<1>1. CASE ApplyImmutable(o)
  BY <1>1 DEF ApplyImmutable, ObjInv, TodoInv, PolicyInv, AppliedInv, OthersInv, DropInv, Applying
<1>2. CASE DeleteJob(o)
  <2>1. /\ pc = "delete" /\ pc' = "reapply" /\ todo' = todo /\ pass' = pass
        /\ obj' = [obj EXCEPT ![o] = Gone] /\ late' = late \ {o}
    BY <1>2 DEF DeleteJob
  <2>2. o \in Object /\ o # Policy /\ Policy \in Object /\ Rendered(pass.chart) \subseteq Object
    BY NamesDiffer, RenderedType DEF Object, Charted, Workload, TypeOK, Pass
  <2>3. pass.uid # Nobody
    BY <2>1, Sentinels DEF PassInv
  <2>4. obj'[o] = Gone /\ \A p \in Object : p # o => obj'[p] = obj[p]
    BY <2>1, <2>2 DEF TypeOK
  <2>5. TodoInv' /\ DropInv'
    BY <2>1 DEF TodoInv, DropInv, Applying
  <2>6. PolicyInv'
    BY <2>1, <2>2, <2>4 DEF PolicyInv, Applying
  <2>7. AppliedInv'
    BY <2>1, <2>2, <2>3, <2>4 DEF AppliedInv, Applying, Gone
  <2>8. OthersInv'
    BY <2>1, <2>4 DEF OthersInv, Applying, Gone, TypeOK
  <2> QED BY <2>5, <2>6, <2>7, <2>8 DEF ObjInv
<1> QED BY <1>1, <1>2

LEMMA ObjStep == IInv /\ [Next]_vars => ObjInv'
<1> SUFFICES ASSUME IInv, [Next]_vars PROVE ObjInv'
  OBVIOUS
<1>1. CASE ReadAddon \/ AddFinalizer
  <2>1. todo' = Object \/ pc' # "list"
    BY <1>1 DEF ReadAddon, AddFinalizer, IInv, AppliedInv
  <2> QED BY <1>1, <2>1 DEF ReadAddon, AddFinalizer, ObjInv, TodoInv, PolicyInv, AppliedInv,
            OthersInv, DropInv, Applying
<1>2. CASE Finalize \/ Conflict \/ AbandonPass
  BY <1>2, IdleObjInv DEF Finalize, Conflict, AbandonPass, EndPass, Applying
<1>3. CASE ListKind
  BY <1>3, ListObjInv
<1>4. CASE ApplyPlan
  BY <1>4, PlanObjInv
<1>5. ASSUME NEW o \in Object, Apply(o) PROVE ObjInv'
  BY <1>5, ApplyObjInv
<1>6. ASSUME NEW o \in Object, ApplyRefused(o) PROVE ObjInv'
  BY <1>6, IdleObjInv DEF ApplyRefused, EndPass, Applying
<1>7. ASSUME NEW o \in Object, PruneObject(o) PROVE ObjInv'
  BY <1>7, DeleteObjInv DEF PruneObject, Due
<1>8. ASSUME NEW o \in Job, ApplyImmutable(o) \/ DeleteJob(o) PROVE ObjInv'
  BY <1>8, JobObjInv
<1>9. CASE LookForPods
  <2>1. CASE pc' = "idle"
    BY <2>1, IdleObjInv DEF Applying
  <2>2. CASE pc' # "idle"
    <3>1. /\ pc = "prune" /\ pc' \in {"prune", "drop"} /\ obj' = obj /\ pass' = pass
          /\ (todo' = todo /\ Policy \in todo) \/ (Policy \notin todo' /\ pc' = "prune")
      BY <1>9, <2>2 DEF LookForPods, Prune, Go, EndPass, Due
    <3> QED BY <3>1 DEF IInv, ObjInv, TodoInv, PolicyInv, AppliedInv, OthersInv, DropInv, Applying
  <2> QED BY <2>1, <2>2
<1>10. CASE DropPolicy
  <2>1. pc = "drop" /\ Policy \in todo
    BY <1>10 DEF DropPolicy, IInv, DropInv
  <2> QED BY <1>10, <2>1, DeleteObjInv DEF DropPolicy
<1>11. CASE World
  BY <1>11, WorldObjInv
<1>12. CASE UNCHANGED vars
  BY <1>12 DEF vars, IInv, ObjInv, TodoInv, PolicyInv, AppliedInv, OthersInv, DropInv
<1>13. ASSUME NEW o \in Object, CheckName(o) PROVE ObjInv'
  BY <1>13, CheckObjInv
<1> QED BY <1>1, <1>2, <1>3, <1>4, <1>5, <1>6, <1>7, <1>8, <1>9, <1>10, <1>11, <1>12, <1>13
        DEF Next, Step, Object, Charted, Workload

-----------------------------------------------------------------------------
LEMMA Inductive == Spec => []IInv
<1>1. Init => IInv
  BY TypeInit, RestInit DEF IInv
<1>2. IInv /\ [Next]_vars => IInv'
  BY TypeStep, PassStep, ObjStep DEF IInv, ObjInv
<1> QED BY <1>1, <1>2, PTL DEF Spec

\* Every variable of the module keeps its type, the pass included.
THEOREM TypeCorrect == Spec => []TypeOK
<1>1. IInv => TypeOK
  BY DEF IInv
<1> QED BY <1>1, Inductive, PTL

\* The operator neither changes nor deletes what it does not control and found
\* when it checked the names (Collisions, and the UID a prune carries).
THEOREM OthersAreKept == Spec => OthersKept
<1>1. ASSUME IInv, [Next]_vars, Step, NEW o \in Object,
             obj[o].by \in {Hand, Other}, o \notin late
      PROVE  obj'[o] = obj[o]
  <2> USE <1>1 DEF IInv
  <2>1. ASSUME NEW p \in Object, Apply(p) PROVE obj'[o] = obj[o]
    <3>1. p # o
      <4>1. p \in todo /\ pc \in Applying
        BY <2>1 DEF Apply, Due, Applying
      <4> QED BY <4>1, Sentinels DEF OthersInv, PassInv, Applying
    <3> QED BY <2>1, <3>1 DEF Apply, TypeOK
  <2>2. ASSUME NEW p \in Job, DeleteJob(p) PROVE obj'[o] = obj[o]
    <3>1. p # o
      <4>1. p \in todo /\ pc \in Applying
        BY <2>2 DEF DeleteJob, Due, Applying
      <4> QED BY <4>1, Sentinels DEF OthersInv, PassInv, Applying
    <3> QED BY <2>2, <3>1 DEF DeleteJob, TypeOK
  <2>3. ASSUME NEW p \in Object, PruneObject(p) \/ (p = Policy /\ DropPolicy)
        PROVE  obj'[o] = obj[o]
    <3>1. pass.uid \in Uid
      BY <2>3 DEF PruneObject, DropPolicy, PassInv
    <3>2. p = o => obj[p].by # pass.uid
      BY <3>1, Sentinels
    <3> QED BY <2>3, <3>2 DEF PruneObject, DropPolicy, DeleteListed, TypeOK
  <2>4. CASE UNCHANGED obj
    BY <2>4
  <2>5. ASSUME NEW p \in Object, CheckName(p) \/ ApplyRefused(p) \/ ApplyImmutable(p) PROVE UNCHANGED obj
    BY <2>5 DEF CheckName, ApplyRefused, ApplyImmutable
  <2>6. ReadAddon \/ AddFinalizer \/ Finalize \/ Conflict \/ ListKind \/ ApplyPlan
          \/ LookForPods => UNCHANGED obj
    BY DEF ReadAddon, AddFinalizer, Finalize, Conflict, ListKind, ApplyPlan, LookForPods
  <2>7. Policy \in Object /\ Job \subseteq Object
    BY DEF Object, Charted, Workload
  <2> QED BY <2>1, <2>2, <2>3, <2>4, <2>5, <2>6, <2>7 DEF Step, Object
<1>2. IInv /\ [Next]_vars =>
        [\A o \in Object :
            Step /\ obj[o].by \in {Hand, Other} /\ o \notin late => obj'[o] = obj[o]]_vars
  BY <1>1
<1> QED BY <1>2, Inductive, PTL DEF Spec, OthersKept

\* A workload's pods are assigned to the VPN only while its kill switch stands
\* (ApplyOrder).
THEOREM KillSwitchComesFirst == Spec => PolicyFirst
<1>1. ASSUME IInv, [Next]_vars, NEW w \in Workload, InVPN(w)', ~InVPN(w)
      PROVE  obj[Policy].by = obj'[w].by
  <2> USE <1>1 DEF IInv
  <2>1. w \in Object /\ w # Policy /\ Job \subseteq Object /\ Policy \in Object
    BY NamesDiffer DEF Object, Charted, Workload
  <2>2. obj'[w].by \in Uid /\ obj'[w].asks = "vpn" /\ obj'[w] # obj[w]
    BY DEF InVPN
  <2>3. obj'[w] # Gone /\ obj'[w].by \notin {Hand, Other}
    BY <2>2, Sentinels DEF Gone
  <2>4. ASSUME NEW o \in Object, Apply(o) PROVE obj[Policy].by = obj'[w].by
    <3>1. /\ o = w /\ obj' = [obj EXCEPT ![w] = [by |-> pass.uid, asks |-> Asks(pass.chart, w)]]
          /\ w \in todo /\ pc \in Applying /\ \A p \in todo : Rank(w) <= Rank(p)
      BY <2>1, <2>2, <2>4 DEF Apply, Due, Applying, TypeOK
    <3>2. obj'[w].by = pass.uid /\ pass.chart[w] = "vpn"
      BY <2>1, <2>2, <3>1 DEF Asks, TypeOK
    <3>3. Policy \notin todo
      BY <2>1, <3>1, NamesDiffer DEF Rank, Charted, Workload
    <3> QED BY <3>1, <3>2, <3>3 DEF PolicyInv
  <2>5. ASSUME NEW o \in Object, DeleteListed(o) PROVE obj'[w] \in {obj[w], Gone}
    BY <2>1, <2>5 DEF DeleteListed, TypeOK
  <2>6. ASSUME NEW o \in Job, DeleteJob(o) PROVE obj'[w] \in {obj[w], Gone}
    BY <2>1, <2>6 DEF DeleteJob, TypeOK
  <2>7. World => obj'[w] \in {obj[w], Gone} \/ obj'[w].by \in {Hand, Other}
    BY <2>1, WorldStep
  <2>8. ASSUME NEW o \in Object, CheckName(o) \/ ApplyRefused(o) \/ ApplyImmutable(o) PROVE obj' = obj
    BY <2>8 DEF CheckName, ApplyRefused, ApplyImmutable
  <2>9. ReadAddon \/ AddFinalizer \/ Finalize \/ Conflict \/ ListKind \/ ApplyPlan
          \/ LookForPods \/ AbandonPass \/ UNCHANGED vars => obj' = obj
    BY DEF ReadAddon, AddFinalizer, Finalize, Conflict, ListKind, ApplyPlan, LookForPods,
        AbandonPass, vars
  <2> QED BY <2>1, <2>2, <2>3, <2>4, <2>5, <2>6, <2>7, <2>8, <2>9
          DEF Next, Step, Object, PruneObject, DropPolicy
<1>2. IInv /\ [Next]_vars =>
        [\A w \in Workload : InVPN(w)' /\ ~InVPN(w) => obj[Policy].by = obj'[w].by]_vars
  BY <1>1
<1> QED BY <1>2, Inductive, PTL DEF Spec, PolicyFirst

\* The kill switch of a live addon goes only together with every workload still
\* assigned to the VPN (prune).
THEOREM KillSwitchGoesLast == Spec => PolicyLast
<1>1. ASSUME IInv, [Next]_vars, obj[Policy].by = uid, uid # Nobody, obj'[Policy] = Gone,
             NEW w \in Workload, InVPN(w), obj[w].by = uid
      PROVE  w \in todo
  <2> USE <1>1 DEF IInv
  <2>1. uid \in Uid /\ Policy \in Object /\ Job \subseteq Object /\ Policy \notin Job
    BY NamesDiffer DEF Object, Charted, Workload, TypeOK
  <2>2. obj'[Policy] # obj[Policy]
    BY DEF Gone
  <2>3. CASE DropPolicy
    <3>1. pc = "drop" /\ pass.uid = uid
      BY <2>3 DEF DropPolicy, PassInv
    <3> QED BY <3>1 DEF DropInv, InVPN
  <2>4. ASSUME NEW o \in Object, Apply(o) PROVE FALSE
    <3>1. o = Policy /\ obj'[Policy].by = pass.uid
      BY <2>1, <2>2, <2>4 DEF Apply, TypeOK
    <3>2. pass.uid # Nobody
      BY <2>4, Sentinels DEF Apply, PassInv
    <3> QED BY <3>1, <3>2 DEF Gone
  <2>5. ASSUME NEW o \in Object, PruneObject(o) PROVE FALSE
    BY <2>1, <2>2, <2>5 DEF PruneObject, DeleteListed, TypeOK
  <2>6. ASSUME NEW o \in Job, DeleteJob(o) PROVE FALSE
    BY <2>1, <2>2, <2>6 DEF DeleteJob, TypeOK
  <2>7. CASE World
    <3>1. obj'[Policy] = obj[Policy] \/ obj[Policy].by \notin Uid \/ obj[Policy].by # uid
            \/ obj[Policy].by = Nobody
      BY <2>1, <2>7, WorldStep
    <3> QED BY <2>1, <2>2, <3>1
  <2>8. ASSUME NEW o \in Object, CheckName(o) \/ ApplyRefused(o) \/ ApplyImmutable(o) PROVE obj' = obj
    BY <2>8 DEF CheckName, ApplyRefused, ApplyImmutable
  <2>9. ReadAddon \/ AddFinalizer \/ Finalize \/ Conflict \/ ListKind \/ ApplyPlan
          \/ LookForPods \/ AbandonPass \/ UNCHANGED vars => obj' = obj
    BY DEF ReadAddon, AddFinalizer, Finalize, Conflict, ListKind, ApplyPlan, LookForPods,
        AbandonPass, vars
  <2> QED BY <2>1, <2>2, <2>3, <2>4, <2>5, <2>6, <2>7, <2>8, <2>9 DEF Next, Step, Object
<1>2. IInv /\ [Next]_vars =>
        [obj[Policy].by = uid /\ uid # Nobody /\ obj'[Policy] = Gone
            => \A w \in Workload : InVPN(w) /\ obj[w].by = uid => w \in todo]_vars
  BY <1>1
<1> QED BY <1>2, Inductive, PTL DEF Spec, PolicyLast
=============================================================================
