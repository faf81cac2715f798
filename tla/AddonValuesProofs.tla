------------------------- MODULE AddonValuesProofs -------------------------
(* Types and safety of module AddonValues, for any Secrets, fields, charts   *)
(* and creations of the addon.                                               *)
EXTENDS AddonValues, TLAPS

\* A pass works on the addon there is: it is gone only through the pass itself.
PassInv ==
    /\ uid = Nobody => refs = {} /\ pc = "idle"
    /\ pc # "idle" => pass.uid = uid
    /\ pc = "idle" => todo = {}
    /\ pc \in {"delete", "adopt"} => todo \subseteq Value

\* What the portal holds, the addon refers to and was handed back.
PortalInv ==
    \A s \in portal : There(s) /\ secret[s].age = "new" /\ secret[s].owner = Nobody

RefsInv == \A s \in refs : There(s) /\ secret[s].owner \in {Nobody, uid}

HandedInv ==
    \A s \in handed : There(s) /\ secret[s].keep /\ secret[s].owner = Nobody

\* A name is written once, so what is listed to be deleted is never written anew.
WrittenInv ==
    /\ \A s \in Value : There(s) => s \in written
    /\ refs \subseteq written /\ handed \subseteq written /\ doomed \subseteq written
    /\ pc = "delete" => todo \subseteq written
    /\ portal \intersect (refs \union handed) = {}

\* What the pass adopts is what the addon it read referred to.
FoundInv ==
    /\ pass.refs \subseteq written /\ pass.refs \intersect portal = {}
    /\ pass.found \subseteq pass.refs
    /\ pc = "adopt" => todo \subseteq pass.found

\* What is not due to be patched is as it should be, unless it changed since.
DueInv ==
    pc \in {"generate", "store", "adopt"} =>
        \A s \in pass.found \ pass.due :
            There(s) /\ s \notin touched => secret[s].keep # (secret[s].owner = uid)

\* What a collection or a sweep is about to delete, no one holds.
Claimed == portal \union refs \union handed

DoomedInv ==
    /\ doomed \intersect Claimed = {}
    /\ pc = "collect" => \A s \in refs \ pass.refs : secret[s].age = "new"
    /\ pc = "delete" => todo \intersect Claimed = {}

\* What a removal that is still as it was read has handed back so far.
KeepInv ==
    /\ pc = "finalize" /\ ~stale => ~keepValues
    /\ pc = "label" /\ ~stale =>
         \A s \in (refs \union {Generated}) \ todo :
            There(s) => secret[s].keep /\ secret[s].owner # uid

\* What the pass is about to add is missing, unless the Secret changed since.
StoreInv ==
    pc = "store" /\ StillAsRead => \A f \in pass.lacks : stored[f] = 0

OwnInv == PortalInv /\ RefsInv /\ HandedInv /\ WrittenInv /\ DoomedInv

IInv == TypeOK /\ PassInv /\ FoundInv /\ DueInv /\ OwnInv /\ KeepInv /\ StoreInv

-----------------------------------------------------------------------------
LEMMA Typed ==
    /\ Absent \in Meta /\ None \in Draws /\ NoPass \in Pass
    /\ Generated \in Name /\ Generated \notin Value /\ Value \subseteq Name
<1>1. Absent \in Meta
  BY DEF Absent, Meta
<1>2. None \in Draws
  BY DEF None, Draws
<1>3. NoPass \in Pass
  BY DEF NoPass, Pass
<1> QED BY <1>1, <1>2, <1>3, Sentinels DEF Name

LEMMA TypeInit == Init => TypeOK
<1> SUFFICES ASSUME Init PROVE TypeOK
  OBVIOUS
<1>1. secret \in [Name -> Meta] /\ \A s \in Name : secret[s] = Absent
  BY Typed DEF Init
<1>2. edits \in 0..MaxEdits /\ faults \in 0..MaxFaults
  BY Bounds DEF Init
<1> QED BY <1>1, <1>2, Typed DEF Init, TypeOK

LEMMA EndPassType ==
    EndPass => pc' = "idle" /\ pass' \in Pass /\ todo' = {} /\ touched' = {} /\ stale' = FALSE
  BY Typed DEF EndPass

\* A Secret that is written, or made absent, is one the types know.
SecretsTyped ==
    /\ secret \in [Name -> Meta] /\ stored \in Draws
    /\ \A s \in Name : ~There(s) => secret[s] = Absent
    /\ ~There(Generated) => stored = None

LEMMA DeleteTyped ==
    ASSUME SecretsTyped, NEW s \in Value, secret' = [secret EXCEPT ![s] = Absent],
           UNCHANGED stored
    PROVE  SecretsTyped'
<1>1. secret' \in [Name -> Meta]
  BY Typed DEF SecretsTyped
<1>2. \A r \in Name : ~There(r)' => secret'[r] = Absent
  BY Typed DEF SecretsTyped, There
<1>3. secret'[Generated] = secret[Generated]
  BY Typed DEF SecretsTyped
<1> QED BY <1>1, <1>2, <1>3 DEF SecretsTyped, There

LEMMA ChangeTyped ==
    ASSUME SecretsTyped, NEW s \in Name, There(s), NEW m \in Meta, m.there,
           secret' = [secret EXCEPT ![s] = m], UNCHANGED stored
    PROVE  SecretsTyped'
<1>1. secret' \in [Name -> Meta]
  BY DEF SecretsTyped
<1>2. \A r \in Name : ~There(r)' => secret'[r] = Absent
  BY DEF SecretsTyped, There
<1>3. ~There(Generated)' => ~There(Generated)
  BY Typed DEF SecretsTyped, There
<1> QED BY <1>1, <1>2, <1>3 DEF SecretsTyped

LEMMA SecretsStep == TypeOK /\ [Next]_vars => SecretsTyped'
<1> SUFFICES ASSUME TypeOK, [Next]_vars PROVE SecretsTyped'
  OBVIOUS
<1>0. SecretsTyped
  BY DEF TypeOK, SecretsTyped
<1>1. CASE UNCHANGED <<secret, stored>>
  BY <1>0, <1>1 DEF SecretsTyped, There
<1>2. ASSUME NEW s \in Value, DeleteUnreferenced(s) \/ SweepDelete(s) PROVE SecretsTyped'
  BY <1>0, <1>2, DeleteTyped DEF DeleteUnreferenced, SweepDelete
<1>3. CASE StoreGenerated
  <2>1. stored' \in Draws
    BY <1>3 DEF StoreGenerated, Drawn, TypeOK, Draws
  <2>2. CASE StillAsRead /\ UNCHANGED secret
    BY <1>0, <2>1, <2>2 DEF SecretsTyped, StillAsRead, There
  <2>3. CASE /\ ~pass.had /\ ~There(Generated)
             /\ secret' = [secret EXCEPT ![Generated] =
                              [Absent EXCEPT !.there = TRUE, !.owner = pass.uid]]
    <3>1. [Absent EXCEPT !.there = TRUE, !.owner = pass.uid] \in Meta
      BY DEF Absent, Meta, TypeOK, Pass
    <3>2. secret' \in [Name -> Meta]
      BY <1>0, <2>3, <3>1 DEF SecretsTyped
    <3>3. There(Generated)'
      BY <1>0, <2>3, Typed DEF SecretsTyped, There, Absent
    <3>4. \A r \in Name : ~There(r)' => secret'[r] = Absent
      BY <1>0, <2>3, <3>3, Typed DEF SecretsTyped, There
    <3> QED BY <2>1, <3>2, <3>3, <3>4 DEF SecretsTyped
  <2> QED BY <1>3, <2>2, <2>3 DEF StoreGenerated
<1>4. ASSUME NEW s \in Value, Adopt(s) PROVE SecretsTyped'
  <2> DEFINE m == [secret[s] EXCEPT !.owner = IF ReadAsKept(s) THEN Nobody ELSE pass.uid]
  <2>1. s \in Name /\ UNCHANGED stored /\ (s \in pass.due => There(s))
    BY <1>4, Typed DEF Adopt
  <2>2. s \in pass.due => m \in Meta /\ m.there
    BY <1>0, <2>1 DEF SecretsTyped, Meta, There, TypeOK, Pass
  <2>3. IF s \in pass.due THEN secret' = [secret EXCEPT ![s] = m] ELSE secret' = secret
    BY <1>4 DEF Adopt
  <2> QED BY <1>0, <1>1, <2>1, <2>2, <2>3, ChangeTyped
<1>5. ASSUME NEW s \in Name, KeepSecret(s) PROVE SecretsTyped'
  <2>1. CASE There(s)
    <3>1. Kept(s) \in Meta /\ Kept(s).there
      BY <1>0, <2>1 DEF SecretsTyped, Meta, There, Kept
    <3> QED BY <1>0, <1>5, <2>1, <3>1, ChangeTyped DEF KeepSecret
  <2> QED BY <1>1, <1>5, <2>1 DEF KeepSecret
<1>6. ASSUME NEW s \in Value, PortalWrite(s) PROVE SecretsTyped'
  <2> DEFINE m == [Absent EXCEPT !.there = TRUE]
  <2>1. m \in Meta /\ m.there
    BY DEF Absent, Meta
  <2>2. secret' \in [Name -> Meta]
    BY <1>0, <1>6, <2>1 DEF PortalWrite, SecretsTyped
  <2>3. \A r \in Name : ~There(r)' => secret'[r] = Absent
    BY <1>0, <1>6, <2>1 DEF PortalWrite, SecretsTyped, There
  <2>4. ~There(Generated)' => ~There(Generated)
    BY <1>0, <1>6, Typed DEF PortalWrite, SecretsTyped, There
  <2> QED BY <1>0, <1>6, <2>2, <2>3, <2>4 DEF PortalWrite, SecretsTyped
<1>7. ASSUME NEW s \in Value, LabelKeep(s) PROVE SecretsTyped'
  <2> DEFINE m == [secret[s] EXCEPT !.keep = TRUE]
  <2>1. m \in Meta /\ m.there /\ There(s) /\ s \in Name
    BY <1>0, <1>7, Typed DEF LabelKeep, SecretsTyped, Meta, There
  <2> QED BY <1>0, <1>7, <2>1, ChangeTyped DEF LabelKeep
<1>8. ASSUME NEW s \in Value, Age(s) PROVE SecretsTyped'
  <2>1. PICK a \in {"aged", "old"} : secret' = [secret EXCEPT ![s].age = a]
    BY <1>8 DEF Age
  <2> DEFINE m == [secret[s] EXCEPT !.age = a]
  <2>2. m \in Meta /\ m.there /\ There(s) /\ s \in Name
    BY <1>0, <1>8, Typed DEF Age, SecretsTyped, Meta, There
  <2> QED BY <1>0, <1>8, <2>1, <2>2, ChangeTyped DEF Age
<1>9. ASSUME NEW f \in Field, AddKeyByHand(f) PROVE SecretsTyped'
  <2>1. stored' \in Draws
    BY <1>0, <1>9 DEF AddKeyByHand, Drawn, SecretsTyped, Draws
  <2> QED BY <1>0, <1>9, <2>1 DEF AddKeyByHand, SecretsTyped, There
<1>10. ASSUME NEW s \in Name, CollectGarbage(s) PROVE SecretsTyped'
  <2>1. secret' \in [Name -> Meta] /\ stored' \in Draws
    BY <1>0, <1>10, Typed DEF CollectGarbage, SecretsTyped
  <2>2. \A r \in Name : ~There(r)' => secret'[r] = Absent
    BY <1>0, <1>10 DEF CollectGarbage, SecretsTyped, There
  <2>3. s # Generated => secret'[Generated] = secret[Generated]
    BY <1>0, <1>10, Typed DEF CollectGarbage, SecretsTyped
  <2> QED BY <1>0, <1>10, <2>1, <2>2, <2>3 DEF CollectGarbage, SecretsTyped, There
<1>11. CASE \/ ReadAddon \/ ListUnreferenced \/ ReadValues \/ ReadGenerated \/ StoreConflict
            \/ Render \/ ListKept \/ CannotKeep \/ Finalize \/ FinalizeConflict
            \/ AbandonPass \/ SweepSecrets \/ SweepFails
            \/ \E s \in Value : AdoptConflict(s)
  BY <1>1, <1>11 DEF ReadAddon, ListUnreferenced, ReadValues, ReadGenerated, StoreConflict,
     Render, ListKept, CannotKeep, Finalize, FinalizeConflict, AbandonPass, SweepSecrets,
     SweepFails, AdoptConflict, secrets
<1>12. CASE PortalPoints \/ PortalDies \/ CreateAddon \/ EditAddon \/ RemoveAddon
  BY <1>1, <1>12 DEF PortalPoints, PortalDies, CreateAddon, EditAddon, RemoveAddon, secrets
<1>13. CASE UNCHANGED vars
  BY <1>1, <1>13 DEF vars
<1> QED BY <1>2, <1>3, <1>4, <1>5, <1>6, <1>7, <1>8, <1>9, <1>10, <1>11, <1>12, <1>13
        DEF Next, Step, Sweep, World

\* The passes that end, and the actions that only move the addon or a counter.
LEMMA TypeStep == TypeOK /\ [Next]_vars => TypeOK'
<1> SUFFICES ASSUME TypeOK, [Next]_vars PROVE TypeOK'
  OBVIOUS
<1>0. /\ SecretsTyped'
      /\ pass \in Pass /\ pass.uid \in Uid \union {Nobody} /\ pass.refs \subseteq Value
      /\ pass.found \subseteq Value
  BY SecretsStep DEF TypeOK, Pass
<1> USE <1>0 DEF SecretsTyped
<1>1. CASE ReadAddon
  <2>1. pass' \in Pass
    BY <1>1 DEF ReadAddon, TypeOK, Pass, NoPass
  <2> QED BY <1>1, <2>1 DEF ReadAddon, TypeOK, addon, writing, counts
<1>2. CASE ListUnreferenced
  BY <1>2, Typed DEF ListUnreferenced, Unreferenced, TypeOK, addon, writing, counts
<1>3. CASE ReadValues
  <2>1. pass' \in Pass
    BY <1>3 DEF ReadValues, TypeOK, Pass
  <2>2. faults' \in 0..MaxFaults
    BY <1>3, Bounds DEF ReadValues, Fault, TypeOK
  <2> QED BY <1>3, <2>1, <2>2 DEF ReadValues, TypeOK, addon, writing
<1>4. CASE ReadGenerated
  <2>1. pass' \in Pass
    <3>1. There(Generated) \in BOOLEAN
      BY Typed DEF TypeOK, There, Meta
    <3>2. Lacks \in SUBSET Field
      BY DEF Lacks, TypeOK, Pass
    <3> QED BY <1>4, <3>1, <3>2 DEF ReadGenerated, TypeOK, Pass
  <2> QED BY <1>4, <2>1, Typed DEF ReadGenerated, TypeOK, addon, writing, counts
<1>5. CASE StoreGenerated
  <2>1. pass' \in Pass
    BY <1>5 DEF StoreGenerated, TypeOK, Pass
  <2> QED BY <1>5, <2>1, Typed DEF StoreGenerated, TypeOK, addon, writing, counts
<1>6. CASE StoreConflict
  BY <1>6, EndPassType DEF StoreConflict, TypeOK, addon, writing, counts
<1>7. CASE Render
  BY <1>7, EndPassType DEF Render, TypeOK, addon, writing, counts
<1>8. CASE ListKept \/ CannotKeep
  BY <1>8 DEF ListKept, CannotKeep, TypeOK, addon, writing, counts
<1>9. CASE Finalize
  BY <1>9, EndPassType DEF Finalize, AddonGone, TypeOK, writing, counts
<1>10. CASE FinalizeConflict
  BY <1>10, EndPassType DEF FinalizeConflict, TypeOK, addon, writing, counts
<1>11. ASSUME NEW s \in Value, DeleteUnreferenced(s) PROVE TypeOK'
  BY <1>11 DEF DeleteUnreferenced, TypeOK, addon, writing, counts
<1>12. ASSUME NEW s \in Value, Adopt(s) PROVE TypeOK'
  <2>1. handed' \subseteq Value
    BY <1>12 DEF Adopt, TypeOK
  <2> QED BY <1>12, <2>1 DEF Adopt, TypeOK, addon, writing, counts
<1>13. ASSUME NEW s \in Value, AdoptConflict(s) PROVE TypeOK'
  BY <1>13, EndPassType DEF AdoptConflict, TypeOK, addon, writing, counts
<1>14. ASSUME NEW s \in Name, KeepSecret(s) PROVE TypeOK'
  <2>1. handed' \subseteq Value
    BY <1>14 DEF KeepSecret, TypeOK
  <2> QED BY <1>14, <2>1 DEF KeepSecret, TypeOK, addon, writing, counts
<1>15. CASE AbandonPass
  <2>1. faults' \in 0..MaxFaults
    BY <1>15, Bounds DEF AbandonPass, Fault, TypeOK
  <2> QED BY <1>15, <2>1, EndPassType DEF AbandonPass, TypeOK, addon, writing
<1>16. CASE SweepSecrets
  BY <1>16 DEF SweepSecrets, Unclaimed, TypeOK, addon, writing, passing, counts
<1>17. ASSUME NEW s \in Value, SweepDelete(s) PROVE TypeOK'
  BY <1>17 DEF SweepDelete, TypeOK, addon, writing, passing, counts
<1>18. CASE SweepFails
  <2>1. faults' \in 0..MaxFaults
    BY <1>18, Bounds DEF SweepFails, Fault, TypeOK
  <2> QED BY <1>18, <2>1 DEF SweepFails, TypeOK, addon, writing, passing
<1>19. CASE PortalPoints
  <2>1. refs' \subseteq Value
    BY <1>19 DEF PortalPoints, TypeOK
  <2> QED BY <1>19, <2>1 DEF PortalPoints, Outdate, TypeOK, counts
<1>20. CASE PortalDies
  BY <1>20 DEF PortalDies, TypeOK, addon, passing, counts
<1>21. CASE CreateAddon
  <2>1. refs' \subseteq Value /\ portal' \subseteq written
    BY <1>21 DEF CreateAddon, TypeOK
  <2>2. fields' \subseteq Field
    BY <1>21, ChartsOfFields DEF CreateAddon
  <2> QED BY <1>21, <2>1, <2>2 DEF CreateAddon, TypeOK, passing, counts
<1>22. CASE EditAddon
  <2>1. edits' \in 0..MaxEdits
    BY <1>22, Bounds DEF EditAddon, Edit, TypeOK
  <2>2. fields' \subseteq Field
    BY <1>22, ChartsOfFields DEF EditAddon, TypeOK
  <2>3. keepValues' \in BOOLEAN
    <3>1. keepValues' = ~keepValues \/ keepValues' = keepValues
      BY <1>22 DEF EditAddon
    <3> QED BY <3>1, Zenon DEF TypeOK
  <2>4. stale' \in BOOLEAN
    BY <1>22 DEF EditAddon, Outdate
  <2> QED BY <1>22, <2>1, <2>2, <2>3, <2>4 DEF EditAddon, Outdate, TypeOK, writing
<1>23. CASE RemoveAddon
  BY <1>23 DEF RemoveAddon, Outdate, TypeOK, writing, counts
<1>24. ASSUME NEW s \in Value, PortalWrite(s) PROVE TypeOK'
  BY <1>24 DEF PortalWrite, TypeOK, addon, passing, counts
<1>25. ASSUME NEW s \in Value, LabelKeep(s) PROVE TypeOK'
  <2>1. edits' \in 0..MaxEdits
    BY <1>25, Bounds DEF LabelKeep, Edit, TypeOK
  <2> QED BY <1>25, <2>1, Typed DEF LabelKeep, Touch, TypeOK, addon, writing, passing
<1>26. ASSUME NEW f \in Field, AddKeyByHand(f) PROVE TypeOK'
  <2>1. edits' \in 0..MaxEdits
    BY <1>26, Bounds DEF AddKeyByHand, Edit, TypeOK
  <2> QED BY <1>26, <2>1, Typed DEF AddKeyByHand, Touch, TypeOK, addon, writing, passing
<1>27. ASSUME NEW s \in Value, Age(s) PROVE TypeOK'
  BY <1>27 DEF Age, TypeOK, addon, writing, passing, counts
<1>28. ASSUME NEW s \in Name, CollectGarbage(s) PROVE TypeOK'
  BY <1>28 DEF CollectGarbage, TypeOK, addon, writing, passing, counts
<1>29. CASE UNCHANGED vars
  BY <1>29 DEF vars, TypeOK, There
<1> QED
  <2>1. CASE Step
    BY <2>1, <1>1, <1>2, <1>3, <1>4, <1>5, <1>6, <1>7, <1>8, <1>9, <1>10, <1>11, <1>12, <1>13,
       <1>14 DEF Step
  <2>2. CASE World
    BY <2>2, <1>19, <1>20, <1>21, <1>22, <1>23, <1>24, <1>25, <1>26, <1>27, <1>28 DEF World
  <2> QED BY <2>1, <2>2, <1>15, <1>16, <1>17, <1>18, <1>29 DEF Next, Sweep

\* Each variable keeps its type, a Secret that is gone says nothing, and without the
\* generated Secret there is no generated value.
THEOREM TypeCorrect == Spec => []TypeOK
  BY TypeInit, TypeStep, PTL DEF Spec

-----------------------------------------------------------------------------
LEMMA PassStep == TypeOK /\ PassInv /\ [Next]_vars => PassInv'
<1> SUFFICES ASSUME TypeOK, PassInv, [Next]_vars PROVE PassInv'
  OBVIOUS
<1>0. pass.refs \subseteq Value /\ pass.found \subseteq Value
  BY DEF TypeOK, Pass
<1>1. CASE Step
  <2>1. CASE ReadAddon
    BY <2>1, <1>0 DEF ReadAddon, PassInv, NoPass, addon
  <2>2. CASE ListUnreferenced
    BY <2>2 DEF ListUnreferenced, Unreferenced, PassInv, addon
  <2>3. CASE ReadValues
    BY <2>3 DEF ReadValues, PassInv, addon, TypeOK, Pass
  <2>4. CASE ReadGenerated
    BY <2>4, <1>0 DEF ReadGenerated, PassInv, addon, TypeOK, Pass
  <2>5. CASE StoreGenerated
    BY <2>5, <1>0 DEF StoreGenerated, PassInv, addon, TypeOK, Pass
  <2>6. CASE StoreConflict \/ Render \/ FinalizeConflict \/ \E s \in Value : AdoptConflict(s)
    BY <2>6 DEF StoreConflict, Render, FinalizeConflict, AdoptConflict, EndPass, PassInv, addon
  <2>7. CASE Finalize
    BY <2>7 DEF Finalize, AddonGone, EndPass, PassInv
  <2>8. CASE ListKept \/ CannotKeep
    BY <2>8 DEF ListKept, CannotKeep, PassInv, addon
  <2>9. ASSUME NEW s \in Value, DeleteUnreferenced(s) \/ Adopt(s) PROVE PassInv'
    BY <2>9 DEF DeleteUnreferenced, Adopt, PassInv, addon
  <2>10. ASSUME NEW s \in Name, KeepSecret(s) PROVE PassInv'
    BY <2>10 DEF KeepSecret, PassInv, addon
  <2> QED BY <1>1, <2>1, <2>2, <2>3, <2>4, <2>5, <2>6, <2>7, <2>8, <2>9, <2>10 DEF Step
<1>2. CASE AbandonPass
  BY <1>2 DEF AbandonPass, EndPass, PassInv, addon
<1>3. CASE Sweep \/ SweepFails
  BY <1>3 DEF Sweep, SweepSecrets, SweepDelete, SweepFails, PassInv, addon, passing
<1>4. CASE World
  <2>1. CASE PortalPoints \/ PortalDies \/ EditAddon \/ RemoveAddon
    BY <2>1 DEF PortalPoints, PortalDies, EditAddon, RemoveAddon, Outdate, PassInv, addon, passing
  <2>2. CASE CreateAddon
    BY <2>2, Sentinels DEF CreateAddon, PassInv, passing
  <2>3. CASE \/ \E s \in Value : PortalWrite(s) \/ Age(s) \/ LabelKeep(s)
             \/ \E f \in Field : AddKeyByHand(f)
             \/ \E s \in Name : CollectGarbage(s)
    BY <2>3 DEF PortalWrite, Age, LabelKeep, AddKeyByHand, CollectGarbage, PassInv, addon, passing
  <2> QED BY <1>4, <2>1, <2>2, <2>3 DEF World
<1>5. CASE UNCHANGED vars
  BY <1>5 DEF vars, PassInv
<1> QED BY <1>1, <1>2, <1>3, <1>4, <1>5 DEF Next

-----------------------------------------------------------------------------
LEMMA OwnInit == Init => PassInv /\ FoundInv /\ DueInv /\ OwnInv /\ KeepInv /\ StoreInv
  BY Typed DEF Init, PassInv, FoundInv, DueInv, NoPass, OwnInv, PortalInv, RefsInv, HandedInv, WrittenInv, DoomedInv, Claimed,
     KeepInv, StoreInv, There, Absent

\* Metadata of the Secrets that are claimed, as an action leaves it.
LEMMA OwnFrame ==
    ASSUME TypeOK, OwnInv, UNCHANGED <<secret, portal, written, refs, handed, uid>>
    PROVE  /\ PortalInv' /\ RefsInv' /\ HandedInv' /\ Claimed' = Claimed
           /\ \A s \in Value : There(s)' => s \in written'
           /\ refs' \subseteq written' /\ handed' \subseteq written'
           /\ portal' \intersect (refs' \union handed') = {}
  BY DEF OwnInv, PortalInv, RefsInv, HandedInv, WrittenInv, There, Claimed

\* A Secret no one claims may go.
LEMMA OwnDelete ==
    ASSUME TypeOK, OwnInv, NEW s \in Name, s \notin Claimed,
           secret' = [secret EXCEPT ![s] = Absent],
           UNCHANGED <<portal, written, refs, handed, uid>>
    PROVE  /\ PortalInv' /\ RefsInv' /\ HandedInv' /\ Claimed' = Claimed
           /\ \A r \in Value : There(r)' => r \in written'
           /\ refs' \subseteq written' /\ handed' \subseteq written'
           /\ portal' \intersect (refs' \union handed') = {}
           /\ \A r \in refs : secret'[r] = secret[r]
<1>1. \A r \in Claimed : secret'[r] = secret[r]
  BY Typed DEF TypeOK, Claimed
<1>2. \A r \in Value : There(r)' => There(r)
  BY Typed DEF TypeOK, There, Absent
<1> QED BY <1>1, <1>2 DEF OwnInv, PortalInv, RefsInv, HandedInv, WrittenInv, There, Claimed

LEMMA FoundStep == TypeOK /\ FoundInv /\ OwnInv /\ [Next]_vars => FoundInv'
<1> SUFFICES ASSUME TypeOK, FoundInv, OwnInv, [Next]_vars PROVE FoundInv'
  OBVIOUS
<1>0. pass \in Pass /\ refs \subseteq written /\ refs \intersect portal = {}
  BY DEF TypeOK, OwnInv, WrittenInv
<1>1. CASE ReadAddon
  BY <1>0, <1>1 DEF ReadAddon, FoundInv, NoPass, writing
<1>2. CASE ListUnreferenced \/ ListKept \/ CannotKeep
  BY <1>2 DEF ListUnreferenced, ListKept, CannotKeep, FoundInv, writing
<1>3. CASE ReadValues
  BY <1>0, <1>3 DEF ReadValues, FoundInv, writing, Pass
<1>4. CASE ReadGenerated
  BY <1>0, <1>4 DEF ReadGenerated, FoundInv, writing, Pass
<1>5. CASE StoreGenerated
  BY <1>0, <1>5 DEF StoreGenerated, FoundInv, writing, Pass
<1>6. CASE \/ StoreConflict \/ Render \/ Finalize \/ FinalizeConflict \/ AbandonPass
           \/ \E s \in Value : AdoptConflict(s)
  BY <1>6 DEF StoreConflict, Render, Finalize, FinalizeConflict, AbandonPass, AdoptConflict, EndPass,
     NoPass, FoundInv, writing
<1>7. ASSUME NEW s \in Name, DeleteUnreferenced(s) \/ Adopt(s) \/ KeepSecret(s) PROVE FoundInv'
  BY <1>7 DEF DeleteUnreferenced, Adopt, KeepSecret, FoundInv, writing
<1>8. CASE Sweep \/ SweepFails
  BY <1>8 DEF Sweep, SweepSecrets, SweepDelete, SweepFails, FoundInv, writing, passing
<1>9. CASE World
  <2>1. ASSUME NEW s \in Value, PortalWrite(s) PROVE FoundInv'
    BY <2>1 DEF PortalWrite, FoundInv, passing
  <2>2. CASE PortalPoints \/ PortalDies \/ CreateAddon \/ EditAddon \/ RemoveAddon
    BY <2>2 DEF PortalPoints, PortalDies, CreateAddon, EditAddon, RemoveAddon, Outdate, FoundInv,
       writing, passing
  <2>3. CASE \/ \E s \in Value : Age(s) \/ LabelKeep(s)
             \/ \E f \in Field : AddKeyByHand(f)
             \/ \E s \in Name : CollectGarbage(s)
    BY <2>3 DEF Age, LabelKeep, AddKeyByHand, CollectGarbage, FoundInv, writing, passing
  <2> QED BY <1>9, <2>1, <2>2, <2>3 DEF World
<1>10. CASE UNCHANGED vars
  BY <1>10 DEF vars, FoundInv
<1> QED BY <1>1, <1>2, <1>3, <1>4, <1>5, <1>6, <1>7, <1>8, <1>9, <1>10, Typed DEF Next, Step

LEMMA DueStep == TypeOK /\ PassInv /\ FoundInv /\ DueInv /\ [Next]_vars => DueInv'
<1> SUFFICES ASSUME TypeOK, PassInv, FoundInv, DueInv, [Next]_vars PROVE DueInv'
  OBVIOUS
<1>0. /\ pass \in Pass /\ pass.found \subseteq Value /\ pass.found \subseteq written
      /\ Value \subseteq Name /\ Generated \notin Value
  BY Typed DEF TypeOK, FoundInv, Pass
<1>1. CASE \/ ReadAddon \/ ListUnreferenced \/ StoreConflict \/ Render \/ ListKept \/ CannotKeep
           \/ Finalize \/ FinalizeConflict \/ AbandonPass \/ CreateAddon
           \/ (\E s \in Value : DeleteUnreferenced(s) \/ AdoptConflict(s))
           \/ (\E s \in Name : KeepSecret(s))
  <2>1. pc' \notin {"generate", "store", "adopt"}
    BY <1>1 DEF ReadAddon, ListUnreferenced, StoreConflict, Render, ListKept, CannotKeep, Finalize,
       FinalizeConflict, AbandonPass, CreateAddon, DeleteUnreferenced, AdoptConflict, KeepSecret,
       EndPass, passing
  <2> QED BY <2>1 DEF DueInv
<1>2. CASE ReadValues
  <2>1. /\ pc # "idle" /\ UNCHANGED <<secret, uid>>
        /\ pass' = [pass EXCEPT !.found = {s \in pass.refs : There(s)},
                               !.due = {s \in {r \in pass.refs : There(r)} : Misowned(s)}]
    BY <1>2 DEF ReadValues, addon, secrets
  <2>2. pass.uid = uid
    BY <2>1 DEF PassInv
  <2>3. \A s \in pass'.found \ pass'.due : ~Misowned(s)
    BY <1>0, <2>1 DEF Pass
  <2> QED BY <2>1, <2>2, <2>3 DEF DueInv, Misowned
\* Nobody writes one that is still as it was read.
<1>3. ASSUME uid' = uid, pass'.found = pass.found, pass'.due = pass.due,
             pc' \in {"generate", "store", "adopt"} => pc \in {"generate", "store", "adopt"},
             \A s \in pass.found \ pass.due :
                There(s)' /\ s \notin touched' =>
                    /\ There(s) /\ s \notin touched
                    /\ secret'[s].keep = secret[s].keep /\ secret'[s].owner = secret[s].owner
      PROVE  DueInv'
  BY <1>3 DEF DueInv
<1>4. CASE ReadGenerated \/ StoreGenerated
  <2>1. /\ uid' = uid /\ pass'.found = pass.found /\ pass'.due = pass.due
        /\ pc \in {"generate", "store", "adopt"}
        /\ touched' = touched \ {Generated}
    BY <1>0, <1>4 DEF ReadGenerated, StoreGenerated, addon, Pass
  <2>2. \A s \in Value : secret'[s] = secret[s]
    BY <1>0, <1>4 DEF ReadGenerated, StoreGenerated, secrets, TypeOK
  <2> QED BY <1>0, <1>3, <2>1, <2>2 DEF There
<1>5. ASSUME NEW s \in Value, Adopt(s) PROVE DueInv'
  <2>1. UNCHANGED <<uid, pass, pc, touched>>
    BY <1>5 DEF Adopt, addon
  <2>2. \A r \in pass.found \ pass.due : secret'[r] = secret[r]
    BY <1>0, <1>5 DEF Adopt, TypeOK
  <2> QED BY <1>3, <2>1, <2>2 DEF There
<1>6. CASE \/ SweepSecrets \/ SweepFails \/ PortalPoints \/ PortalDies \/ EditAddon \/ RemoveAddon
           \/ UNCHANGED vars
  <2>1. UNCHANGED <<uid, pass, pc, touched, secret>>
    BY <1>6 DEF SweepSecrets, SweepFails, PortalPoints, PortalDies, EditAddon, RemoveAddon, Outdate,
       addon, secrets, passing, vars
  <2> QED BY <1>3, <2>1 DEF There
<1>7. ASSUME NEW s \in Name, SweepDelete(s) \/ CollectGarbage(s) PROVE DueInv'
  <2>1. /\ UNCHANGED <<uid, pass, pc, touched>>
        /\ secret' = [secret EXCEPT ![s] = Absent]
    BY <1>7 DEF SweepDelete, CollectGarbage, addon, passing
  <2>2. \A r \in Name : There(r)' => secret'[r] = secret[r] /\ There(r)
    BY <2>1 DEF TypeOK, There, Absent
  <2> QED BY <1>0, <1>3, <2>1, <2>2
<1>8. ASSUME NEW s \in Value, PortalWrite(s) PROVE DueInv'
  <2>1. /\ UNCHANGED <<uid, pass, pc, touched>> /\ s \notin pass.found
        /\ \A r \in Name \ {s} : secret'[r] = secret[r]
    BY <1>0, <1>8 DEF PortalWrite, addon, passing, TypeOK
  <2> QED BY <1>0, <1>3, <2>1 DEF There
<1>9. ASSUME NEW s \in Value, LabelKeep(s) PROVE DueInv'
  <2>1. /\ UNCHANGED <<uid, pass, pc>>
        /\ pc \in {"generate", "store", "adopt"} => touched' = touched \union {s}
        /\ \A r \in Name \ {s} : secret'[r] = secret[r]
    BY <1>0, <1>9 DEF LabelKeep, Touch, addon, passing, TypeOK
  <2> QED BY <1>0, <2>1 DEF DueInv, There
<1>10. ASSUME NEW s \in Value, Age(s) PROVE DueInv'
  <2>1. UNCHANGED <<uid, pass, pc, touched>>
    BY <1>10 DEF Age, addon, passing
  <2>2. PICK a \in {"aged", "old"} : secret' = [secret EXCEPT ![s].age = a]
    BY <1>10 DEF Age
  <2>3. \A r \in Name : /\ secret'[r].there = secret[r].there
                        /\ secret'[r].keep = secret[r].keep /\ secret'[r].owner = secret[r].owner
    BY <1>0, <2>2 DEF TypeOK, Meta
  <2> QED BY <1>0, <1>3, <2>1, <2>3 DEF There
<1>11. ASSUME NEW f \in Field, AddKeyByHand(f) PROVE DueInv'
  <2>1. UNCHANGED <<uid, pass, pc, secret>> /\ touched' \in {touched \union {Generated}, touched}
    BY <1>11 DEF AddKeyByHand, Touch, addon, passing
  <2> QED BY <1>3, <2>1 DEF There
<1> QED
  <2>1. CASE Step
    BY <2>1, <1>1, <1>2, <1>4, <1>5 DEF Step
  <2>2. CASE World
    BY <1>0, <2>2, <1>1, <1>6, <1>7, <1>8, <1>9, <1>10, <1>11 DEF World
  <2> QED BY <1>0, <2>1, <2>2, <1>1, <1>6, <1>7 DEF Next, Sweep

LEMMA OwnStep == TypeOK /\ PassInv /\ FoundInv /\ DueInv /\ OwnInv /\ [Next]_vars => OwnInv'
<1> SUFFICES ASSUME TypeOK, PassInv, FoundInv, DueInv, OwnInv, [Next]_vars PROVE OwnInv'
  OBVIOUS
<1>0. /\ pass.refs \subseteq Value /\ pass.found \subseteq Value
      /\ refs \subseteq Value /\ handed \subseteq Value /\ portal \subseteq Value
      /\ doomed \subseteq Value /\ Value \subseteq Name /\ Generated \notin Value
  BY Typed DEF TypeOK, Pass
<1>1. CASE \/ ReadAddon \/ ReadValues \/ ReadGenerated \/ StoreConflict \/ Render \/ ListKept
           \/ CannotKeep \/ FinalizeConflict \/ AbandonPass
           \/ \E s \in Value : AdoptConflict(s)
  <2>1. UNCHANGED <<secret, portal, written, refs, handed, uid, doomed>>
    BY <1>1 DEF ReadAddon, ReadValues, ReadGenerated, StoreConflict, Render, ListKept, CannotKeep,
       FinalizeConflict, AbandonPass, AdoptConflict, addon, secrets, writing
  <2>2. pc' # "delete"
    BY <1>1 DEF ReadAddon, ReadValues, ReadGenerated, StoreConflict, Render, ListKept, CannotKeep,
       FinalizeConflict, AbandonPass, AdoptConflict, EndPass
  <2>3. pc' = "collect" => pass'.refs = refs
    BY <1>1 DEF ReadAddon, ReadValues, ReadGenerated, StoreConflict, Render, ListKept, CannotKeep,
       FinalizeConflict, AbandonPass, AdoptConflict, EndPass, NoPass
  <2> QED BY <2>1, <2>2, <2>3, OwnFrame DEF OwnInv, WrittenInv, DoomedInv
<1>2. CASE ListUnreferenced
  <2>1. UNCHANGED <<secret, portal, written, refs, handed, uid, doomed>> /\ pc' = "delete"
    BY <1>2 DEF ListUnreferenced, addon, secrets, writing
  <2>2. Unreferenced \subseteq written
    BY DEF OwnInv, WrittenInv, Unreferenced
  <2>3. Unreferenced \intersect Claimed = {}
    BY <1>2 DEF ListUnreferenced, Unreferenced, OwnInv, DoomedInv, PortalInv, HandedInv, Claimed
  <2> QED BY <1>2, <2>1, <2>2, <2>3, OwnFrame DEF ListUnreferenced, OwnInv, WrittenInv, DoomedInv
<1>3. ASSUME NEW s \in Value, DeleteUnreferenced(s) PROVE OwnInv'
  <2>1. s \notin Claimed /\ s \in Name
    BY <1>0, <1>3 DEF DeleteUnreferenced, OwnInv, DoomedInv
  <2>2. /\ secret' = [secret EXCEPT ![s] = Absent]
        /\ UNCHANGED <<portal, written, refs, handed, uid, doomed, pc>>
        /\ pc = "delete" /\ todo' \subseteq todo
    BY <1>3 DEF DeleteUnreferenced, addon, writing
  <2> QED BY <2>1, <2>2, OwnDelete DEF OwnInv, WrittenInv, DoomedInv
<1>4. ASSUME NEW s \in Value, SweepDelete(s) PROVE OwnInv'
  <2>1. s \notin Claimed /\ s \in Name
    BY <1>0, <1>4 DEF SweepDelete, OwnInv, DoomedInv
  <2>2. /\ secret' = [secret EXCEPT ![s] = Absent] /\ doomed' \subseteq doomed
        /\ UNCHANGED <<portal, written, refs, handed, uid, pc, pass, todo>>
    BY <1>4 DEF SweepDelete, addon, writing, passing
  <2> QED BY <2>1, <2>2, OwnDelete DEF OwnInv, WrittenInv, DoomedInv
<1>5. ASSUME NEW s \in Name, CollectGarbage(s) PROVE OwnInv'
  <2>1. s \notin Claimed
    BY <1>5, Sentinels DEF CollectGarbage, OwnInv, PortalInv, RefsInv, HandedInv, Claimed
  <2>2. /\ secret' = [secret EXCEPT ![s] = Absent]
        /\ UNCHANGED <<portal, written, refs, handed, uid, doomed, pc, pass, todo>>
    BY <1>5 DEF CollectGarbage, addon, writing, passing
  <2> QED BY <2>1, <2>2, OwnDelete DEF OwnInv, WrittenInv, DoomedInv
<1>6. CASE SweepSecrets
  <2>1. /\ UNCHANGED <<secret, portal, written, refs, handed, uid, pc, pass, todo>>
        /\ doomed' = Unclaimed /\ refs = {}
    BY <1>6 DEF SweepSecrets, addon, secrets, writing, passing, PassInv
  <2>2. Unclaimed \subseteq written
    BY DEF OwnInv, WrittenInv, Unclaimed
  <2>3. Unclaimed \intersect Claimed = {}
    BY <2>1 DEF Unclaimed, OwnInv, PortalInv, HandedInv, Claimed
  <2> QED BY <2>1, <2>2, <2>3, OwnFrame DEF OwnInv, WrittenInv, DoomedInv
<1>7. CASE SweepFails
  <2>1. /\ UNCHANGED <<secret, portal, written, refs, handed, uid, pc, pass, todo>> /\ doomed' = {}
    BY <1>7 DEF SweepFails, addon, secrets, writing, passing
  <2> QED BY <2>1, OwnFrame DEF OwnInv, WrittenInv, DoomedInv
<1>8. CASE EditAddon \/ RemoveAddon \/ \E f \in Field : AddKeyByHand(f)
  <2>1. UNCHANGED <<secret, portal, written, refs, handed, uid, doomed, pc, pass, todo>>
    BY <1>8 DEF EditAddon, RemoveAddon, AddKeyByHand, Outdate, addon, secrets, writing, passing
  <2> QED BY <2>1, OwnFrame DEF OwnInv, WrittenInv, DoomedInv
<1>9. CASE UNCHANGED vars
  <2>1. UNCHANGED <<secret, portal, written, refs, handed, uid, doomed, pc, pass, todo>>
    BY <1>9 DEF vars
  <2> QED BY <2>1, OwnFrame DEF OwnInv, WrittenInv, DoomedInv
<1>10. CASE StoreGenerated
  <2>1. /\ \A s \in Value : secret'[s] = secret[s]
        /\ UNCHANGED <<portal, written, refs, handed, uid, doomed>> /\ pc' = "adopt"
    BY <1>0, <1>10 DEF StoreGenerated, addon, writing, TypeOK
  <2> QED BY <1>0, <2>1 DEF OwnInv, PortalInv, RefsInv, HandedInv, WrittenInv, DoomedInv, There, Claimed
<1>11. ASSUME NEW s \in Value, Adopt(s) PROVE OwnInv'
  <2>1. /\ \A r \in Value \ {s} : secret'[r] = secret[r]
        /\ secret'[s].there = secret[s].there /\ secret'[s].age = secret[s].age
        /\ secret'[s].keep = secret[s].keep /\ pass.uid = uid
        /\ UNCHANGED <<portal, written, refs, uid, doomed>> /\ pc' = "adopt"
    BY <1>0, <1>11 DEF Adopt, addon, writing, TypeOK, PassInv
  <2>2. s \in pass.found /\ s \notin portal
    BY <1>11 DEF Adopt, FoundInv
  <2>3. secret'[s].owner = IF s \notin pass.due THEN secret[s].owner
                           ELSE IF ReadAsKept(s) THEN Nobody ELSE uid
    BY <1>0, <1>11, <2>1 DEF Adopt, TypeOK, Meta
  <2>4. secret[s].keep \in BOOLEAN
    BY <1>0 DEF TypeOK, Meta
  <2>5. s \in handed => secret'[s].owner = Nobody /\ secret[s].keep
    BY <1>11, <2>1, <2>3 DEF Adopt, ReadAsKept, OwnInv, HandedInv
  <2>6. s \in refs /\ ReadAsKept(s) => secret'[s].owner = Nobody /\ secret[s].keep
    <3> SUFFICES ASSUME s \in refs, ReadAsKept(s), s \notin pass.due
                 PROVE  secret[s].owner = Nobody
      BY <2>3 DEF ReadAsKept
    <3>1. There(s) /\ secret[s].owner \in {Nobody, uid}
      BY DEF OwnInv, RefsInv
    <3>2. secret[s].keep # (secret[s].owner = uid)
      BY <1>11, <2>2, <3>1 DEF Adopt, DueInv, ReadAsKept
    <3> QED BY <2>4, <3>1, <3>2 DEF ReadAsKept
  <2>7. handed' \subseteq handed \union refs /\ (s \in handed' => s \in handed \/ (s \in refs /\ ReadAsKept(s)))
        /\ handed' \ {s} = handed \ {s} /\ handed \subseteq handed'
    BY <1>11 DEF Adopt
  <2>8. PortalInv' /\ RefsInv' /\ HandedInv'
    <3>1. PortalInv'
      BY <1>0, <2>1, <2>2 DEF OwnInv, PortalInv, There
    <3>2. RefsInv'
      BY <1>0, <2>1, <2>3 DEF OwnInv, RefsInv, There
    <3>3. HandedInv'
      BY <1>0, <2>1, <2>5, <2>6, <2>7 DEF OwnInv, HandedInv, RefsInv, There
    <3> QED BY <3>1, <3>2, <3>3
  <2>9. WrittenInv' /\ DoomedInv'
    BY <1>0, <2>1, <2>7 DEF OwnInv, WrittenInv, DoomedInv, Claimed, There
  <2> QED BY <2>8, <2>9 DEF OwnInv
<1>12. ASSUME NEW s \in Name, KeepSecret(s) PROVE OwnInv'
  <2>0. /\ secret' = IF There(s) THEN [secret EXCEPT ![s] = Kept(s)] ELSE secret
        /\ UNCHANGED <<portal, written, refs, uid, doomed>> /\ pc' = "label" /\ pc = "label"
    BY <1>12 DEF KeepSecret, addon, writing
  <2>1. /\ \A r \in Value \ {s} : secret'[r] = secret[r]
        /\ There(s) => secret'[s] = Kept(s)
        /\ ~There(s) => secret'[s] = secret[s]
        /\ secret'[s].there = secret[s].there /\ secret'[s].age = secret[s].age
        /\ pass.uid = uid
        /\ UNCHANGED <<portal, written, refs, uid, doomed>> /\ pc' = "label"
    <3>1. /\ \A r \in Value \ {s} : secret'[r] = secret[r]
          /\ There(s) => secret'[s] = Kept(s)
          /\ ~There(s) => secret'[s] = secret[s]
      BY <1>0, <2>0 DEF TypeOK
    <3>2. Kept(s).there = secret[s].there /\ Kept(s).age = secret[s].age
      BY DEF Kept, TypeOK, Meta
    <3> QED BY <2>0, <3>1, <3>2 DEF PassInv
  <2>2. There(s) =>
          /\ secret'[s].keep
          /\ secret'[s].owner = IF secret[s].owner = uid THEN Nobody ELSE secret[s].owner
    BY <2>1 DEF Kept, TypeOK, Meta
  <2>3. handed' \subseteq handed \union refs /\ (s \in handed' => s \in handed \union refs)
        /\ handed' \ {s} = handed \ {s}
    BY <1>12 DEF KeepSecret
  <2>4. PortalInv' /\ RefsInv'
    BY <1>0, <2>1, <2>2 DEF OwnInv, PortalInv, RefsInv, There
  <2>5. HandedInv'
    <3>1. ASSUME NEW r \in handed', r # s PROVE There(r)' /\ secret'[r].keep /\ secret'[r].owner = Nobody
      BY <1>0, <2>1, <2>3, <3>1 DEF OwnInv, HandedInv, There
    <3>2. ASSUME s \in handed' PROVE There(s)' /\ secret'[s].keep /\ secret'[s].owner = Nobody
      BY <1>0, <2>1, <2>2, <2>3, <3>2 DEF OwnInv, HandedInv, RefsInv, There
    <3> QED BY <3>1, <3>2 DEF HandedInv
  <2>6. WrittenInv' /\ DoomedInv'
    BY <1>0, <2>1, <2>3 DEF OwnInv, WrittenInv, DoomedInv, Claimed, There
  <2> QED BY <2>4, <2>5, <2>6 DEF OwnInv
<1>13. CASE Finalize
  <2>1. /\ UNCHANGED <<secret, portal, written, handed, doomed>> /\ refs' = {} /\ pc' = "idle"
    BY <1>13 DEF Finalize, AddonGone, EndPass, secrets, writing
  <2> QED BY <2>1 DEF OwnInv, PortalInv, RefsInv, HandedInv, WrittenInv, DoomedInv, Claimed, There
<1>14. ASSUME NEW s \in Value, PortalWrite(s) PROVE OwnInv'
  <2>1. /\ s \notin written /\ portal' = {s} /\ written' = written \union {s}
        /\ \A r \in Value \ {s} : secret'[r] = secret[r]
        /\ secret'[s] = [Absent EXCEPT !.there = TRUE]
        /\ UNCHANGED <<refs, handed, uid, doomed, pc, pass, todo>>
    BY <1>0, <1>14 DEF PortalWrite, addon, passing, TypeOK
  <2>2. There(s)' /\ secret'[s].age = "new" /\ secret'[s].owner = Nobody
    BY <2>1 DEF There, Absent
  <2>3. pc = "delete" => s \notin todo
    BY <2>1 DEF OwnInv, WrittenInv
  <2>4. s \notin refs /\ s \notin handed /\ s \notin doomed
    BY <2>1 DEF OwnInv, WrittenInv
  <2>5. PortalInv' /\ RefsInv' /\ HandedInv'
    BY <1>0, <2>1, <2>2, <2>4 DEF OwnInv, PortalInv, RefsInv, HandedInv, There
  <2>6. WrittenInv' /\ DoomedInv'
    BY <1>0, <2>1, <2>3, <2>4 DEF OwnInv, WrittenInv, DoomedInv, Claimed, There
  <2> QED BY <2>5, <2>6 DEF OwnInv
<1>15. CASE PortalPoints
  <2>1. /\ UNCHANGED <<secret, written, handed, uid, doomed, pc, pass, todo>>
        /\ refs' = portal /\ portal' = {}
    BY <1>15 DEF PortalPoints, Outdate, secrets
  <2> QED BY <1>0, <2>1 DEF OwnInv, PortalInv, RefsInv, HandedInv, WrittenInv, DoomedInv, Claimed, There,
             TypeOK
<1>16. CASE PortalDies
  <2>1. /\ UNCHANGED <<secret, written, handed, refs, uid, doomed, pc, pass, todo>> /\ portal' = {}
    BY <1>16 DEF PortalDies, addon, secrets, passing
  <2> QED BY <1>0, <2>1 DEF OwnInv, PortalInv, RefsInv, HandedInv, WrittenInv, DoomedInv, Claimed, There
<1>17. CASE CreateAddon
  <2>1. /\ UNCHANGED <<secret, written, handed, doomed, pc, pass, todo>> /\ pc = "idle"
        /\ \/ refs' = portal /\ portal' = {}
           \/ refs' \subseteq handed /\ portal' = portal
    BY <1>17 DEF CreateAddon, secrets, passing
  <2>2. RefsInv'
    BY <1>0, <2>1 DEF OwnInv, PortalInv, HandedInv, RefsInv, There
  <2> QED BY <1>0, <2>1, <2>2 DEF OwnInv, PortalInv, HandedInv, WrittenInv, DoomedInv, Claimed, There
<1>18. ASSUME NEW s \in Value, LabelKeep(s) PROVE OwnInv'
  <2>1. /\ secret' = [secret EXCEPT ![s].keep = TRUE]
        /\ UNCHANGED <<portal, written, handed, refs, uid, doomed, pc, pass, todo>>
    BY <1>18 DEF LabelKeep, addon, writing, passing
  <2>2. \A r \in Value : /\ secret'[r].there = secret[r].there /\ secret'[r].age = secret[r].age
                         /\ secret'[r].owner = secret[r].owner
                         /\ secret[r].keep => secret'[r].keep
    BY <1>0, <2>1 DEF TypeOK, Meta
  <2> QED BY <1>0, <2>1, <2>2 DEF OwnInv, PortalInv, RefsInv, HandedInv, WrittenInv, DoomedInv, Claimed,
             There
<1>19. ASSUME NEW s \in Value, Age(s) PROVE OwnInv'
  <2>1. PICK a \in {"aged", "old"} : secret' = [secret EXCEPT ![s].age = a]
    BY <1>19 DEF Age
  <2>2. /\ UNCHANGED <<portal, written, handed, refs, uid, doomed, pc, pass, todo>>
        /\ s \notin portal /\ s \notin refs
    BY <1>19 DEF Age, addon, writing, passing
  <2>3. \A r \in Value : /\ secret'[r].there = secret[r].there /\ secret'[r].keep = secret[r].keep
                         /\ secret'[r].owner = secret[r].owner
                         /\ r # s => secret'[r] = secret[r]
    BY <1>0, <2>1 DEF TypeOK, Meta
  <2> QED BY <1>0, <2>2, <2>3 DEF OwnInv, PortalInv, RefsInv, HandedInv, WrittenInv, DoomedInv, Claimed,
             There
<1> QED
  <2>1. CASE Step
    BY <2>1, <1>1, <1>2, <1>3, <1>10, <1>11, <1>12, <1>13 DEF Step
  <2>2. CASE World
    BY <2>2, <1>5, <1>8, <1>14, <1>15, <1>16, <1>17, <1>18, <1>19 DEF World
  <2> QED BY <2>1, <2>2, <1>1, <1>4, <1>6, <1>7, <1>9 DEF Next, Sweep

LEMMA KeepStep == TypeOK /\ PassInv /\ FoundInv /\ OwnInv /\ KeepInv /\ [Next]_vars => KeepInv'
<1> SUFFICES ASSUME TypeOK, PassInv, OwnInv, KeepInv, [Next]_vars PROVE KeepInv'
  OBVIOUS
<1>0. refs \subseteq Value /\ Value \subseteq Name /\ Generated \in Name
  BY Typed DEF TypeOK
\* Most passes are not at a removal's steps.
<1>1. CASE \/ ListUnreferenced \/ ReadValues \/ ReadGenerated \/ StoreGenerated \/ StoreConflict
           \/ Render \/ CannotKeep \/ Finalize \/ FinalizeConflict \/ AbandonPass
           \/ \E s \in Value : DeleteUnreferenced(s) \/ Adopt(s) \/ AdoptConflict(s)
  <2>1. pc' \notin {"finalize", "label"}
    BY <1>1 DEF ListUnreferenced, ReadValues, ReadGenerated, StoreGenerated, StoreConflict, Render,
       CannotKeep, Finalize, FinalizeConflict, AbandonPass, DeleteUnreferenced, Adopt, AdoptConflict,
       EndPass
  <2> QED BY <2>1 DEF KeepInv
<1>2. CASE ReadAddon
  <2>1. pc' # "label" /\ (pc' = "finalize" => ~keepValues')
    BY <1>2 DEF ReadAddon, addon
  <2> QED BY <2>1 DEF KeepInv
<1>3. CASE ListKept
  <2>1. pc' = "label" /\ UNCHANGED <<secret, refs, uid>> /\ todo' = {s \in Name : There(s)}
    BY <1>3 DEF ListKept, addon, secrets
  <2> QED BY <1>0, <2>1 DEF KeepInv, There
<1>4. ASSUME NEW s \in Name, KeepSecret(s) PROVE KeepInv'
  <2>1. /\ pc' = "label" /\ pc = "label" /\ UNCHANGED <<refs, uid, stale>> /\ todo' = todo \ {s}
        /\ secret' = IF There(s) THEN [secret EXCEPT ![s] = Kept(s)] ELSE secret
    BY <1>4 DEF KeepSecret, addon
  <2>2. pass.uid = uid /\ uid # Nobody
    BY <2>1 DEF PassInv
  <2>3. There(s) => secret'[s].keep /\ secret'[s].owner # uid
    BY <2>1, <2>2 DEF Kept, TypeOK, Meta
  <2>4. \A r \in Name \ {s} : secret'[r] = secret[r]
    BY <2>1 DEF TypeOK
  <2>5. There(s)' => There(s)
    BY <2>1 DEF There
  <2> QED BY <1>0, <2>1, <2>3, <2>4, <2>5 DEF KeepInv, There
<1>5. CASE PortalPoints \/ EditAddon \/ RemoveAddon
  <2>1. pc' \in {"finalize", "label"} => stale'
    BY <1>5 DEF PortalPoints, EditAddon, RemoveAddon, Outdate
  <2> QED BY <2>1 DEF KeepInv
<1>6. CASE CreateAddon
  BY <1>6 DEF CreateAddon, passing, KeepInv
\* Who else writes a Secret, of those that are there only makes one kept or gone.
<1>7. ASSUME UNCHANGED <<pc, stale, todo, refs, uid, keepValues>>,
             \A r \in refs \union {Generated} :
                There(r)' => /\ There(r) /\ (secret[r].keep => secret'[r].keep)
                             /\ secret'[r].owner = secret[r].owner
      PROVE  KeepInv'
  BY <1>7 DEF KeepInv
<1>8. CASE SweepSecrets \/ SweepFails \/ PortalDies \/ (\E f \in Field : AddKeyByHand(f))
           \/ UNCHANGED vars
  <2>1. UNCHANGED <<pc, stale, todo, refs, uid, keepValues, secret>>
    BY <1>8 DEF SweepSecrets, SweepFails, PortalDies, AddKeyByHand, addon, secrets, passing, vars
  <2> QED BY <1>7, <2>1 DEF There
<1>9. ASSUME NEW s \in Name, SweepDelete(s) \/ CollectGarbage(s) PROVE KeepInv'
  <2>1. /\ UNCHANGED <<pc, stale, todo, refs, uid, keepValues>>
        /\ secret' = [secret EXCEPT ![s] = Absent]
    BY <1>9 DEF SweepDelete, CollectGarbage, addon, passing
  <2>2. \A r \in Name : There(r)' => secret'[r] = secret[r] /\ There(r)
    BY <2>1 DEF TypeOK, There, Absent
  <2> QED BY <1>0, <1>7, <2>1, <2>2
<1>10. ASSUME NEW s \in Value, PortalWrite(s) PROVE KeepInv'
  <2>1. /\ UNCHANGED <<pc, stale, todo, refs, uid, keepValues>> /\ s \notin refs
        /\ \A r \in Name \ {s} : secret'[r] = secret[r]
    BY <1>10 DEF PortalWrite, addon, passing, TypeOK, OwnInv, WrittenInv
  <2>2. s # Generated
    BY Typed
  <2> QED BY <1>0, <1>7, <2>1, <2>2 DEF There
<1>11. ASSUME NEW s \in Value, LabelKeep(s) \/ Age(s) PROVE KeepInv'
  <2>1. /\ UNCHANGED <<pc, stale, todo, refs, uid, keepValues>>
        /\ \A r \in Name \ {s} : secret'[r] = secret[r]
        /\ s \in Name /\ There(s)
    BY <1>0, <1>11 DEF LabelKeep, Age, addon, passing, TypeOK
  <2>2. secret'[s].owner = secret[s].owner /\ (secret[s].keep => secret'[s].keep)
    BY <1>11, <2>1 DEF LabelKeep, Age, TypeOK, Meta
  <2> QED BY <1>0, <1>7, <2>1, <2>2 DEF There
<1> QED
  <2>1. CASE Step
    BY <2>1, <1>1, <1>2, <1>3, <1>4 DEF Step
  <2>2. CASE World
    BY <2>2, <1>5, <1>6, <1>8, <1>9, <1>10, <1>11 DEF World
  <2> QED BY <1>0, <2>1, <2>2, <1>1, <1>8, <1>9 DEF Next, Sweep

LEMMA StoreStep == TypeOK /\ PassInv /\ StoreInv /\ [Next]_vars => StoreInv'
<1> SUFFICES ASSUME TypeOK, PassInv, StoreInv, [Next]_vars PROVE StoreInv'
  OBVIOUS
<1>1. CASE \/ ReadAddon \/ ListUnreferenced \/ ReadValues \/ StoreGenerated \/ StoreConflict
           \/ Render \/ ListKept \/ CannotKeep \/ Finalize \/ FinalizeConflict \/ AbandonPass
           \/ (\E s \in Value : DeleteUnreferenced(s) \/ Adopt(s) \/ AdoptConflict(s))
           \/ (\E s \in Name : KeepSecret(s))
  <2>1. pc' # "store"
    BY <1>1 DEF ReadAddon, ListUnreferenced, ReadValues, StoreGenerated, StoreConflict, Render,
       ListKept, CannotKeep, Finalize, FinalizeConflict, AbandonPass, DeleteUnreferenced, Adopt,
       AdoptConflict, KeepSecret, EndPass
  <2> QED BY <2>1 DEF StoreInv
<1>2. CASE ReadGenerated
  <2>1. UNCHANGED stored /\ (pc' = "store" => pass'.lacks = Lacks)
    BY <1>2 DEF ReadGenerated, secrets, TypeOK, Pass
  <2> QED BY <2>1 DEF StoreInv, Lacks
\* Nothing else draws or gives up a value, without the Secret being touched or gone.
<1>3. ASSUME UNCHANGED <<pc, pass, stored, touched>>, There(Generated)' => There(Generated)
      PROVE  StoreInv'
  BY <1>3 DEF StoreInv, StillAsRead
<1>4. CASE SweepSecrets \/ SweepFails \/ PortalPoints \/ PortalDies \/ CreateAddon \/ EditAddon
           \/ RemoveAddon \/ UNCHANGED vars
  <2>1. UNCHANGED <<pc, pass, stored, touched, secret>>
    BY <1>4 DEF SweepSecrets, SweepFails, PortalPoints, PortalDies, CreateAddon, EditAddon,
       RemoveAddon, Outdate, secrets, passing, vars
  <2> QED BY <1>3, <2>1 DEF There
<1>5. ASSUME NEW s \in Value, SweepDelete(s) \/ PortalWrite(s) \/ Age(s) PROVE StoreInv'
  <2>1. UNCHANGED <<pc, pass, stored, touched>> /\ secret'[Generated] = secret[Generated]
    BY <1>5, Typed DEF SweepDelete, PortalWrite, Age, passing, TypeOK
  <2> QED BY <1>3, <2>1 DEF There
<1>6. ASSUME NEW s \in Value, LabelKeep(s) PROVE StoreInv'
  <2>1. UNCHANGED <<pc, pass, stored>> /\ secret'[Generated] = secret[Generated]
        /\ touched \subseteq touched'
    BY <1>6, Typed DEF LabelKeep, Touch, passing, TypeOK
  <2> QED BY <2>1 DEF StoreInv, StillAsRead, There
<1>7. ASSUME NEW f \in Field, AddKeyByHand(f) PROVE StoreInv'
  <2>1. UNCHANGED pc /\ (pc = "store" => Generated \in touched')
    BY <1>7 DEF AddKeyByHand, Touch, passing
  <2> QED BY <2>1 DEF StoreInv, StillAsRead
<1>8. ASSUME NEW s \in Name, CollectGarbage(s) PROVE StoreInv'
  <2>1. CASE s = Generated
    <3>1. ~There(Generated)'
      BY <1>8, <2>1, Typed DEF CollectGarbage, TypeOK, There, Absent
    <3> QED BY <3>1 DEF StoreInv, StillAsRead
  <2>2. CASE s # Generated
    <3>1. UNCHANGED <<pc, pass, stored, touched>> /\ secret'[Generated] = secret[Generated]
      BY <1>8, <2>2, Typed DEF CollectGarbage, passing, TypeOK
    <3> QED BY <1>3, <3>1 DEF There
  <2> QED BY <2>1, <2>2
<1> QED
  <2>1. CASE Step
    BY <2>1, <1>1, <1>2 DEF Step
  <2>2. CASE World
    BY <2>2, <1>4, <1>5, <1>6, <1>7, <1>8 DEF World
  <2> QED BY <2>1, <2>2, <1>1, <1>4, <1>5 DEF Next, Sweep

LEMMA Invariant == Spec => []IInv
<1>1. Init => IInv
  BY TypeInit, OwnInit DEF Init, NoPass, IInv, PassInv, FoundInv, DueInv, KeepInv, StoreInv
<1>2. IInv /\ [Next]_vars => IInv'
  BY TypeStep, PassStep, FoundStep, DueStep, OwnStep, KeepStep, StoreStep DEF IInv
<1> QED BY <1>1, <1>2, PTL DEF Spec

-----------------------------------------------------------------------------
\* zaentrumaddon_controller.go:137-145, 178-183: whatever the portal, the addon's
\* author, the passes and the sweep do, what the addon refers to is there.
THEOREM NothingIsTakenAway == Spec => []ReferencedThere
<1>1. IInv => ReferencedThere
  BY DEF IInv, OwnInv, RefsInv, ReferencedThere
<1> QED BY <1>1, Invariant, PTL

\* zaentrumaddon_controller.go:534-545: a Secret that was handed back stays, through any
\* number of removals, creations, collections and sweeps.
THEOREM HandedBackStays == Spec => []HandedStay
<1>1. IInv => HandedStay
  BY DEF IInv, OwnInv, HandedInv, HandedStay
<1> QED BY <1>1, Invariant, PTL

\* Only a removal whose addon is still as it was read ends it.
LEMMA OnlyFinalizeEnds ==
    ASSUME [Next]_vars, uid # Nobody, uid' = Nobody PROVE Finalize
<1>1. CASE Step
  <2> SUFFICES ASSUME UNCHANGED uid PROVE FALSE
    BY <1>1 DEF Step, ReadAddon, ListUnreferenced, ReadValues, ReadGenerated, StoreGenerated,
       StoreConflict, Render, ListKept, CannotKeep, FinalizeConflict, DeleteUnreferenced, Adopt,
       AdoptConflict, KeepSecret, addon
  <2> QED OBVIOUS
<1>2. CASE World
  BY <1>2 DEF World, PortalPoints, PortalDies, CreateAddon, EditAddon, RemoveAddon, PortalWrite,
     Age, LabelKeep, AddKeyByHand, CollectGarbage, addon
<1>3. CASE AbandonPass \/ Sweep \/ SweepFails \/ UNCHANGED vars
  BY <1>3 DEF AbandonPass, Sweep, SweepSecrets, SweepDelete, SweepFails, addon, vars
<1> QED BY <1>1, <1>2, <1>3 DEF Next

\* zaentrumaddon_controller.go:482-509, 534-572: an addon whose removal asks to keep its
\* values goes only when all of them are kept and none is owned by it, although the
\* author, the portal and the garbage collector write in between.
THEOREM KeptBeforeGone == Spec => HandedBack
<1> DEFINE A == uid # Nobody /\ uid' = Nobody /\ keepValues /\ pc # "letgo"
                 => \A s \in refs \union {Generated} :
                      There(s) => secret[s].keep /\ secret[s].owner # uid
<1>1. IInv /\ [Next]_vars => A
  <2> SUFFICES ASSUME IInv, [Next]_vars, uid # Nobody, uid' = Nobody, keepValues, pc # "letgo",
                      NEW s \in refs \union {Generated}, There(s)
               PROVE  secret[s].keep /\ secret[s].owner # uid
    OBVIOUS
  <2>1. Finalizing /\ ~stale
    BY OnlyFinalizeEnds DEF Finalize
  <2>2. pc = "label" /\ todo = {}
    BY <2>1 DEF Finalizing, IInv, KeepInv
  <2> QED BY <2>1, <2>2 DEF IInv, KeepInv
<1>2. IInv /\ [Next]_vars => [A]_vars
  BY <1>1
<1> QED BY <1>2, Invariant, PTL DEF Spec, HandedBack

\* zaentrumaddon_controller.go:815-817: no pass draws again what the generated Secret
\* holds, whoever adds keys to it, deletes or collects it between read and write.
THEOREM ValuesAreKept == Spec => NeverOverwrites
<1> DEFINE A == \A f \in Field : stored[f] # 0 /\ There(Generated)' => stored'[f] = stored[f]
<1>1. IInv /\ [Next]_vars => A
  <2> SUFFICES ASSUME IInv, [Next]_vars, NEW f \in Field, stored[f] # 0, There(Generated)'
               PROVE  stored'[f] = stored[f]
    OBVIOUS
  <2>0. stored \in Draws /\ There(Generated)
    BY DEF IInv, TypeOK, None
  <2>1. CASE StoreGenerated
    <3>1. pc = "store" /\ StillAsRead
      BY <2>0, <2>1 DEF StoreGenerated
    <3>2. f \notin pass.lacks
      BY <3>1 DEF IInv, StoreInv
    <3> QED BY <2>1, <3>2 DEF StoreGenerated
  <2>2. ASSUME NEW g \in Field, AddKeyByHand(g) PROVE stored'[f] = stored[f]
    BY <2>0, <2>2 DEF AddKeyByHand, Draws
  <2>3. ASSUME NEW s \in Name, CollectGarbage(s) PROVE stored'[f] = stored[f]
    <3>1. s # Generated
      BY <2>3 DEF CollectGarbage, There, Absent, IInv, TypeOK
    <3> QED BY <2>3, <3>1 DEF CollectGarbage
  <2>4. CASE Step /\ ~StoreGenerated
    BY <2>4 DEF Step, ReadAddon, ListUnreferenced, ReadValues, ReadGenerated, StoreConflict,
       Render, ListKept, CannotKeep, Finalize, FinalizeConflict, DeleteUnreferenced, Adopt,
       AdoptConflict, KeepSecret, secrets
  <2>5. CASE \/ AbandonPass \/ Sweep \/ SweepFails \/ UNCHANGED vars
             \/ PortalPoints \/ PortalDies \/ CreateAddon \/ EditAddon \/ RemoveAddon
             \/ \E s \in Value : PortalWrite(s) \/ Age(s) \/ LabelKeep(s)
    BY <2>5 DEF AbandonPass, Sweep, SweepSecrets, SweepDelete, SweepFails, PortalPoints, PortalDies,
       CreateAddon, EditAddon, RemoveAddon, PortalWrite, Age, LabelKeep, secrets, vars
  <2> QED BY <2>1, <2>2, <2>3, <2>4, <2>5 DEF Next, World
<1>2. IInv /\ [Next]_vars => [A]_vars
  BY <1>1
<1> QED BY <1>2, Invariant, PTL DEF Spec, NeverOverwrites
=============================================================================
