---------------------------- MODULE AddonValues ----------------------------
(***************************************************************************)
(* The Secrets of a ZaentrumAddon's values. The portal writes each one anew *)
(* and then points the addon at it; a pass of the operator collects those   *)
(* nothing refers to, reads and adopts the ones the addon refers to, and    *)
(* makes the generated values; a removal may hand them back; a sweep of its *)
(* own goroutine takes those of addons that do not exist. What an addon     *)
(* owns is garbage once it is gone. Charts and objects are module Addon.    *)
(*                                                                          *)
(* Abstracted: values but for generated ones, a draw of which is only told  *)
(* apart from the value it replaces; time, which is two ages and what is    *)
(* known of them: the portal points at a Secret, and a pass or a sweep that *)
(* began before is over, in less than the grace. An addon refers to Secrets *)
(* the portal wrote for it or that an earlier one handed back, so a Secret  *)
(* has one owner at most; a keep label is not taken off again. The          *)
(* finalizer is on before a removal, as the first pass puts it there.       *)
(***************************************************************************)
EXTENDS Naturals, FiniteSets

CONSTANTS
    Value,          \* names of values Secrets, each generated once
    Generated,      \* the Secret zaentrum-addon-<name>-generated
    Field,          \* properties a chart may have the operator generate
    Charts,         \* the charts there are, each by its set of those
    Uid, Nobody,
    MaxEdits,       \* bound: edits of chart, labels and annotation, keys added by hand
    MaxFaults       \* bound: crashes and failed calls

Name == Value \union {Generated}

ASSUME Sentinels == Generated \notin Value /\ Nobody \notin Uid
ASSUME ChartsOfFields == Charts \subseteq SUBSET Field
ASSUME Bounds == MaxEdits \in Nat /\ MaxFaults \in Nat

VARIABLES
    \* the ZaentrumAddon: the Secrets in valuesFrom, the generated fields of its
    \* chart, whether it asks to keep its values, whether it is being removed
    uid, used, refs, fields, keepValues, removing,
    \* the Secrets' metadata, and the generated one's data
    secret, stored,
    \* the Secret the portal has written and not pointed at yet, and all it wrote
    portal, written,
    \* the pass, and what changed since it read it
    pc, pass, todo, touched, stale,
    \* the sweep: what is left to delete
    doomed,
    \* observer: Secrets that were handed back
    handed,
    edits, faults

addon    == <<uid, used, refs, fields, keepValues, removing>>
secrets  == <<secret, stored>>
writing  == <<portal, written>>
passing  == <<pc, pass, todo, stale>>
counts   == <<edits, faults>>
vars     == <<uid, used, refs, fields, keepValues, removing, secret, stored, portal,
              written, pc, pass, todo, touched, stale, doomed, handed,
              edits, faults>>

-----------------------------------------------------------------------------
\* Ages: "new" is inside the grace of the portal (10 minutes), "aged" is past
\* it, "old" is past that of the sweep (an hour).
Meta   == [there : BOOLEAN, owner : Uid \union {Nobody}, keep : BOOLEAN,
           age : {"new", "aged", "old"}]
Absent == [there |-> FALSE, owner |-> Nobody, keep |-> FALSE, age |-> "new"]
Draws  == [Field -> 0..2]      \* 0: no value
None   == [f \in Field |-> 0]

Pass   == [uid : Uid \union {Nobody}, refs : SUBSET Value, fields : SUBSET Field,
           found : SUBSET Value, due : SUBSET Value, had : BOOLEAN, lacks : SUBSET Field]
NoPass == [uid |-> Nobody, refs |-> {}, fields |-> {}, found |-> {}, due |-> {},
           had |-> FALSE, lacks |-> {}]

Init ==
    /\ uid = Nobody /\ used = {} /\ refs = {} /\ fields = {}
    /\ keepValues = FALSE /\ removing = FALSE
    /\ secret = [s \in Name |-> Absent] /\ stored = None
    /\ portal = {} /\ written = {}
    /\ pc = "idle" /\ pass = NoPass /\ todo = {} /\ touched = {} /\ stale = FALSE
    /\ doomed = {}
    /\ handed = {}
    /\ edits = 0 /\ faults = 0

There(s) == secret[s].there
Edit  == edits < MaxEdits /\ edits' = edits + 1
Fault == faults < MaxFaults /\ faults' = faults + 1

-----------------------------------------------------------------------------
(* The pass *)

EndPass ==
    pc' = "idle" /\ pass' = NoPass /\ todo' = {} /\ touched' = {} /\ stale' = FALSE

\* Reconcile reads the addon, and goes on to finalize one that is being removed.
ReadAddon ==
    /\ pc = "idle" /\ uid # Nobody
    /\ pass' = IF removing THEN [NoPass EXCEPT !.uid = uid]
                ELSE [NoPass EXCEPT !.uid = uid, !.refs = refs, !.fields = fields]
    /\ pc' = IF ~removing THEN "collect" ELSE IF keepValues THEN "keep" ELSE "finalize"
    /\ UNCHANGED <<addon, secrets, writing, todo, touched, stale, doomed, handed, counts>>

\* collectValuesSecrets: of the values Secrets nothing refers to, those past the
\* grace that are no one else's and not kept.
UnreferencedAnyAge ==
    {s \in Value \ pass.refs : /\ There(s) /\ ~secret[s].keep
                               /\ secret[s].owner \in {Nobody, pass.uid}}

UnreferencedKeptToo ==
    {s \in Value \ pass.refs : /\ There(s) /\ secret[s].age # "new"
                               /\ secret[s].owner \in {Nobody, pass.uid}}

UnreferencedUnowned ==
    {s \in Value \ pass.refs : /\ There(s) /\ ~secret[s].keep
                               /\ secret[s].owner = Nobody
                               /\ secret[s].age # "new"}

Unreferenced ==
    {s \in Value \ pass.refs : /\ There(s) /\ ~secret[s].keep
                               /\ secret[s].owner \in {Nobody, pass.uid}
                               /\ secret[s].age # "new"}

ListUnreferenced ==
    /\ pc = "collect"
    /\ todo' = Unreferenced
    /\ pc' = "delete"
    /\ UNCHANGED <<addon, secrets, writing, pass, touched, stale, doomed, handed, counts>>

DeleteUnreferenced(s) ==
    /\ pc = "delete" /\ s \in todo
    /\ secret' = [secret EXCEPT ![s] = Absent]
    /\ todo' = todo \ {s}
    /\ UNCHANGED <<addon, stored, writing, pc, pass, touched, stale, doomed, handed,
                   counts>>

\* valuesSources: a list or a delete that failed ends the collection only. What is
\* read here is what adoptValues judges: due to be patched is a Secret that is owned
\* and kept, or neither.
Misowned(s) == secret[s].keep = (secret[s].owner = pass.uid)

ReadValues ==
    /\ \/ pc = "delete" /\ todo = {} /\ UNCHANGED faults
       \/ pc = "delete" /\ todo # {} /\ Fault
       \/ pc = "collect" /\ Fault
    /\ LET found == {s \in pass.refs : There(s)}
       IN  pass' = [pass EXCEPT !.found = found, !.due = {s \in found : Misowned(s)}]
    /\ pc' = "generate" /\ todo' = {} /\ touched' = {}
    /\ UNCHANGED <<addon, secrets, writing, stale, doomed, handed, edits>>

\* generatedValues reads the Secret, draws what no key has, and creates the
\* Secret or adds the keys with the resourceVersion it read.
Lacks == {f \in pass.fields : stored[f] = 0}

ReadGenerated ==
    /\ pc = "generate"
    /\ IF Lacks # {}
       THEN /\ pass' = [pass EXCEPT !.had = There(Generated), !.lacks = Lacks]
            /\ pc' = "store" /\ todo' = {}
       ELSE pc' = "adopt" /\ todo' = pass.found /\ UNCHANGED pass
    /\ touched' = touched \ {Generated}
    /\ UNCHANGED <<addon, secrets, writing, stale, doomed, handed, counts>>

\* Whether the Secret is as it was read: no write of another is undone.
StillTherePatch == pass.had /\ There(Generated)

StillAsRead == pass.had /\ There(Generated) /\ Generated \notin touched

Drawn(f) == IF stored[f] = 1 THEN 2 ELSE 1

StoreGenerated ==
    /\ pc = "store"
    /\ \/ StillAsRead /\ UNCHANGED secret
       \/ /\ ~pass.had /\ ~There(Generated)
          /\ secret' = [secret EXCEPT ![Generated] = [Absent EXCEPT !.there = TRUE,
                                                                    !.owner = pass.uid]]
    /\ stored' = [f \in Field |-> IF f \in pass.lacks THEN Drawn(f) ELSE stored[f]]
    /\ pass' = [pass EXCEPT !.had = FALSE, !.lacks = {}]
    /\ pc' = "adopt" /\ todo' = pass.found /\ touched' = touched \ {Generated}
    /\ UNCHANGED <<addon, writing, stale, doomed, handed, counts>>

StoreConflict ==
    /\ pc = "store" /\ ~StillAsRead /\ (pass.had \/ There(Generated))
    /\ EndPass
    /\ UNCHANGED <<addon, secrets, writing, doomed, handed, counts>>

\* adoptValues: what the addon refers to is its own, unless it is to be kept. Both
\* are as valuesSources read them, and the patch carries that resourceVersion; what
\* needs no patch is passed over, whatever has become of it.
ReadAsKept(s) == secret[s].keep /\ s \notin touched

Adopt(s) ==
    /\ pc = "adopt" /\ s \in todo
    /\ s \in pass.due => There(s) /\ s \notin touched
    /\ secret' = IF s \in pass.due
                 THEN [secret EXCEPT ![s].owner = IF ReadAsKept(s) THEN Nobody ELSE pass.uid]
                 ELSE secret
    /\ handed' = IF ReadAsKept(s) THEN handed \union ({s} \intersect refs) ELSE handed
    /\ todo' = todo \ {s}
    /\ UNCHANGED <<addon, stored, writing, pc, pass, touched, stale, doomed, counts>>

AdoptConflict(s) ==
    /\ pc = "adopt" /\ s \in todo \intersect pass.due
    /\ ~There(s) \/ s \in touched
    /\ EndPass
    /\ UNCHANGED <<addon, secrets, writing, doomed, handed, counts>>

\* A plan whose values are all there is rendered with the generated ones.
Render ==
    /\ pc = "adopt" /\ todo = {}
    /\ EndPass
    /\ UNCHANGED <<addon, secrets, writing, doomed, handed, counts>>

\* keepValues: owners off and keep on, one Secret at a time and whoever wrote it
\* since; with the namespace or the platform gone nothing is kept.
ListKept ==
    /\ pc = "keep"
    /\ todo' = {s \in Name : There(s)}
    /\ pc' = "label"
    /\ UNCHANGED <<addon, secrets, writing, pass, touched, stale, doomed, handed, counts>>

CannotKeep ==
    /\ pc = "keep"
    /\ pc' = "letgo"
    /\ UNCHANGED <<addon, secrets, writing, pass, todo, touched, stale, doomed, handed,
                   counts>>

Kept(s) == [secret[s] EXCEPT !.keep = TRUE,
                             !.owner = IF secret[s].owner = pass.uid THEN Nobody
                                       ELSE secret[s].owner]

KeepSecret(s) ==
    /\ pc = "label" /\ s \in todo
    /\ IF There(s)
       THEN /\ secret' = [secret EXCEPT ![s] = Kept(s)]
            /\ handed' = handed \union ({s} \intersect refs)
       ELSE UNCHANGED <<secret, handed>>
    /\ todo' = todo \ {s}
    /\ UNCHANGED <<addon, stored, writing, pc, pass, touched, stale, doomed, counts>>

\* The finalizer goes with the resourceVersion that was read: a removal that has
\* changed since is read again.
Finalizing == pc \in {"finalize", "letgo"} \/ (pc = "label" /\ todo = {})

AddonGone ==
    /\ uid' = Nobody /\ refs' = {} /\ fields' = {}
    /\ keepValues' = FALSE /\ removing' = FALSE

FinalizeAnyVersion ==
    /\ Finalizing
    /\ AddonGone /\ EndPass
    /\ UNCHANGED <<used, secrets, writing, doomed, handed, counts>>

Finalize ==
    /\ Finalizing /\ ~stale
    /\ AddonGone /\ EndPass
    /\ UNCHANGED <<used, secrets, writing, doomed, handed, counts>>

FinalizeConflict ==
    /\ Finalizing /\ stale
    /\ EndPass
    /\ UNCHANGED <<addon, secrets, writing, doomed, handed, counts>>

\* A crash or a failed call; one that failed may have taken effect before.
AbandonPass ==
    /\ pc # "idle" /\ Fault
    /\ EndPass
    /\ UNCHANGED <<addon, secrets, writing, doomed, handed, edits>>

Step ==
    \/ ReadAddon \/ ListUnreferenced \/ ReadValues \/ ReadGenerated
    \/ StoreGenerated \/ StoreConflict \/ Render
    \/ ListKept \/ CannotKeep \/ Finalize \/ FinalizeConflict
    \/ \E s \in Value : DeleteUnreferenced(s) \/ Adopt(s) \/ AdoptConflict(s)
    \/ \E s \in Name : KeepSecret(s)

-----------------------------------------------------------------------------
(* SweepOrphanedValues, a goroutine of its own, lists the addons and then the *)
(* Secrets: one that finds the addon leaves all of them, and in between none *)
(* comes to the age of an hour.                                              *)

Unclaimed == {s \in Value : There(s) /\ ~secret[s].keep /\ secret[s].age = "old"}

SweepSecrets ==
    /\ doomed = {} /\ uid = Nobody
    /\ doomed' = Unclaimed
    /\ UNCHANGED <<addon, secrets, writing, passing, touched, handed, counts>>

SweepDelete(s) ==
    /\ s \in doomed
    /\ secret' = [secret EXCEPT ![s] = Absent]
    /\ doomed' = doomed \ {s}
    /\ UNCHANGED <<addon, stored, writing, passing, touched, handed, counts>>

SweepFails ==
    /\ doomed # {} /\ Fault
    /\ doomed' = {}
    /\ UNCHANGED <<addon, secrets, writing, passing, touched, handed, edits>>

Sweep == SweepSecrets \/ \E s \in Value : SweepDelete(s)

-----------------------------------------------------------------------------
(* The world around it *)

\* What the pass read and may write back with the version it read.
Touch(s) == touched' = IF pc \in {"generate", "store", "adopt"} THEN touched \union {s}
                       ELSE touched
Outdate  == stale' = (pc \in {"keep", "label", "finalize", "letgo"}) /\ UNCHANGED <<pc, pass, todo>>

PortalWrite(s) ==
    /\ portal = {} /\ s \notin written
    /\ portal' = {s} /\ written' = written \union {s}
    /\ secret' = [secret EXCEPT ![s] = [Absent EXCEPT !.there = TRUE]]
    /\ UNCHANGED <<addon, stored, passing, touched, doomed, handed, counts>>

PortalPoints ==
    /\ portal # {} /\ uid # Nobody
    /\ refs' = portal /\ portal' = {}
    /\ Outdate
    /\ UNCHANGED <<uid, used, fields, keepValues, removing, secrets, written, touched, doomed,
                   handed, counts>>

PortalDies ==
    /\ portal # {}
    /\ portal' = {}
    /\ UNCHANGED <<addon, secrets, written, passing, touched, doomed, handed, counts>>

\* The portal installs an addon with the Secret it wrote; a user one with Secrets
\* that were handed back, or with none.
CreateAddon ==
    /\ uid = Nobody /\ pc = "idle"
    /\ \E u \in Uid \ used : uid' = u /\ used' = used \union {u}
    /\ \/ portal # {} /\ refs' = portal /\ portal' = {}
       \/ refs' \in SUBSET handed /\ UNCHANGED portal
    /\ fields' \in Charts
    /\ keepValues' = FALSE /\ removing' = FALSE
    /\ UNCHANGED <<secrets, written, passing, touched, doomed, handed, counts>>

EditAddon ==
    /\ uid # Nobody /\ Edit
    /\ \/ fields' \in Charts \ {fields} /\ UNCHANGED keepValues
       \/ keepValues' = ~keepValues /\ UNCHANGED fields
    /\ Outdate
    /\ UNCHANGED <<uid, used, refs, removing, secrets, writing, touched, doomed, handed,
                   faults>>

RemoveAddon ==
    /\ uid # Nobody /\ ~removing
    /\ removing' = TRUE
    /\ Outdate
    /\ UNCHANGED <<uid, used, refs, fields, keepValues, secrets, writing, touched, doomed,
                   handed, counts>>

LabelKeep(s) ==
    /\ There(s) /\ ~secret[s].keep /\ Edit
    /\ secret' = [secret EXCEPT ![s].keep = TRUE]
    /\ Touch(s)
    /\ UNCHANGED <<addon, stored, writing, passing, doomed, handed, faults>>

\* A key added to the generated Secret by hand, or restored to it.
AddKeyByHand(f) ==
    /\ There(Generated) /\ stored[f] = 0 /\ Edit
    /\ stored' = [stored EXCEPT ![f] = Drawn(f)]
    /\ Touch(Generated)
    /\ UNCHANGED <<addon, secret, writing, passing, doomed, handed, faults>>

CollectGarbage(s) ==
    /\ secret[s].owner \in Uid \ {uid}
    /\ secret' = [secret EXCEPT ![s] = Absent]
    /\ stored' = IF s = Generated THEN None ELSE stored
    /\ UNCHANGED <<addon, writing, passing, touched, doomed, handed, counts>>

\* Only what nothing refers to is asked for its age, and only without an addon for
\* more than the first grace. What a portal has just pointed at is inside it, for a
\* pass that read the addon before and a sweep that found none.
Age(s) ==
    /\ There(s) /\ s \notin portal \union refs
    /\ \/ /\ secret[s].age = "new"
          /\ secret' = [secret EXCEPT ![s].age = "aged"]
       \/ /\ secret[s].age = "aged" /\ uid = Nobody
          /\ secret' = [secret EXCEPT ![s].age = "old"]
    /\ UNCHANGED <<addon, stored, writing, passing, touched, doomed, handed, counts>>

World ==
    \/ PortalPoints \/ PortalDies \/ CreateAddon \/ EditAddon \/ RemoveAddon
    \/ \E s \in Value : PortalWrite(s) \/ Age(s) \/ LabelKeep(s)
    \/ \E f \in Field : AddKeyByHand(f)
    \/ \E s \in Name : CollectGarbage(s)

Next == Step \/ AbandonPass \/ Sweep \/ SweepFails \/ World

Spec == Init /\ [][Next]_vars

\* Passes and sweeps recur, garbage is collected, time passes, and a request to
\* the portal ends.
Fairness ==
    /\ WF_vars(Step) /\ WF_vars(Sweep) /\ WF_vars(PortalDies)
    /\ \A s \in Name : WF_vars(CollectGarbage(s))
    /\ \A s \in Value : WF_vars(Age(s))

FairSpec == Spec /\ Fairness

-----------------------------------------------------------------------------
TypeOK ==
    /\ uid \in used \union {Nobody} /\ used \subseteq Uid
    /\ refs \subseteq Value /\ fields \subseteq Field
    /\ keepValues \in BOOLEAN /\ removing \in BOOLEAN
    /\ secret \in [Name -> Meta] /\ stored \in Draws
    /\ \A s \in Name : ~There(s) => secret[s] = Absent
    /\ ~There(Generated) => stored = None
    /\ portal \subseteq written /\ written \subseteq Value
    /\ pc \in {"idle", "collect", "delete", "generate", "store", "adopt", "keep", "label",
               "finalize", "letgo"}
    /\ pass \in Pass /\ todo \subseteq Name /\ touched \subseteq Name /\ stale \in BOOLEAN
    /\ doomed \subseteq Value
    /\ handed \subseteq Value
    /\ edits \in 0..MaxEdits /\ faults \in 0..MaxFaults

\* zaentrumaddon_controller.go:137-145, 178-183: no collection and no sweep takes a
\* Secret from under an addon, however late it acts on what it listed.
ReferencedThere == \A s \in refs : There(s)

\* What was handed back, by its own label or by a removal, is there for good.
HandedStay == \A s \in handed : There(s)

\* README.md:985-987: when an addon removed with keep-values is gone, none of its
\* values and generated Secrets is garbage, whatever was written meanwhile.
HandedBack ==
    [][uid # Nobody /\ uid' = Nobody /\ keepValues /\ pc # "letgo"
        => \A s \in refs \union {Generated} :
               There(s) => secret[s].keep /\ secret[s].owner # uid]_vars

\* zaentrumaddon_controller.go:815-817: a stored value is never drawn again nor
\* overwritten while its Secret stands, whoever adds keys between read and write.
NeverOverwrites ==
    [][\A f \in Field : stored[f] # 0 /\ There(Generated)' => stored'[f] = stored[f]]_vars

\* Nothing is left: of the values Secrets, what no addon refers to goes unless it
\* is kept, what an addon refers to is its own unless it is kept, and generated
\* values go with the addon unless they are kept.
Tidy ==
    <>[](/\ \A s \in Value : There(s) => s \in refs \/ secret[s].keep
         /\ \A s \in refs : secret[s].keep # (secret[s].owner = uid)
         /\ uid = Nobody => ~There(Generated) \/ secret[Generated].keep)
=============================================================================
