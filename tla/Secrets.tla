------------------------------- MODULE Secrets -------------------------------
(***************************************************************************)
(* The Secrets the operator keeps when nobody else does (secrets.go), and  *)
(* the self-test's account (verify.go), through the passes that read and   *)
(* write them. Each call of the API server is an action: a person, CI or a *)
(* Helm install may create, fill, change or remove a Secret, and edit the  *)
(* Zaentrum, between any two, and every call may fail or have happened     *)
(* although it reports an error.                                           *)
(*                                                                         *)
(* A value is one of Drawn, what the operator draws or knows to write, or  *)
(* one of Published, what an earlier chart shipped to every install; an    *)
(* empty value is Missing, as the code has it. Every Secret has the same   *)
(* keys. Left out: the label and owner of a Secret apart from "the         *)
(* operator made it", the messages, and what the rest of the pass does.    *)
(***************************************************************************)
EXTENDS Naturals, Sequences

CONSTANTS
    Platform,       \* the platform's Secrets, in the order the pass takes them
    Bundled,        \* those only the bundled Keycloak needs
    Optional,       \* those a feature of the Zaentrum asks for
    Account,        \* zaentrum-verify, the self-test's account
    Key, Drawn, Published, Missing,
    Early,          \* the keys there were when a chart last shipped a Secret
    MaxEdits,       \* bound: what others write, to Secrets and to the Zaentrum
    MaxFaults       \* bound: failed calls and crashes

Names == {Platform[i] : i \in DOMAIN Platform} \union {Account}
Value == Drawn \union Published

ASSUME Shape ==
    /\ Platform \in Seq(Names)
    /\ Account \notin {Platform[i] : i \in DOMAIN Platform}
    /\ Missing \notin Value /\ Early \subseteq Key

ASSUME Bounds == MaxEdits \in Nat /\ MaxFaults \in Nat

VARIABLES
    spec, secret, condition,    \* the API server: the Zaentrum, the Secrets, the condition
    pc, pass,                   \* the pass: where it is, what it knows
    moved, stale, touched,      \* written since the pass read it: the Secret at hand, the
                                \* Zaentrum; and all that others wrote during the pass
    edits, faults

vars == <<spec, secret, condition, pc, pass, moved, stale, touched, edits, faults>>

-----------------------------------------------------------------------------
ZaentrumSpec == [external : BOOLEAN, bundled : BOOLEAN, optional : BOOLEAN]
Secret == [there : BOOLEAN, made : BOOLEAN, data : [Key -> Value \union {Missing}]]
Condition == {"None", "Error", "PublishedDefaults", "Generated", "Provided"}

Absent == [there |-> FALSE, made |-> FALSE, data |-> [k \in Key |-> Missing]]

\* What an earlier chart shipped: published values, for the keys there were then.
Shipped == {[there |-> TRUE, made |-> FALSE,
             data |-> [k \in Key |-> IF k \in known THEN v ELSE Missing]] :
               v \in Published, known \in {Early, Key}}

\* What a pass carries: the spec it read, the next Secret, the one at hand,
\* whether any was not the operator's or held a published value, the condition.
NoPass == [spec |-> [external |-> FALSE, bundled |-> FALSE, optional |-> FALSE], next |-> 1,
           got |-> Absent, provided |-> FALSE, published |-> FALSE, condition |-> "None"]

Init ==
    /\ spec \in ZaentrumSpec /\ ~spec.external
    /\ secret \in [Names -> {Absent} \union Shipped]
    /\ condition = "None"
    /\ pc = "idle" /\ pass = NoPass
    /\ moved = FALSE /\ stale = FALSE /\ touched = {}
    /\ edits = 0 /\ faults = 0

-----------------------------------------------------------------------------
(* What the code reads off a Secret *)

Needed(s, n) == (n \in Bundled => s.bundled) /\ (n \in Optional => s.optional)

Lacks(s) == {k \in Key : s.data[k] = Missing}

HoldsPublished(s) == \E k \in Key : s.data[k] \in Published

\* An Update carries the resourceVersion that was read, a merge patch does not.
PatchRefused == FALSE

UpdateRefused == moved

\* The Secret made new, the Secret filled: whatever is drawn.
Made == {[there |-> TRUE, made |-> TRUE, data |-> d] : d \in [Key -> Drawn]}

Filled(s) == {[s EXCEPT !.data = [k \in Key |-> IF k \in Lacks(s) THEN d[k] ELSE s.data[k]]] :
                 d \in [Key -> Drawn]}

ConclusionKeepsFlag(p) ==
    IF p.published \/ condition = "PublishedDefaults" THEN "PublishedDefaults"
    ELSE IF p.provided THEN "Provided" ELSE "Generated"

Conclusion(p) ==
    IF p.published THEN "PublishedDefaults" ELSE IF p.provided THEN "Provided" ELSE "Generated"

-----------------------------------------------------------------------------
(* The pass *)

Fault == faults < MaxFaults /\ faults' = faults + 1

Current == Platform[pass.next]

EndPass == pc' = "idle" /\ pass' = NoPass /\ moved' = FALSE /\ stale' = FALSE /\ touched' = {}

\* The next Secret's turn; generated says whether the operator is taken to have made it.
Advance(generated, published) ==
    /\ pass' = [pass EXCEPT !.next = @ + 1, !.got = Absent, !.provided = @ \/ ~generated,
                            !.published = @ \/ published]
    /\ pc' = "secrets"

\* ensureSecret returns an error: the condition says so, and the pass is over
\* once that is written.
GiveUp == pass' = [pass EXCEPT !.condition = "Error"] /\ pc' = "give up"

\* With secrets.external they are someone else's and the condition goes.
ReadZaentrum ==
    /\ pc = "idle"
    /\ pass' = [NoPass EXCEPT !.spec = spec, !.condition = IF spec.external THEN "None" ELSE condition]
    /\ pc' = IF spec.external THEN "apply" ELSE "secrets"
    /\ UNCHANGED <<spec, secret, condition, moved, stale, touched, edits, faults>>

SkipSecret ==
    /\ pc = "secrets" /\ pass.next <= Len(Platform) /\ ~Needed(pass.spec, Current)
    /\ pass' = [pass EXCEPT !.next = @ + 1]
    /\ UNCHANGED <<spec, secret, condition, pc, moved, stale, touched, edits, faults>>

\* The defect of taking any failed read for a Secret that is not there.
ReadSecretOrNone ==
    /\ pc = "secrets" /\ pass.next <= Len(Platform) /\ Needed(pass.spec, Current)
    /\ \/ pass' = [pass EXCEPT !.got = Absent] /\ Fault
       \/ pass' = [pass EXCEPT !.got = secret[Current]] /\ UNCHANGED faults
    /\ pc' = "keep" /\ moved' = FALSE
    /\ UNCHANGED <<spec, secret, condition, stale, touched, edits>>

ReadSecret ==
    /\ pc = "secrets" /\ pass.next <= Len(Platform) /\ Needed(pass.spec, Current)
    /\ \/ GiveUp /\ UNCHANGED moved /\ Fault
       \/ /\ pass' = [pass EXCEPT !.got = secret[Current]]
          /\ pc' = "keep" /\ moved' = FALSE
          /\ UNCHANGED faults
    /\ UNCHANGED <<spec, secret, condition, stale, touched, edits>>

\* Create leaves a Secret someone else made meanwhile as it is.
CreateAbsent(n) ==
    IF secret[n].there THEN UNCHANGED secret
    ELSE \E s \in Made : secret' = [secret EXCEPT ![n] = s]

UpdateRead(n) ==
    \E s \in Filled(pass.got) : secret' = [secret EXCEPT ![n] = s]

\* There was none: it is made. One made meanwhile counts as the operator's.
MakeSecret ==
    /\ pc = "keep" /\ ~pass.got.there
    /\ \/ CreateAbsent(Current) /\ Advance(TRUE, FALSE) /\ UNCHANGED faults
       \/ (CreateAbsent(Current) \/ UNCHANGED secret) /\ GiveUp /\ Fault
    /\ UNCHANGED <<spec, condition, moved, stale, touched, edits>>

\* Keys are missing: they are filled in, unless the Secret was written since.
FillSecret ==
    /\ pc = "keep" /\ pass.got.there /\ Lacks(pass.got) # {}
    /\ \/ /\ ~UpdateRefused
          /\ UpdateRead(Current) /\ Advance(pass.got.made, HoldsPublished(pass.got))
          /\ UNCHANGED faults
       \/ UpdateRefused /\ UNCHANGED secret /\ GiveUp /\ UNCHANGED faults
       \/ ((~UpdateRefused /\ UpdateRead(Current)) \/ UNCHANGED secret) /\ GiveUp /\ Fault
    /\ UNCHANGED <<spec, condition, moved, stale, touched, edits>>

\* Nothing is missing.
KeepSecret ==
    /\ pc = "keep" /\ pass.got.there /\ Lacks(pass.got) = {}
    /\ Advance(pass.got.made, HoldsPublished(pass.got))
    /\ UNCHANGED <<spec, secret, condition, moved, stale, touched, edits, faults>>

ConcludeSecrets ==
    /\ pc = "secrets" /\ pass.next > Len(Platform)
    /\ pass' = [pass EXCEPT !.condition = Conclusion(pass)]
    /\ pc' = "apply"
    /\ UNCHANGED <<spec, secret, condition, moved, stale, touched, edits, faults>>

\* The platform is applied. A verification run that starts wants its account.
Apply ==
    /\ pc = "apply"
    /\ \/ pc' \in {"account", "write"} /\ UNCHANGED faults
       \/ pc' = "give up" /\ Fault
    /\ UNCHANGED <<spec, secret, condition, pass, moved, stale, touched, edits>>

\* ensureVerifyAccount: what fails here fails the run's start, not the pass.
ReadAccount ==
    /\ pc = "account"
    /\ \/ pc' = "write" /\ UNCHANGED <<pass, moved>> /\ Fault
       \/ /\ pass' = [pass EXCEPT !.got = secret[Account]]
          /\ pc' = "keep account" /\ moved' = FALSE
          /\ UNCHANGED faults
    /\ UNCHANGED <<spec, secret, condition, stale, touched, edits>>

\* A Secret that carries the operator's label and owner.
GeneratedAccount(s) == s.there /\ s.made

MakeAccount ==
    /\ ~pass.got.there /\ pass.spec.bundled
    /\ \/ CreateAbsent(Account) /\ UNCHANGED faults
       \/ UNCHANGED secret /\ Fault

FillAccount ==
    /\ pass.got.there /\ pass.spec.bundled /\ Lacks(pass.got) # {}
    /\ \/ ~UpdateRefused /\ UpdateRead(Account) /\ UNCHANGED faults
       \/ UpdateRefused /\ UNCHANGED secret /\ UNCHANGED faults
       \/ UNCHANGED secret /\ Fault

\* The delete names no UID and no version: what is there by then goes.
RemoveAccount ==
    /\ GeneratedAccount(pass.got) /\ ~pass.spec.bundled
    /\ \/ secret' = [secret EXCEPT ![Account] = Absent] /\ UNCHANGED faults
       \/ UNCHANGED secret /\ Fault

LeaveAccount ==
    /\ \/ pass.spec.bundled /\ pass.got.there /\ Lacks(pass.got) = {}
       \/ ~pass.spec.bundled /\ ~GeneratedAccount(pass.got)
    /\ UNCHANGED <<secret, faults>>

KeepAccount ==
    /\ pc = "keep account"
    /\ MakeAccount \/ FillAccount \/ RemoveAccount \/ LeaveAccount
    /\ pc' = "write"
    /\ UNCHANGED <<spec, condition, pass, moved, stale, touched, edits>>

\* The status goes back with the resourceVersion it was read at; a pass that
\* gave up writes its condition all the same.
WriteStatus ==
    /\ pc \in {"write", "give up"}
    /\ condition' = IF stale THEN condition ELSE pass.condition
    /\ EndPass
    /\ UNCHANGED <<spec, secret, edits, faults>>

AbandonPass ==
    /\ pc # "idle"
    /\ Fault
    /\ EndPass
    /\ UNCHANGED <<spec, secret, condition, edits>>

Pass ==
    \/ ReadZaentrum
    \/ SkipSecret \/ ReadSecret \/ MakeSecret \/ FillSecret \/ KeepSecret \/ ConcludeSecrets
    \/ Apply
    \/ ReadAccount \/ KeepAccount
    \/ WriteStatus

-----------------------------------------------------------------------------
(* Around the pass: a person, CI, a Helm install *)

Edit == edits < MaxEdits /\ edits' = edits + 1

EditZaentrum(s) ==
    /\ s # spec /\ spec' = s
    /\ stale' = (pc # "idle")
    /\ Edit
    /\ UNCHANGED <<secret, condition, pc, pass, moved, touched, faults>>

\* Someone else writes n, whatever the pass is doing with it.
Writes(n, s) ==
    /\ secret' = [secret EXCEPT ![n] = s]
    /\ moved' = (moved \/ (pc = "keep" /\ n = Current) \/ (pc = "keep account" /\ n = Account))
    /\ touched' = IF pc = "idle" THEN touched ELSE touched \union {n}
    /\ Edit
    /\ UNCHANGED <<spec, condition, pc, pass, stale, faults>>

CreateSecret(n) ==
    /\ ~secret[n].there
    /\ \E d \in [Key -> Value \union {Missing}] :
          Writes(n, [there |-> TRUE, made |-> FALSE, data |-> d])

SetKey(n, k, v) ==
    /\ secret[n].there /\ secret[n].data[k] # v
    /\ Writes(n, [secret[n] EXCEPT !.data[k] = v])

RemoveSecret(n) == secret[n].there /\ Writes(n, Absent)

Environment ==
    \/ \E s \in ZaentrumSpec : EditZaentrum(s)
    \/ \E n \in Names : CreateSecret(n) \/ RemoveSecret(n)
    \/ \E n \in Names, k \in Key, v \in Value \union {Missing} : SetKey(n, k, v)

Next == Pass \/ AbandonPass \/ Environment

Spec == Init /\ [][Next]_vars

\* The work queue runs a pass again and again, whatever ended the last one.
FairSpec == Spec /\ WF_vars(Pass)

-----------------------------------------------------------------------------
(* Properties *)

\* Every variable has its type.
TypeOK ==
    /\ spec \in ZaentrumSpec
    /\ secret \in [Names -> Secret]
    /\ condition \in Condition
    /\ pc \in {"idle", "secrets", "keep", "apply", "account", "keep account", "write", "give up"}
    /\ pass \in [spec : ZaentrumSpec, next : 1 .. Len(Platform) + 1, got : Secret,
                 provided : BOOLEAN, published : BOOLEAN, condition : Condition]
    /\ moved \in BOOLEAN /\ stale \in BOOLEAN /\ touched \subseteq Names
    /\ edits \in Nat /\ faults \in Nat

Complete(s) == s.there /\ \A k \in Key : s.data[k] # Missing

\* "a value that is there is never replaced" (secrets.go:28): no step of the
\* operator changes or removes a value, whoever wrote it and however late what
\* the pass read is by now. Only the account made for the bundled realm goes
\* once the realm is someone else's, with what stands in its place by then.
ValuesStay ==
    [][edits' = edits =>
          \A n \in Names, k \in Key :
             secret[n].data[k] # Missing =>
                \/ secret'[n].there /\ secret'[n].data[k] = secret[n].data[k]
                \/ n = Account /\ ~pass.spec.bundled /\ pass.got.made]_vars

\* "no pod starts without the Secrets it reads" (secrets.go:170): when a pass
\* applies the platform, every Secret that platform needs is there with all its
\* keys - but one that someone else wrote during that very pass.
AppliedComplete ==
    pc = "apply" /\ ~pass.spec.external =>
        \A i \in DOMAIN Platform :
            \/ Platform[i] \in Bundled /\ ~pass.spec.bundled
            \/ Platform[i] \in Optional /\ ~pass.spec.optional
            \/ Platform[i] \in touched
            \/ Complete(secret[Platform[i]])

NeededNow == {n \in Names \ {Account} : Needed(spec, n)}

\* What the condition should say of the Secrets as they are.
Told ==
    IF spec.external THEN "None"
    ELSE IF \E n \in NeededNow : HoldsPublished(secret[n]) THEN "PublishedDefaults"
    ELSE IF \A n \in NeededNow : secret[n].made THEN "Generated"
    ELSE "Provided"

\* Once nobody else writes, every Secret the platform needs is there in full for
\* good, and the condition says what they are: made by the operator, provided,
\* or still what an earlier chart shipped (secrets.go:34-39). A race that made a
\* pass take another's Secret for its own is told right by a later one.
SecretsSettle ==
    <>[](condition = Told /\ (spec.external \/ \A n \in NeededNow : Complete(secret[n])))

=============================================================================
