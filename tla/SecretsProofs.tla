---------------------------- MODULE SecretsProofs ----------------------------
(***************************************************************************)
(* What Secrets promises for every list of Secrets, every set of keys and  *)
(* values and every bound: types, that no value is replaced, and that what *)
(* a pass applies finds the Secrets it needs.                              *)
(***************************************************************************)
EXTENDS Secrets, TLAPS

\* The Secret at hand is one of the platform's.
AtHand == pc = "keep" => pass.next <= Len(Platform)

TypeInv == TypeOK /\ AtHand

LEMMA PlatformNames ==
    /\ Len(Platform) \in Nat /\ DOMAIN Platform = 1 .. Len(Platform)
    /\ \A i \in 1 .. Len(Platform) : Platform[i] \in Names /\ Platform[i] # Account
    /\ Account \in Names
BY Shape DEF Names

\* What the operator makes, and what it fills, is complete and keeps what was there.
LEMMA MadeIs == \A t \in Made : t \in Secret /\ Complete(t)
<1> SUFFICES ASSUME NEW d \in [Key -> Drawn]
             PROVE  LET t == [there |-> TRUE, made |-> TRUE, data |-> d] IN
                    t \in Secret /\ Complete(t)
  BY DEF Made
<1>1. d \in [Key -> Value \union {Missing}] /\ \A k \in Key : d[k] # Missing
  BY Shape DEF Value
<1> QED BY <1>1 DEF Secret, Complete

LEMMA FilledIs ==
    ASSUME NEW s \in Secret, s.there, NEW t \in Filled(s)
    PROVE  /\ t \in Secret /\ t.there /\ Complete(t)
           /\ \A k \in Key : s.data[k] # Missing => t.data[k] = s.data[k]
<1>1. PICK d \in [Key -> Drawn] :
         t = [s EXCEPT !.data = [k \in Key |-> IF k \in Lacks(s) THEN d[k] ELSE s.data[k]]]
  BY DEF Filled
<1> DEFINE full == [k \in Key |-> IF k \in Lacks(s) THEN d[k] ELSE s.data[k]]
<1>2. s.data \in [Key -> Value \union {Missing}] /\ s.there \in BOOLEAN /\ s.made \in BOOLEAN
  BY DEF Secret
<1>3. /\ full \in [Key -> Value]
      /\ \A k \in Key : s.data[k] # Missing => full[k] = s.data[k]
  BY <1>2 DEF Lacks, Value
<1> HIDE DEF full
<1>4. t = [there |-> s.there, made |-> s.made, data |-> full]
  BY <1>1 DEF Secret, full
<1> QED BY <1>2, <1>3, <1>4, Shape DEF Secret, Complete

LEMMA AbsentType == Absent \in Secret /\ NoPass.got = Absent /\ \A k \in Key : Absent.data[k] = Missing
BY DEF Absent, Secret, NoPass

PassType == [spec : ZaentrumSpec, next : 1 .. Len(Platform) + 1, got : Secret,
             provided : BOOLEAN, published : BOOLEAN, condition : Condition]

LEMMA NoPassType == NoPass \in PassType
BY AbsentType, PlatformNames DEF NoPass, PassType, ZaentrumSpec, Condition

\* Where the pass goes after a Secret, it is well typed.
LEMMA AdvanceType ==
    ASSUME TypeInv, pc = "keep", NEW g \in BOOLEAN, NEW p \in BOOLEAN, Advance(g, p)
    PROVE  pass' \in PassType /\ pc' = "secrets"
<1>1. pass \in PassType /\ pass.next <= Len(Platform)
  BY DEF TypeInv, TypeOK, AtHand, PassType
<1>2. pass.next + 1 \in 1 .. Len(Platform) + 1
  BY <1>1, PlatformNames DEF PassType
<1> QED BY <1>1, <1>2, AbsentType DEF Advance, PassType

LEMMA GiveUpType ==
    ASSUME TypeInv, GiveUp
    PROVE  pass' \in PassType /\ pc' = "give up"
<1>1. pass \in PassType
  BY DEF TypeInv, TypeOK, PassType
<1> QED BY <1>1 DEF GiveUp, PassType, Condition

\* What the operator's writes leave of the Secrets.
LEMMA CreateType ==
    ASSUME TypeOK, NEW n \in Names, CreateAbsent(n)
    PROVE  secret' \in [Names -> Secret]
BY MadeIs DEF CreateAbsent, TypeOK

LEMMA UpdateType ==
    ASSUME TypeOK, pass.got.there, NEW n \in Names, UpdateRead(n)
    PROVE  secret' \in [Names -> Secret]
<1>1. pass.got \in Secret
  BY DEF TypeOK
<1> QED BY <1>1, FilledIs DEF UpdateRead, TypeOK

LEMMA FaultType == TypeOK => (Fault => faults' \in Nat) /\ (Edit => edits' \in Nat) /\ faults \in Nat
<1> SUFFICES ASSUME TypeOK PROVE (Fault => faults' \in Nat) /\ (Edit => edits' \in Nat) /\ faults \in Nat
  OBVIOUS
<1>1. faults \in Nat /\ edits \in Nat
  BY DEF TypeOK
<1> QED BY <1>1 DEF Fault, Edit

\* Secrets keeps its types.
LEMMA TypeStep == TypeInv /\ [Next]_vars => TypeInv'
<1> SUFFICES ASSUME TypeInv, [Next]_vars PROVE TypeInv'
  OBVIOUS
<1> USE DEF TypeInv
<1>0. pass \in PassType /\ \A n \in Names : secret[n] \in Secret
  BY DEF TypeOK, PassType
<1>1. CASE ReadZaentrum
  <2>1. pass' \in PassType
    BY <1>1, NoPassType DEF ReadZaentrum, PassType, TypeOK, Condition
  <2> QED BY <1>1, <2>1 DEF ReadZaentrum, TypeOK, AtHand, PassType
<1>2. CASE SkipSecret
  <2>1. pass.next + 1 \in 1 .. Len(Platform) + 1
    BY <1>0, <1>2, PlatformNames DEF SkipSecret, PassType
  <2>2. pass' \in PassType
    BY <1>0, <1>2, <2>1 DEF SkipSecret, PassType
  <2> QED BY <1>2, <2>2 DEF SkipSecret, TypeOK, AtHand, PassType
<1>3. CASE ReadSecret
  <2>1. CASE GiveUp
    BY <1>3, <2>1, GiveUpType, FaultType DEF ReadSecret, TypeOK, AtHand, PassType
  <2>2. CASE pass' = [pass EXCEPT !.got = secret[Current]] /\ pc' = "keep" /\ moved' = FALSE
                /\ UNCHANGED faults
    <3>1. Current \in Names
      BY <1>0, <1>3, PlatformNames DEF ReadSecret, Current, PassType
    <3>2. pass' \in PassType /\ pass'.next = pass.next
      BY <1>0, <2>2, <3>1 DEF PassType
    <3> QED BY <1>3, <2>2, <3>2 DEF ReadSecret, TypeOK, AtHand, PassType
  <2> QED BY <1>3, <2>1, <2>2 DEF ReadSecret
<1>4. CASE MakeSecret
  <2>1. Current \in Names
    BY <1>0, <1>4, PlatformNames DEF MakeSecret, AtHand, Current, PassType
  <2>2. secret' \in [Names -> Secret]
    BY <1>4, <2>1, CreateType DEF MakeSecret, TypeOK
  <2>3. pass' \in PassType /\ pc' \in {"secrets", "give up"}
    BY <1>4, AdvanceType, GiveUpType DEF MakeSecret
  <2>4. faults' \in Nat
    BY <1>4, FaultType DEF MakeSecret
  <2> QED BY <1>4, <2>2, <2>3, <2>4 DEF MakeSecret, TypeOK, AtHand, PassType
<1>5. CASE FillSecret
  <2>1. Current \in Names
    BY <1>0, <1>5, PlatformNames DEF FillSecret, AtHand, Current, PassType
  <2>2. secret' \in [Names -> Secret]
    BY <1>5, <2>1, UpdateType DEF FillSecret, TypeOK
  <2>3. pass.got.made \in BOOLEAN /\ HoldsPublished(pass.got) \in BOOLEAN
    BY <1>0 DEF PassType, Secret, HoldsPublished
  <2>4. pass' \in PassType /\ pc' \in {"secrets", "give up"}
    BY <1>5, <2>3, AdvanceType, GiveUpType DEF FillSecret
  <2>5. faults' \in Nat
    BY <1>5, FaultType DEF FillSecret
  <2> QED BY <1>5, <2>2, <2>4, <2>5 DEF FillSecret, TypeOK, AtHand, PassType
<1>6. CASE KeepSecret
  <2>1. pass.got.made \in BOOLEAN /\ HoldsPublished(pass.got) \in BOOLEAN
    BY <1>0 DEF PassType, Secret, HoldsPublished
  <2>2. pass' \in PassType /\ pc' = "secrets"
    BY <1>6, <2>1, AdvanceType DEF KeepSecret
  <2> QED BY <1>6, <2>2 DEF KeepSecret, TypeOK, AtHand, PassType
<1>7. CASE ConcludeSecrets
  <2>1. Conclusion(pass) \in Condition
    BY DEF Conclusion, Condition
  <2>2. pass' \in PassType
    BY <1>0, <1>7, <2>1 DEF ConcludeSecrets, PassType
  <2> QED BY <1>7, <2>2 DEF ConcludeSecrets, TypeOK, AtHand, PassType
<1>8. CASE Apply
  <2>1. faults' \in Nat
    BY <1>8, FaultType DEF Apply
  <2> QED BY <1>8, <2>1 DEF Apply, TypeOK, AtHand
<1>9. CASE ReadAccount
  <2>1. faults' \in Nat
    BY <1>9, FaultType DEF ReadAccount
  <2>2. pass' \in PassType
    BY <1>0, <1>9, PlatformNames DEF ReadAccount, PassType
  <2> QED BY <1>9, <2>1, <2>2 DEF ReadAccount, TypeOK, AtHand, PassType
<1>10. CASE KeepAccount
  <2>1. secret' \in [Names -> Secret]
    <3>1. CASE MakeAccount
      BY <3>1, PlatformNames, CreateType DEF MakeAccount, TypeOK
    <3>2. CASE FillAccount
      BY <3>2, PlatformNames, UpdateType DEF FillAccount, TypeOK
    <3>3. CASE RemoveAccount
      BY <3>3, AbsentType DEF RemoveAccount, TypeOK
    <3>4. CASE LeaveAccount
      BY <3>4 DEF LeaveAccount, TypeOK
    <3> QED BY <1>10, <3>1, <3>2, <3>3, <3>4 DEF KeepAccount
  <2>2. faults' \in Nat
    BY <1>10, FaultType DEF KeepAccount, MakeAccount, FillAccount, RemoveAccount, LeaveAccount
  <2> QED BY <1>10, <2>1, <2>2 DEF KeepAccount, TypeOK, AtHand
<1>11. CASE WriteStatus
  <2>1. condition' \in Condition
    BY <1>0, <1>11 DEF WriteStatus, PassType, TypeOK
  <2>2. pass' \in PassType
    BY <1>11, NoPassType DEF WriteStatus, EndPass
  <2> QED BY <1>11, <2>1, <2>2 DEF WriteStatus, EndPass, TypeOK, AtHand, PassType
<1>12. CASE AbandonPass
  <2>1. faults' \in Nat
    BY <1>12, FaultType DEF AbandonPass
  <2>2. pass' \in PassType
    BY <1>12, NoPassType DEF AbandonPass, EndPass
  <2> QED BY <1>12, <2>1, <2>2 DEF AbandonPass, EndPass, TypeOK, AtHand, PassType
<1>13. ASSUME NEW s \in ZaentrumSpec, EditZaentrum(s) PROVE TypeInv'
  BY <1>13, FaultType DEF EditZaentrum, TypeOK, AtHand
<1>14. ASSUME NEW n \in Names, NEW s \in Secret, Writes(n, s) PROVE TypeInv'
  <2>1. secret' \in [Names -> Secret] /\ edits' \in Nat
    BY <1>14, FaultType DEF Writes, TypeOK
  <2>2. moved' \in BOOLEAN /\ touched' \subseteq Names
    BY <1>14 DEF Writes, TypeOK
  <2> QED BY <1>14, <2>1, <2>2 DEF Writes, TypeOK, AtHand
<1>15. ASSUME NEW n \in Names, CreateSecret(n) PROVE TypeInv'
  BY <1>14, <1>15 DEF CreateSecret, Secret
<1>16. ASSUME NEW n \in Names, RemoveSecret(n) PROVE TypeInv'
  BY <1>14, <1>16, AbsentType DEF RemoveSecret
<1>17. ASSUME NEW n \in Names, NEW k \in Key, NEW w \in Value \union {Missing}, SetKey(n, k, w)
       PROVE  TypeInv'
  <2>1. [secret[n] EXCEPT !.data[k] = w] \in Secret
    BY <1>0 DEF Secret
  <2> QED BY <1>14, <1>17, <2>1 DEF SetKey
<1>18. CASE UNCHANGED vars
  BY <1>18 DEF vars, TypeOK, AtHand
<1> QED BY <1>1, <1>2, <1>3, <1>4, <1>5, <1>6, <1>7, <1>8, <1>9, <1>10, <1>11, <1>12, <1>13,
           <1>15, <1>16, <1>17, <1>18 DEF Next, Pass, Environment

LEMMA TypeInit == Init => TypeInv
<1> SUFFICES ASSUME Init PROVE TypeInv
  OBVIOUS
<1>1. Shipped \subseteq Secret
  <2> SUFFICES ASSUME NEW t \in Shipped PROVE t \in Secret
    OBVIOUS
  <2>1. PICK w \in Published, known \in {Early, Key} :
           t = [there |-> TRUE, made |-> FALSE,
                data |-> [k \in Key |-> IF k \in known THEN w ELSE Missing]]
    BY DEF Shipped
  <2>2. [k \in Key |-> IF k \in known THEN w ELSE Missing] \in [Key -> Value \union {Missing}]
    BY DEF Value
  <2> QED BY <2>1, <2>2 DEF Secret
<1>2. secret \in [Names -> Secret]
  BY <1>1, AbsentType DEF Init
<1> QED BY <1>2, NoPassType DEF Init, TypeInv, TypeOK, AtHand, PassType, Condition

\* Every reachable state is well typed.
THEOREM TypeCorrect == Spec => []TypeOK
<1>1. Spec => []TypeInv
  BY TypeInit, TypeStep, PTL DEF Spec
<1>2. TypeInv => TypeOK
  BY DEF TypeInv
<1> QED BY <1>1, <1>2, PTL

-----------------------------------------------------------------------------
\* A Secret that is not there holds nothing.
Whole == \A n \in Names : ~secret[n].there => \A k \in Key : secret[n].data[k] = Missing

\* What the pass holds is what is there, unless someone wrote it since; for a
\* platform Secret, that is then known as touched.
Held ==
    /\ pc = "keep" => secret[Current] = pass.got \/ (moved /\ Current \in touched)
    /\ pc = "keep" /\ ~moved => secret[Current] = pass.got
    /\ pc = "keep account" /\ ~moved => secret[Account] = pass.got

\* A Secret the platform may be applied with.
Fit(i) ==
    \/ Platform[i] \in Bundled /\ ~pass.spec.bundled
    \/ Platform[i] \in Optional /\ ~pass.spec.optional
    \/ Platform[i] \in touched
    \/ Complete(secret[Platform[i]])

\* All the pass has dealt with so far is fit.
Done ==
    /\ pc \in {"secrets", "keep"} =>
          ~pass.spec.external /\ \A i \in 1 .. pass.next - 1 : Fit(i)
    /\ AppliedComplete

KeepInv == Whole /\ Held /\ Done

LEMMA KeepInit == Init => KeepInv
<1> SUFFICES ASSUME Init PROVE KeepInv
  OBVIOUS
<1>1. Whole
  BY DEF Init, Whole, Shipped, Absent
<1> QED BY <1>1 DEF Init, KeepInv, Held, Done, AppliedComplete

\* Whoever writes, a Secret that is not there holds nothing.
LEMMA WholeStep == TypeInv /\ Whole /\ [Next]_vars => Whole'
<1> SUFFICES ASSUME TypeInv, Whole, [Next]_vars PROVE Whole'
  OBVIOUS
<1>0. pass.got \in Secret /\ secret \in [Names -> Secret]
  BY DEF TypeInv, TypeOK
<1>1. ASSUME NEW n \in Names, NEW s \in Secret, secret' = [secret EXCEPT ![n] = s],
             s.there \/ \A k \in Key : s.data[k] = Missing
      PROVE  Whole'
  BY <1>0, <1>1 DEF Whole
<1>2. ASSUME secret' = secret PROVE Whole'
  BY <1>2 DEF Whole
<1>3. ASSUME NEW n \in Names, CreateAbsent(n) PROVE Whole'
  BY <1>1, <1>2, <1>3, MadeIs DEF CreateAbsent, Complete
<1>4. ASSUME NEW n \in Names, pass.got.there, UpdateRead(n) PROVE Whole'
  BY <1>0, <1>1, <1>4, FilledIs DEF UpdateRead
<1>5. pc = "keep" => Current \in Names
  BY PlatformNames DEF TypeInv, TypeOK, AtHand, Current
<1>6. CASE MakeSecret \/ FillSecret
  BY <1>2, <1>3, <1>4, <1>5, <1>6 DEF MakeSecret, FillSecret
<1>7. CASE KeepAccount
  <2>1. CASE RemoveAccount
    BY <1>1, <1>2, <2>1, PlatformNames, AbsentType DEF RemoveAccount
  <2>2. CASE MakeAccount \/ FillAccount \/ LeaveAccount
    BY <1>2, <1>3, <1>4, <2>2, PlatformNames DEF MakeAccount, FillAccount, LeaveAccount
  <2> QED BY <1>7, <2>1, <2>2 DEF KeepAccount
<1>8. ASSUME NEW n \in Names, CreateSecret(n) \/ RemoveSecret(n) PROVE Whole'
  <2>1. CASE CreateSecret(n)
    BY <1>1, <2>1 DEF CreateSecret, Writes, Secret
  <2>2. CASE RemoveSecret(n)
    BY <1>1, <2>2, AbsentType DEF RemoveSecret, Writes
  <2> QED BY <1>8, <2>1, <2>2
<1>9. ASSUME NEW n \in Names, NEW k \in Key, NEW w \in Value \union {Missing}, SetKey(n, k, w)
      PROVE  Whole'
  <2>1. [secret[n] EXCEPT !.data[k] = w] \in Secret /\ [secret[n] EXCEPT !.data[k] = w].there
    BY <1>0, <1>9 DEF Secret, SetKey
  <2> QED BY <1>1, <1>9, <2>1 DEF SetKey, Writes
<1>10. CASE ReadZaentrum \/ SkipSecret \/ ReadSecret \/ KeepSecret \/ ConcludeSecrets \/ Apply
            \/ ReadAccount \/ WriteStatus \/ AbandonPass \/ (\E s \in ZaentrumSpec : EditZaentrum(s))
            \/ UNCHANGED vars
  <2>1. secret' = secret
    BY <1>10 DEF ReadZaentrum, SkipSecret, ReadSecret, KeepSecret, ConcludeSecrets, Apply,
                 ReadAccount, WriteStatus, AbandonPass, EditZaentrum, vars
  <2> QED BY <1>2, <2>1
<1> QED BY <1>6, <1>7, <1>8, <1>9, <1>10 DEF Next, Pass, Environment

\* What the pass holds is what it read, as long as nobody wrote it since.
LEMMA HeldStep == TypeInv /\ Held /\ [Next]_vars => Held'
<1> SUFFICES ASSUME TypeInv, Held, [Next]_vars PROVE Held'
  OBVIOUS
<1>0. secret \in [Names -> Secret] /\ moved \in BOOLEAN
  BY DEF TypeInv, TypeOK
<1>1. CASE ReadSecret
  <2>1. CASE GiveUp
    BY <2>1 DEF GiveUp, Held
  <2>2. CASE pass' = [pass EXCEPT !.got = secret[Current]] /\ pc' = "keep"
    <3>1. pass'.got = secret[Current] /\ pass'.next = pass.next
      BY <2>2 DEF TypeInv, TypeOK
    <3>2. secret' = secret /\ Current' = Current
      BY <1>1, <3>1 DEF ReadSecret, Current
    <3> QED BY <2>2, <3>1, <3>2 DEF Held
  <2> QED BY <1>1, <2>1, <2>2 DEF ReadSecret
<1>2. CASE ReadAccount
  <2>1. pc' = "keep account" => pass'.got = secret[Account]
    BY <1>2 DEF ReadAccount, TypeInv, TypeOK
  <2> QED BY <1>2, <2>1 DEF ReadAccount, Held
<1>3. CASE ReadZaentrum \/ SkipSecret \/ MakeSecret \/ FillSecret \/ KeepSecret \/ ConcludeSecrets
           \/ Apply \/ KeepAccount \/ WriteStatus \/ AbandonPass
  <2>1. pc' \notin {"keep", "keep account"}
    BY <1>3 DEF ReadZaentrum, SkipSecret, MakeSecret, FillSecret, KeepSecret, ConcludeSecrets,
                Apply, KeepAccount, WriteStatus, AbandonPass, EndPass, Advance, GiveUp
  <2> QED BY <2>1 DEF Held
<1>4. ASSUME NEW n \in Names, NEW s, Writes(n, s) PROVE Held'
  <2>1. /\ secret' = [secret EXCEPT ![n] = s]
        /\ moved' = (moved \/ (pc = "keep" /\ n = Current) \/ (pc = "keep account" /\ n = Account))
        /\ pc' = pc /\ pass' = pass /\ Current' = Current
    BY <1>4 DEF Writes, Current
  <2>2. pc # "idle" => touched' = touched \union {n}
    BY <1>4 DEF Writes
  <2>3. pc = "keep" => Current \in Names
    BY PlatformNames DEF TypeInv, TypeOK, AtHand, Current
  <2>4. CASE pc = "keep" /\ n = Current
    <3>1. moved' /\ Current' \in touched' /\ pc' = "keep"
      BY <2>1, <2>2, <2>4
    <3> QED BY <3>1 DEF Held
  <2>5. CASE pc = "keep" /\ n # Current
    <3>1. secret'[Current] = secret[Current] /\ moved' = moved /\ touched' = touched \union {n}
      BY <1>0, <2>1, <2>2, <2>3, <2>5
    <3> QED BY <2>1, <2>5, <3>1 DEF Held
  <2>6. CASE pc = "keep account"
    BY <1>0, <2>1, <2>6, PlatformNames DEF Held
  <2>7. CASE pc \notin {"keep", "keep account"}
    BY <2>1, <2>7 DEF Held
  <2> QED BY <2>4, <2>5, <2>6, <2>7
<1>5. CASE (\E n \in Names : CreateSecret(n) \/ RemoveSecret(n))
           \/ (\E n \in Names, k \in Key, w \in Value \union {Missing} : SetKey(n, k, w))
  BY <1>4, <1>5 DEF CreateSecret, RemoveSecret, SetKey
<1>6. CASE (\E s \in ZaentrumSpec : EditZaentrum(s)) \/ UNCHANGED vars
  <2>1. UNCHANGED <<secret, pc, pass, moved, touched>>
    BY <1>6 DEF EditZaentrum, vars
  <2> QED BY <2>1 DEF Held, Current
<1> QED BY <1>1, <1>2, <1>3, <1>5, <1>6 DEF Next, Pass, Environment

\* While the pass takes its Secrets, the operator only ever completes one.
LEMMA Completes ==
    ASSUME TypeInv, pc = "keep", NEW n \in Names,
           CreateAbsent(Current) \/ (pass.got.there /\ UpdateRead(Current)) \/ UNCHANGED secret
    PROVE  secret'[n] = secret[n] \/ Complete(secret'[n])
<1>1. pass.got \in Secret /\ secret \in [Names -> Secret] /\ Current \in Names
  BY PlatformNames DEF TypeInv, TypeOK, AtHand, Current
<1>2. CASE CreateAbsent(Current)
  BY <1>1, <1>2, MadeIs DEF CreateAbsent
<1>3. CASE pass.got.there /\ UpdateRead(Current)
  BY <1>1, <1>3, FilledIs DEF UpdateRead
<1> QED BY <1>2, <1>3

\* What is fit stays fit through a step that only completes Secrets.
LEMMA FitStays ==
    ASSUME NEW i \in DOMAIN Platform, Fit(i), pass'.spec = pass.spec, touched \subseteq touched',
           \/ secret'[Platform[i]] = secret[Platform[i]]
           \/ Complete(secret'[Platform[i]])
           \/ Platform[i] \in touched'
    PROVE  Fit(i)'
BY DEF Fit, Complete

LEMMA DoneIsApplied ==
    AppliedComplete <=> (pc = "apply" /\ ~pass.spec.external => \A i \in DOMAIN Platform : Fit(i))
BY DEF AppliedComplete, Fit

\* One Secret further: the one at hand is fit, and so is all before it.
LEMMA AdvanceDone ==
    ASSUME TypeInv, Done, pc = "keep",
           NEW g \in BOOLEAN, NEW p \in BOOLEAN, Advance(g, p), UNCHANGED touched,
           CreateAbsent(Current) \/ (pass.got.there /\ UpdateRead(Current)) \/ UNCHANGED secret,
           Current \in touched \/ Complete(secret'[Current])
    PROVE  Done'
<1>1. /\ pass'.spec = pass.spec /\ pass'.next = pass.next + 1 /\ pc' = "secrets"
      /\ pass.next \in 1 .. Len(Platform)
  BY PlatformNames DEF TypeInv, TypeOK, AtHand, Advance
<1>2. \A i \in 1 .. pass.next - 1 : Fit(i)'
  <2> SUFFICES ASSUME NEW i \in 1 .. pass.next - 1 PROVE Fit(i)'
    OBVIOUS
  <2>1. i \in DOMAIN Platform /\ Platform[i] \in Names
    BY <1>1, PlatformNames
  <2>2. Fit(i)
    BY DEF Done
  <2> QED BY <1>1, <2>1, <2>2, Completes, FitStays
<1>3. ASSUME NEW i \in DOMAIN Platform, i = pass.next PROVE Fit(i)'
  BY <1>1, <1>3 DEF Fit, Current
<1>4. \A i \in 1 .. pass'.next - 1 : i \in 1 .. pass.next - 1 \/ i = pass.next
  BY <1>1
<1>5. \A i \in 1 .. pass'.next - 1 : Fit(i)'
  BY <1>1, <1>2, <1>3, <1>4, PlatformNames
<1> QED BY <1>1, <1>5 DEF Done, AppliedComplete

\* Done outlives every step.
LEMMA DoneStep == TypeInv /\ Held /\ Done /\ [Next]_vars => Done'
<1> SUFFICES ASSUME TypeInv, Held, Done, [Next]_vars PROVE Done'
  OBVIOUS
<1>0. /\ pass.next \in 1 .. Len(Platform) + 1 /\ secret \in [Names -> Secret]
      /\ pass.got \in Secret /\ Len(Platform) \in Nat /\ DOMAIN Platform = 1 .. Len(Platform)
  BY PlatformNames DEF TypeInv, TypeOK
<1>1. CASE ReadZaentrum
  <2>1. /\ pass'.next = 1 /\ pass'.spec = spec
        /\ pc' = IF spec.external THEN "apply" ELSE "secrets"
    BY <1>1 DEF ReadZaentrum, NoPass
  <2>2. \A i \in 1 .. pass'.next - 1 : FALSE
    BY <2>1
  <2>3. spec.external \in BOOLEAN
    BY DEF TypeInv, TypeOK, ZaentrumSpec
  <2> QED BY <2>1, <2>2, <2>3 DEF Done, AppliedComplete
<1>2. CASE SkipSecret
  <2>1. /\ pass'.next = pass.next + 1 /\ pass'.spec = pass.spec /\ pc' = "secrets"
        /\ secret' = secret /\ touched' = touched
    BY <1>2 DEF SkipSecret, TypeInv, TypeOK
  <2>2. ASSUME NEW i \in DOMAIN Platform, i = pass.next PROVE Fit(i)'
    BY <1>2, <2>1, <2>2 DEF SkipSecret, Needed, Fit, Current
  <2>3. \A i \in 1 .. pass.next - 1 : Fit(i)'
    BY <1>2, <2>1 DEF SkipSecret, Done, Fit
  <2>4. \A i \in 1 .. pass'.next - 1 : i \in 1 .. pass.next - 1 \/ i = pass.next
    BY <1>0, <2>1
  <2>5. \A i \in 1 .. pass'.next - 1 : Fit(i)'
    BY <1>0, <1>2, <2>2, <2>3, <2>4 DEF SkipSecret
  <2> QED BY <1>2, <2>1, <2>5 DEF SkipSecret, Done, AppliedComplete
<1>3. CASE ReadSecret
  <2>1. CASE GiveUp
    BY <2>1 DEF GiveUp, Done, AppliedComplete
  <2>2. CASE pass' = [pass EXCEPT !.got = secret[Current]] /\ pc' = "keep"
    <3>1. pass'.next = pass.next /\ pass'.spec = pass.spec
      BY <2>2 DEF TypeInv, TypeOK
    <3>2. \A i \in 1 .. pass'.next - 1 : Fit(i)'
      BY <1>3, <3>1 DEF ReadSecret, Done, Fit
    <3> QED BY <1>3, <2>2, <3>1, <3>2 DEF ReadSecret, Done, AppliedComplete
  <2> QED BY <1>3, <2>1, <2>2 DEF ReadSecret
<1>4. ASSUME pc = "keep" PROVE Current \in Names
  BY <1>4, PlatformNames DEF TypeInv, TypeOK, AtHand, Current
<1>5. ASSUME GiveUp PROVE Done'
  BY <1>5 DEF GiveUp, Done, AppliedComplete
<1>6. CASE MakeSecret
  <2>1. CASE CreateAbsent(Current) /\ Advance(TRUE, FALSE)
    <3>1. Current \in touched \/ Complete(secret'[Current])
      <4>1. CASE secret[Current].there
        BY <1>6, <4>1 DEF MakeSecret, Held
      <4>2. CASE ~secret[Current].there
        BY <1>0, <1>4, <1>6, <2>1, <4>2, MadeIs DEF MakeSecret, CreateAbsent
      <4> QED BY <4>1, <4>2
    <3> QED BY <1>6, <2>1, <3>1, AdvanceDone DEF MakeSecret
  <2> QED BY <1>5, <1>6, <2>1 DEF MakeSecret
<1>7. CASE FillSecret
  <2>1. CASE UpdateRead(Current) /\ Advance(pass.got.made, HoldsPublished(pass.got))
    <3>1. Complete(secret'[Current])
      BY <1>0, <1>4, <1>7, <2>1, FilledIs DEF FillSecret, UpdateRead
    <3>2. pass.got.made \in BOOLEAN /\ HoldsPublished(pass.got) \in BOOLEAN
      BY <1>0 DEF Secret, HoldsPublished
    <3> QED BY <1>7, <2>1, <3>1, <3>2, AdvanceDone DEF FillSecret
  <2> QED BY <1>5, <1>7, <2>1 DEF FillSecret
<1>8. CASE KeepSecret
  <2>1. Current \in touched \/ Complete(secret[Current])
    BY <1>8 DEF KeepSecret, Held, Complete, Lacks
  <2>2. pass.got.made \in BOOLEAN /\ HoldsPublished(pass.got) \in BOOLEAN
    BY <1>0 DEF Secret, HoldsPublished
  <2>3. secret' = secret
    BY <1>8 DEF KeepSecret
  <2> QED BY <1>8, <2>1, <2>2, <2>3, AdvanceDone DEF KeepSecret
<1>9. CASE ConcludeSecrets
  <2>1. pass'.spec = pass.spec /\ secret' = secret /\ touched' = touched /\ pc' = "apply"
    BY <1>9 DEF ConcludeSecrets, TypeInv, TypeOK
  <2>2. \A i \in DOMAIN Platform : Fit(i)
    BY <1>0, <1>9 DEF ConcludeSecrets, Done
  <2>3. \A i \in DOMAIN Platform : Fit(i)'
    BY <2>1, <2>2 DEF Fit
  <2> QED BY <2>1, <2>3 DEF Done, AppliedComplete, Fit
<1>10. CASE Apply \/ ReadAccount \/ KeepAccount \/ WriteStatus \/ AbandonPass
  <2>1. pc' \notin {"secrets", "keep", "apply"}
    BY <1>10 DEF Apply, ReadAccount, KeepAccount, WriteStatus, AbandonPass, EndPass
  <2> QED BY <2>1 DEF Done, AppliedComplete
<1>11. ASSUME UNCHANGED <<pc, pass>>, touched \subseteq touched',
              pc # "idle" => \A n \in Names : secret'[n] = secret[n] \/ n \in touched'
       PROVE  Done'
  <2>1. \A i \in DOMAIN Platform : pc # "idle" /\ Fit(i) => Fit(i)'
    BY <1>11, FitStays, PlatformNames
  <2>2. CASE pc \in {"secrets", "keep"}
    BY <1>0, <1>11, <2>1, <2>2 DEF Done, AppliedComplete
  <2>3. CASE pc = "apply"
    <3>1. ~pass.spec.external => \A i \in DOMAIN Platform : Fit(i)
      BY <2>3 DEF Done, AppliedComplete, Fit
    <3>2. ~pass.spec.external => \A i \in DOMAIN Platform : Fit(i)'
      BY <2>1, <2>3, <3>1
    <3> QED BY <1>11, <2>3, <3>2 DEF Done, AppliedComplete, Fit
  <2>4. CASE pc \notin {"secrets", "keep", "apply"}
    BY <1>11, <2>4 DEF Done, AppliedComplete
  <2> QED BY <2>2, <2>3, <2>4
<1>12. ASSUME NEW n \in Names, NEW s, Writes(n, s) PROVE Done'
  <2>1. touched \subseteq touched' /\ (pc # "idle" => n \in touched')
    BY <1>12 DEF Writes
  <2>2. \A m \in Names : m # n => secret'[m] = secret[m]
    BY <1>0, <1>12 DEF Writes
  <2>3. UNCHANGED <<pc, pass>>
    BY <1>12 DEF Writes
  <2> QED BY <1>11, <2>1, <2>2, <2>3
<1>13. CASE (\E n \in Names : CreateSecret(n) \/ RemoveSecret(n))
            \/ (\E n \in Names, k \in Key, w \in Value \union {Missing} : SetKey(n, k, w))
  BY <1>12, <1>13 DEF CreateSecret, RemoveSecret, SetKey
<1>14. CASE (\E s \in ZaentrumSpec : EditZaentrum(s)) \/ UNCHANGED vars
  <2>1. UNCHANGED <<secret, pc, pass, touched>>
    BY <1>14 DEF EditZaentrum, vars
  <2> QED BY <1>11, <2>1
<1> QED BY <1>1, <1>2, <1>3, <1>6, <1>7, <1>8, <1>9, <1>10, <1>13, <1>14 DEF Next, Pass, Environment

\* When a pass applies the platform, the Secrets that platform needs are there in
\* full, whoever else writes, whatever fails and however long the list is, but
\* for one that someone wrote during that very pass (secrets.go:170).
THEOREM NoPodWithoutItsSecrets == Spec => []AppliedComplete
<1>1. Spec => [](TypeInv /\ KeepInv)
  <2>1. TypeInv /\ KeepInv /\ [Next]_vars => TypeInv' /\ KeepInv'
    BY TypeStep, WholeStep, HeldStep, DoneStep DEF KeepInv
  <2> QED BY TypeInit, KeepInit, <2>1, PTL DEF Spec
<1>2. KeepInv => AppliedComplete
  BY DEF KeepInv, Done
<1> QED BY <1>1, <1>2, PTL

\* No step of the operator changes or removes a value, whoever wrote it and
\* however late what the pass read is by now (secrets.go:28): a Secret is created
\* only where there is none, and updated only at the version that was read.
THEOREM NoValueReplaced == Spec => ValuesStay
<1> DEFINE Stays(n, k) ==
       secret[n].data[k] # Missing =>
          \/ secret'[n].there /\ secret'[n].data[k] = secret[n].data[k]
          \/ n = Account /\ ~pass.spec.bundled /\ pass.got.made
<1>1. ASSUME TypeInv, KeepInv, [Next]_vars, edits' = edits, NEW n \in Names, NEW k \in Key
      PROVE  Stays(n, k)
  <2>0. secret \in [Names -> Secret] /\ pass.got \in Secret /\ edits \in Nat
    BY <1>1 DEF TypeInv, TypeOK
  <2>1. ASSUME UNCHANGED secret PROVE Stays(n, k)
    BY <1>1, <2>1 DEF KeepInv, Whole
  <2>2. ASSUME NEW m \in Names, CreateAbsent(m) PROVE Stays(n, k)
    BY <1>1, <2>0, <2>1, <2>2 DEF CreateAbsent, KeepInv, Whole
  <2>3. ASSUME NEW m \in Names, pass.got.there, secret[m] = pass.got, UpdateRead(m)
        PROVE  Stays(n, k)
    BY <1>1, <2>0, <2>3, FilledIs DEF UpdateRead, KeepInv, Whole
  <2>4. pc = "keep" => Current \in Names
    BY <1>1, PlatformNames DEF TypeInv, TypeOK, AtHand, Current
  <2>5. CASE MakeSecret
    BY <2>1, <2>2, <2>4, <2>5 DEF MakeSecret
  <2>6. CASE FillSecret
    <3>1. ~UpdateRefused => secret[Current] = pass.got
      BY <1>1, <2>6 DEF FillSecret, KeepInv, Held, UpdateRefused
    <3> QED BY <2>1, <2>3, <2>4, <2>6, <3>1 DEF FillSecret
  <2>7. CASE KeepAccount
    <3>1. ~UpdateRefused => secret[Account] = pass.got
      BY <1>1, <2>7 DEF KeepAccount, KeepInv, Held, UpdateRefused
    <3>2. CASE MakeAccount
      BY <2>1, <2>2, <3>2, PlatformNames DEF MakeAccount
    <3>3. CASE FillAccount
      BY <2>1, <2>3, <3>1, <3>3, PlatformNames DEF FillAccount
    <3>4. CASE RemoveAccount
      <4>1. CASE n = Account
        BY <3>4, <4>1 DEF RemoveAccount, GeneratedAccount
      <4>2. CASE n # Account
        BY <1>1, <2>0, <3>4, <4>2 DEF RemoveAccount, KeepInv, Whole
      <4> QED BY <4>1, <4>2
    <3>5. CASE LeaveAccount
      BY <2>1, <3>5 DEF LeaveAccount
    <3> QED BY <2>7, <3>2, <3>3, <3>4, <3>5 DEF KeepAccount
  <2>8. CASE ReadZaentrum \/ SkipSecret \/ ReadSecret \/ KeepSecret \/ ConcludeSecrets \/ Apply
             \/ ReadAccount \/ WriteStatus \/ AbandonPass \/ UNCHANGED vars
    BY <2>1, <2>8 DEF ReadZaentrum, SkipSecret, ReadSecret, KeepSecret, ConcludeSecrets, Apply,
                      ReadAccount, WriteStatus, AbandonPass, vars
  <2>9. CASE Environment
    <3>1. edits' = edits + 1
      BY <2>9 DEF Environment, EditZaentrum, CreateSecret, RemoveSecret, SetKey, Writes, Edit
    <3> QED BY <1>1, <2>0, <3>1
  <2> QED BY <1>1, <2>5, <2>6, <2>7, <2>8, <2>9 DEF Next, Pass
<1>2. TypeInv /\ KeepInv /\ [Next]_vars =>
         [edits' = edits => \A n \in Names, k \in Key : Stays(n, k)]_vars
  BY <1>1
<1>3. TypeInv /\ KeepInv /\ [Next]_vars => TypeInv' /\ KeepInv'
  BY TypeStep, WholeStep, HeldStep, DoneStep DEF KeepInv
<1> QED BY TypeInit, KeepInit, <1>2, <1>3, PTL DEF Spec, ValuesStay

=============================================================================
