--------------------------- MODULE ChannelProofs ---------------------------
(***************************************************************************)
(* What the digest pins promise for any set of releases, however often the *)
(* registry, the channel or the operator itself fails.                     *)
(***************************************************************************)
EXTENDS Channel, TLAPS

-----------------------------------------------------------------------------
\* A cached pin is one the registry served; a pass applies what the cache holds;
\* what is applied is no newer than the pin the cache has of its tag, which a
\* process that has pinned it does not lose.
PinInv ==
    /\ \A t \in Tag : cache[t].digest # NoDigest => cache[t].digest <= registry[t]
    /\ pc = "apply" => pass.digest = cache[pass.render].digest
    /\ applied.digest # NoDigest =>
         /\ applied.tag \in Tag /\ applied.digest <= registry[applied.tag]
         /\ cache[applied.tag].digest # NoDigest => applied.digest <= cache[applied.tag].digest
         /\ ~restarted => cache[applied.tag].digest # NoDigest

-----------------------------------------------------------------------------
LEMMA TypeInit == Init => TypeOK
<1> SUFFICES ASSUME Init PROVE TypeOK
  OBVIOUS
<1>1. /\ pin \in MaybeTag /\ auto \in BOOLEAN /\ channel \in Tag
      /\ registry \in [Tag -> Nat] /\ current \in MaybeTag /\ available \in MaybeTag
  BY DEF Init, MaybeTag
<1>2. applied \in ImageRef /\ cache \in [Tag -> CacheEntry] /\ pass \in Pass
  BY DEF Init, ImageRef, CacheEntry, NotCached, Pass, NoPass, Digest, MaybeTag
<1>3. /\ pc = "idle" /\ stale \in BOOLEAN /\ restarted \in BOOLEAN
      /\ edits \in Nat /\ pushes \in Nat /\ faults \in Nat
  BY DEF Init
<1> QED BY <1>1, <1>2, <1>3 DEF TypeOK

\* Whatever discovery found, a pass renders a tag.
LEMMA DecideType ==
    ASSUME TypeOK, NEW found \in MaybeTag
    PROVE  Decide(found).render \in Tag /\ Decide(found).available \in MaybeTag
<1>1. CASE pin # NoTag
  BY <1>1 DEF Decide, TypeOK, MaybeTag
<1>2. CASE pin = NoTag /\ found = NoTag
  BY <1>2 DEF Decide, TypeOK, MaybeTag, Tag
<1>3. CASE pin = NoTag /\ found # NoTag
  BY <1>3 DEF Decide, TypeOK, MaybeTag
<1> QED BY <1>1, <1>2, <1>3

LEMMA TypeStep == TypeOK /\ [Next]_vars => TypeOK'
<1> SUFFICES ASSUME TypeOK, [Next]_vars PROVE TypeOK'
  OBVIOUS
<1>1. ASSUME NEW found \in MaybeTag, BeginPass(found) PROVE TypeOK'
  <2>1. pass' \in Pass /\ pass'.render \in Tag
    BY <1>1, DecideType DEF BeginPass, Pass, Digest, MaybeTag
  <2>2. faults' \in Nat
    BY <1>1 DEF BeginPass, Fault, TypeOK
  <2>3. pc' = "pin" /\ stale' = FALSE
    BY <1>1 DEF BeginPass
  <2> QED BY <1>1, <2>1, <2>2, <2>3 DEF BeginPass, TypeOK
<1>2. CASE PinImage
  <2>1. PICK t \in Tag : t = pass.render
    BY <1>2 DEF PinImage, TypeOK
  <2>2. cache[t].digest \in Digest /\ registry[t] \in Digest
    BY <2>1 DEF TypeOK, CacheEntry, Digest
  <2>3. pass' \in Pass /\ pass'.render = pass.render
    BY <1>2, <2>1, <2>2 DEF PinImage, Fallback, TypeOK, Pass
  <2>4. cache' \in [Tag -> CacheEntry]
    <3>1. cache' = cache \/ cache' = Stored(t, registry[t])
      BY <1>2, <2>1 DEF PinImage
    <3>2. [digest |-> registry[t], fresh |-> TRUE] \in CacheEntry
      BY <2>2 DEF CacheEntry
    <3> QED BY <3>1, <3>2 DEF Stored, TypeOK
  <2>5. faults' \in Nat
    BY <1>2 DEF PinImage, Fault, TypeOK
  <2>6. /\ pc' = "apply"
        /\ UNCHANGED <<pin, auto, channel, registry, current, available, applied, stale,
                       restarted, edits, pushes>>
    BY <1>2 DEF PinImage
  <2>7. pass.render \in Tag
    BY <2>1
  <2> QED BY <2>3, <2>4, <2>5, <2>6, <2>7 DEF TypeOK
<1>3. CASE ApplyImage
  <2>1. applied' \in ImageRef /\ restarted' \in BOOLEAN
    <3>1. pass.render \in MaybeTag /\ pass.digest \in Digest
      BY DEF TypeOK, Pass
    <3>2. [tag |-> pass.render, digest |-> pass.digest] \in ImageRef
      BY <3>1 DEF ImageRef
    <3>3. (restarted /\ pass.digest = NoDigest) \in BOOLEAN
      OBVIOUS
    <3>4. CASE /\ applied' = [tag |-> pass.render, digest |-> pass.digest]
               /\ restarted' = (restarted /\ pass.digest = NoDigest)
      BY <3>2, <3>3, <3>4
    <3>5. CASE UNCHANGED <<applied, restarted>>
      BY <3>5 DEF TypeOK
    <3> QED BY <1>3, <3>4, <3>5 DEF ApplyImage
  <2>2. pc' \in {"idle", "write"} /\ faults' \in Nat
    BY <1>3 DEF ApplyImage, Fault, TypeOK
  <2>3. pass.render \in Tag
    BY <1>3 DEF ApplyImage, TypeOK
  <2> QED BY <1>3, <2>1, <2>2, <2>3 DEF ApplyImage, TypeOK
<1>4. CASE WriteStatus
  BY <1>4 DEF WriteStatus, TypeOK, Pass
<1>5. CASE ConflictOnWrite
  BY <1>5 DEF ConflictOnWrite, TypeOK
<1>6. CASE AbandonPass
  BY <1>6 DEF AbandonPass, Fault, TypeOK
<1>7. CASE Restart
  <2>1. cache' \in [Tag -> CacheEntry]
    BY <1>7 DEF Restart, NotCached, CacheEntry, Digest
  <2> QED BY <1>7, <2>1 DEF Restart, Fault, TypeOK
<1>8. ASSUME NEW p \in MaybeTag, NEW a \in BOOLEAN, EditSpec(p, a) PROVE TypeOK'
  BY <1>8 DEF EditSpec, TypeOK
<1>9. ASSUME NEW t \in Tag, MoveChannel(t) PROVE TypeOK'
  <2>1. (pc # "idle") \in BOOLEAN
    OBVIOUS
  <2>2. stale' \in BOOLEAN
    BY <1>9, <2>1 DEF MoveChannel, TypeOK
  <2> QED BY <1>9, <2>2 DEF MoveChannel, TypeOK
<1>10. ASSUME NEW t \in Tag, ExpirePin(t) PROVE TypeOK'
  <2>1. cache' = [cache EXCEPT ![t] = [cache[t] EXCEPT !.fresh = FALSE]]
    BY <1>10 DEF ExpirePin, TypeOK
  <2>2. [cache[t] EXCEPT !.fresh = FALSE] \in CacheEntry
    BY DEF TypeOK, CacheEntry
  <2>3. cache' \in [Tag -> CacheEntry]
    BY <2>1, <2>2 DEF TypeOK
  <2> QED BY <1>10, <2>3 DEF ExpirePin, TypeOK
<1>11. CASE PushLatest
  <2>1. registry' \in [Tag -> Nat] /\ pushes' \in Nat
    <3>1. registry' = [registry EXCEPT ![Latest] = registry[Latest] + 1]
      BY <1>11 DEF PushLatest
    <3>2. registry[Latest] + 1 \in Nat
      BY DEF TypeOK, Tag
    <3>3. registry \in [Tag -> Nat] /\ pushes \in Nat
      BY DEF TypeOK
    <3>4. registry' \in [Tag -> Nat]
      BY <3>1, <3>2, <3>3
    <3>5. pushes' \in Nat
      BY <1>11, <3>3 DEF PushLatest
    <3> QED BY <3>4, <3>5
  <2> QED BY <1>11, <2>1 DEF PushLatest, TypeOK
<1>12. CASE UNCHANGED vars
  BY <1>12 DEF vars, TypeOK
<1>13. channel \in MaybeTag /\ NoTag \in MaybeTag
  BY DEF TypeOK, MaybeTag
<1> QED
  BY <1>1, <1>2, <1>3, <1>4, <1>5, <1>6, <1>7, <1>8, <1>9, <1>10, <1>11, <1>12, <1>13
  DEF Next, Step, Environment

-----------------------------------------------------------------------------
\* A digest is comparable once it is one.
LEMMA DigestNat == ASSUME NEW d \in Digest, d # NoDigest PROVE d \in Nat
BY DEF Digest

LEMMA PinInit == Init => PinInv
BY DEF Init, PinInv, NotCached

LEMMA PinStep == TypeOK /\ PinInv /\ [Next]_vars => PinInv'
<1> SUFFICES ASSUME TypeOK, PinInv, [Next]_vars PROVE PinInv'
  OBVIOUS
<1> DEFINE Pins == <<applied, cache, registry, restarted>>
<1> USE Sentinels
<1>0. ASSUME UNCHANGED Pins, pc' = "apply" => UNCHANGED <<pc, pass>> PROVE PinInv'
  BY <1>0 DEF PinInv
<1>1. ASSUME NEW found, BeginPass(found) PROVE PinInv'
  BY <1>0, <1>1 DEF BeginPass
<1>2. CASE PinImage
  <2>1. PICK t \in Tag : t = pass.render
    BY <1>2 DEF PinImage, TypeOK
  <2>2. registry[t] \in Nat /\ \A u \in Tag : registry[u] \in Nat /\ cache[u].digest \in Digest
    BY DEF TypeOK, CacheEntry
  <2>3. UNCHANGED <<applied, registry, restarted>>
    BY <1>2 DEF PinImage
  <2>4. pass'.render = t
    BY <1>2, <2>1 DEF PinImage, TypeOK, Pass
  <2>5. CASE UNCHANGED cache /\ pass'.digest = cache[t].digest
    BY <2>3, <2>4, <2>5 DEF PinInv
  <2>6. CASE cache' = Stored(t, registry[t]) /\ pass'.digest = registry[t]
    <3>1. /\ cache'[t].digest = registry[t]
          /\ \A u \in Tag : u # t => cache'[u] = cache[u]
      BY <2>6 DEF Stored, TypeOK
    <3>2. registry[t] # NoDigest
      BY <2>2
    <3>3. \A u \in Tag : cache'[u].digest # NoDigest => cache'[u].digest <= registry[u]
      BY <2>2, <3>1 DEF PinInv
    <3>4. pass'.digest = cache'[pass'.render].digest
      BY <2>4, <2>6, <3>1
    <3>5. applied.digest # NoDigest =>
            /\ applied.tag \in Tag /\ applied.digest <= registry[applied.tag]
            /\ cache'[applied.tag].digest # NoDigest => applied.digest <= cache'[applied.tag].digest
            /\ ~restarted => cache'[applied.tag].digest # NoDigest
      BY <3>1, <3>2 DEF PinInv
    <3> QED BY <2>3, <3>3, <3>4, <3>5 DEF PinInv
  <2>7. \/ UNCHANGED cache /\ pass'.digest = cache[t].digest
        \/ cache' = Stored(t, registry[t]) /\ pass'.digest = registry[t]
    BY <1>2, <2>1 DEF PinImage, Fallback, TypeOK, Pass
  <2> QED BY <2>5, <2>6, <2>7
<1>3. CASE ApplyImage
  <2>1. UNCHANGED <<cache, registry>> /\ pc' # "apply"
    BY <1>3 DEF ApplyImage
  <2>2. CASE UNCHANGED <<applied, restarted>>
    BY <2>1, <2>2 DEF PinInv
  <2>3. CASE /\ applied' = [tag |-> pass.render, digest |-> pass.digest]
             /\ restarted' = (restarted /\ pass.digest = NoDigest)
    <3>1. pass.render \in Tag /\ pass.digest = cache[pass.render].digest
      BY <1>3 DEF ApplyImage, TypeOK, PinInv
    <3>2. cache[pass.render].digest \in Digest
      BY <3>1 DEF TypeOK, CacheEntry
    <3>3. applied'.tag = pass.render /\ applied'.digest = cache[pass.render].digest
      BY <2>3, <3>1
    <3>4. applied'.digest # NoDigest => applied'.digest <= applied'.digest
      BY <3>2, <3>3, DigestNat
    <3> QED BY <2>1, <3>1, <3>3, <3>4 DEF PinInv
  <2> QED BY <1>3, <2>2, <2>3 DEF ApplyImage
<1>4. CASE WriteStatus \/ ConflictOnWrite \/ AbandonPass
  BY <1>0, <1>4 DEF WriteStatus, ConflictOnWrite, AbandonPass
<1>5. CASE Restart
  <2>1. \A t \in Tag : cache'[t].digest = NoDigest
    BY <1>5 DEF Restart, NotCached
  <2>2. UNCHANGED <<applied, registry>> /\ restarted' /\ pc' = "idle"
    BY <1>5 DEF Restart
  <2> QED BY <2>1, <2>2 DEF PinInv
<1>6. ASSUME NEW p, NEW a, EditSpec(p, a) PROVE PinInv'
  BY <1>0, <1>6 DEF EditSpec
<1>7. ASSUME NEW t, MoveChannel(t) PROVE PinInv'
  BY <1>0, <1>7 DEF MoveChannel
<1>8. ASSUME NEW t \in Tag, ExpirePin(t) PROVE PinInv'
  <2>1. cache' = [cache EXCEPT ![t] = [cache[t] EXCEPT !.fresh = FALSE]]
    BY <1>8 DEF ExpirePin, TypeOK
  <2>2. [cache[t] EXCEPT !.fresh = FALSE].digest = cache[t].digest
    BY DEF TypeOK, CacheEntry
  <2>3. \A u \in Tag : cache'[u].digest = cache[u].digest
    BY <2>1, <2>2 DEF TypeOK
  <2>4. UNCHANGED <<applied, registry, restarted, pc, pass>>
    BY <1>8 DEF ExpirePin
  <2>5. pc = "apply" => pass.render \in Tag
    BY DEF TypeOK
  <2> QED BY <2>3, <2>4, <2>5 DEF PinInv
<1>9. CASE PushLatest
  <2>1. UNCHANGED <<applied, cache, restarted, pc, pass>>
    BY <1>9 DEF PushLatest
  <2>2. \A u \in Tag : registry[u] \in Nat /\ registry'[u] \in Nat /\ registry[u] <= registry'[u]
    BY <1>9 DEF PushLatest, TypeOK, Tag
  <2>3. /\ applied.digest \in Digest
        /\ \A u \in Tag : cache[u].digest \in Digest
    BY DEF TypeOK, ImageRef, CacheEntry
  <2>4. \A u \in Tag : cache[u].digest # NoDigest => cache[u].digest <= registry'[u]
    BY <2>2, <2>3, DigestNat DEF PinInv
  <2>5. applied.digest # NoDigest => applied.tag \in Tag /\ applied.digest <= registry'[applied.tag]
    BY <2>2, <2>3, DigestNat DEF PinInv
  <2> QED BY <2>1, <2>4, <2>5 DEF PinInv
<1>10. CASE UNCHANGED vars
  BY <1>10 DEF vars, PinInv
<1> QED
  BY <1>1, <1>2, <1>3, <1>4, <1>5, <1>6, <1>7, <1>8, <1>9, <1>10 DEF Next, Step, Environment

-----------------------------------------------------------------------------
\* Every variable keeps its type, and every pass renders a tag.
THEOREM TypeCorrect == Spec => []TypeOK
BY TypeInit, TypeStep, PTL DEF Spec

\* What the channel's promises rest on: cached pins are the registry's, and what is
\* applied is no newer than the cached pin of its tag (digest.go, Resolve).
THEOREM PinInvariant == Spec => []PinInv
BY TypeCorrect, PinInit, PinStep, PTL DEF Spec

\* What an apply makes of an image of the same tag, where both are pinned, is no
\* older; and it is another only for a push, in a process that pinned it before.
LEMMA AppliedForward ==
    ASSUME TypeOK, PinInv, [Next]_vars,
           applied'.tag = applied.tag, applied' # applied, applied.digest # NoDigest
    PROVE  /\ applied'.digest # NoDigest => applied'.digest >= applied.digest
           /\ ~restarted => applied'.digest # NoDigest /\ applied'.digest > applied.digest
<1>1. ApplyImage
  <2>1. \A found : ~BeginPass(found)
    BY DEF BeginPass
  <2>2. ~PinImage /\ ~WriteStatus /\ ~ConflictOnWrite /\ ~AbandonPass /\ ~Restart /\ ~PushLatest
    BY DEF PinImage, WriteStatus, ConflictOnWrite, AbandonPass, Restart, PushLatest
  <2>3. \A p, a : ~EditSpec(p, a)
    BY DEF EditSpec
  <2>4. \A t : ~MoveChannel(t) /\ ~ExpirePin(t)
    BY DEF MoveChannel, ExpirePin
  <2> QED BY <2>1, <2>2, <2>3, <2>4 DEF Next, Step, Environment, vars
<1>2. applied' = [tag |-> pass.render, digest |-> pass.digest]
  BY <1>1 DEF ApplyImage
<1>3. pass.digest = cache[applied.tag].digest /\ applied.tag \in Tag
  BY <1>1, <1>2 DEF ApplyImage, PinInv
<1>4. applied.digest \in Nat /\ cache[applied.tag].digest \in Digest
  BY <1>3, DigestNat DEF TypeOK, ImageRef, CacheEntry
<1>5. applied'.digest = cache[applied.tag].digest
  BY <1>2, <1>3
<1>6. applied'.digest # applied.digest
  BY <1>2 DEF TypeOK, ImageRef
<1>7. applied'.digest # NoDigest => applied'.digest \in Nat /\ applied'.digest >= applied.digest
  BY <1>4, <1>5, DigestNat DEF PinInv
<1>8. ~restarted => applied'.digest # NoDigest
  BY <1>5 DEF PinInv
<1> QED BY <1>4, <1>6, <1>7, <1>8

\* The image of a tag only ever moves to a later push of it, through stale pins,
\* failed fetches, restarts and turns to another tag and back (digest/resolver.go:159-188).
THEOREM NeverBack == Spec => NeverRollsBack
<1>1. ASSUME TypeOK, PinInv, [Next]_vars
      PROVE  [applied'.tag = applied.tag /\ NoDigest \notin {applied.digest, applied'.digest}
                => applied'.digest >= applied.digest]_vars
  <2>1. CASE applied' = applied
    <3>0. applied.digest \in Digest
      BY <1>1 DEF TypeOK, ImageRef
    <3>1. applied.digest # NoDigest => applied.digest >= applied.digest
      BY <3>0, DigestNat
    <3> QED BY <2>1, <3>1
  <2>2. CASE applied' # applied
    BY <1>1, <2>2, AppliedForward
  <2> QED BY <2>1, <2>2
<1> QED BY <1>1, TypeCorrect, PinInvariant, PTL DEF Spec, NeverRollsBack

\* Within one life of the operator a pinned component is rolled for its tag only by
\* a push: a registry that does not answer leaves it where it is (resolver.go:174-179).
THEOREM PushesRoll == Spec => RolledByPush
<1>1. ASSUME TypeOK, PinInv, [Next]_vars
      PROVE  [applied'.tag = applied.tag /\ applied' # applied /\ applied.digest # NoDigest
                => restarted \/ (applied'.digest # NoDigest /\ applied'.digest > applied.digest)]_vars
  BY <1>1, AppliedForward
<1> QED BY <1>1, TypeCorrect, PinInvariant, PTL DEF Spec, RolledByPush

=============================================================================
