------------------------------ MODULE Channel ------------------------------
(***************************************************************************)
(* What the platform runs: the tag a pass renders (internal/updates and    *)
(* resolveUpdate) and the digest it pins that tag to (internal/digest and  *)
(* pinDigests), from channel discovery to status.currentVersion, which the *)
(* next pass decides by.                                                   *)
(*                                                                         *)
(* Abstracted: one image stands for all, as each is resolved and applied   *)
(* by itself; the channel document and the registry are external, and a    *)
(* push raises the number that stands for a tag's digest. A release tag is *)
(* pushed once. Digest pinning is on (PinDigests).                         *)
(***************************************************************************)
EXTENDS Naturals

CONSTANTS
    Release,        \* tags of releases
    Latest,         \* the moving tag
    NoTag, NoDigest,
    MaxEdits,       \* bound: edits of the spec and moves of the channel
    MaxPushes,      \* bound: pushes to Latest
    MaxFaults       \* bound: failed fetches, failed applies, lost passes, restarts

Tag == Release \union {Latest}

ASSUME Sentinels == Latest \notin Release /\ NoTag \notin Tag /\ NoDigest \notin Nat
ASSUME Bounds == MaxEdits \in Nat /\ MaxPushes \in Nat /\ MaxFaults \in Nat

VARIABLES
    pin, auto,              \* spec.version where it pins a tag; spec.update.mode
    channel,                \* the tag spec.channel points at
    registry,               \* what each tag serves
    current, available,     \* status.currentVersion and availableUpdate
    applied,                \* the image the Deployment names
    cache,                  \* the resolver's cache, in the operator's memory
    pc, pass, stale,
    restarted,              \* observer: a process that has pinned nothing yet
    edits, pushes, faults

vars == <<pin, auto, channel, registry, current, available, applied, cache,
          pc, pass, stale, restarted, edits, pushes, faults>>

-----------------------------------------------------------------------------
Digest  == Nat \union {NoDigest}
MaybeTag == Tag \union {NoTag}

\* An image by its tag, pinned to a digest or not.
ImageRef == [tag : MaybeTag, digest : Digest]

\* A cached pin, and whether it is younger than the TTL.
CacheEntry == [digest : Digest, fresh : BOOLEAN]
NotCached  == [digest |-> NoDigest, fresh |-> FALSE]

\* The decision of the pass, whether discovery failed, and the digest pinned.
Pass   == [render : MaybeTag, available : MaybeTag, digest : Digest]
NoPass == [render |-> NoTag, available |-> NoTag, digest |-> NoDigest]

Init ==
    /\ pin \in MaybeTag \ {Latest} /\ auto \in BOOLEAN /\ channel \in Tag
    /\ registry = [t \in Tag |-> 0]
    /\ current = NoTag /\ available = NoTag
    /\ applied = [tag |-> NoTag, digest |-> NoDigest]
    /\ cache = [t \in Tag |-> NotCached]
    /\ pc = "idle" /\ pass = NoPass /\ stale = FALSE /\ restarted = TRUE
    /\ edits = 0 /\ pushes = 0 /\ faults = 0

Fault == faults < MaxFaults /\ faults' = faults + 1

-----------------------------------------------------------------------------
(* The pass *)

\* Decide: the tag to render and the update to surface. found is the channel's
\* target, NoTag where discovery failed. First a form that breaks the contract:
\* a held install that is not told.
DecideNotTelling(found) ==
    IF pin # NoTag THEN [render |-> pin, available |-> NoTag]
    ELSE IF found = NoTag
         THEN [render |-> IF current # NoTag THEN current ELSE Latest, available |-> NoTag]
    ELSE IF auto \/ current = NoTag \/ found = Latest
         THEN [render |-> found, available |-> NoTag]
    ELSE [render |-> current, available |-> NoTag]

Decide(found) ==
    IF pin # NoTag THEN [render |-> pin, available |-> NoTag]
    ELSE IF found = NoTag
         THEN [render |-> IF current # NoTag THEN current ELSE Latest, available |-> NoTag]
    ELSE IF auto \/ current = NoTag \/ found = Latest
         THEN [render |-> found, available |-> NoTag]
    ELSE [render |-> current, available |-> IF found # current THEN found ELSE NoTag]

\* resolveUpdate: a pinned install does not ask; a failed fetch is no error.
BeginPass(found) ==
    /\ pc = "idle" /\ pc' = "pin"
    /\ IF found = NoTag /\ pin = NoTag THEN Fault ELSE UNCHANGED faults
    /\ pass' = [render |-> Decide(found).render, available |-> Decide(found).available,
                digest |-> NoDigest]
    /\ stale' = FALSE
    /\ UNCHANGED <<pin, auto, channel, registry, current, available, applied, cache,
                   restarted, edits, pushes>>

\* What a failed fetch leaves of a pin: the last known digest, whatever its age;
\* the broken form goes back to the tag.
FallbackToTag(t) == NoDigest

Fallback(t) == cache[t].digest

\* The cache once a fetch answered d; the broken form keeps the first answer.
StoredOnce(t, d) ==
    IF cache[t].digest = NoDigest
    THEN [cache EXCEPT ![t] = [digest |-> d, fresh |-> TRUE]] ELSE cache

Stored(t, d) == [cache EXCEPT ![t] = [digest |-> d, fresh |-> TRUE]]

\* Resolve: a fresh pin is kept, an expired one is fetched again, and while the
\* registry does not answer the last known one stands.
PinImage ==
    /\ pc = "pin" /\ pc' = "apply"
    /\ LET t == pass.render IN
       \/ /\ cache[t].fresh
          /\ pass' = [pass EXCEPT !.digest = cache[t].digest]
          /\ UNCHANGED <<cache, faults>>
       \/ /\ ~cache[t].fresh
          /\ pass' = [pass EXCEPT !.digest = registry[t]]
          /\ cache' = Stored(t, registry[t])
          /\ UNCHANGED faults
       \/ /\ ~cache[t].fresh /\ Fault
          /\ pass' = [pass EXCEPT !.digest = Fallback(t)]
          /\ UNCHANGED cache
    /\ UNCHANGED <<pin, auto, channel, registry, current, available, applied, stale,
                   restarted, edits, pushes>>

\* Everything is applied; an apply that fails may have done this one, and the
\* pass ends with currentVersion as it was.
ApplyImage ==
    /\ pc = "apply"
    /\ \/ pc' = "write" /\ UNCHANGED faults
       \/ pc' = "idle" /\ Fault
    /\ \/ /\ applied' = [tag |-> pass.render, digest |-> pass.digest]
          /\ restarted' = (restarted /\ pass.digest = NoDigest)
       \/ UNCHANGED <<applied, restarted>> /\ pc' = "idle"
    /\ UNCHANGED <<pin, auto, channel, registry, current, available, cache, pass, stale,
                   edits, pushes>>

WriteStatus ==
    /\ pc = "write" /\ ~stale /\ pc' = "idle"
    /\ current' = pass.render /\ available' = pass.available
    /\ UNCHANGED <<pin, auto, channel, registry, applied, cache, pass, stale, restarted,
                   edits, pushes, faults>>

ConflictOnWrite ==
    /\ pc = "write" /\ stale /\ pc' = "idle"
    /\ UNCHANGED <<pin, auto, channel, registry, current, available, applied, cache, pass, stale,
                   restarted, edits, pushes, faults>>

\* An error ends the pass before its status is written.
AbandonPass ==
    /\ pc # "idle" /\ pc' = "idle" /\ Fault
    /\ UNCHANGED <<pin, auto, channel, registry, current, available, applied, cache, pass, stale,
                   restarted, edits, pushes>>

\* The operator dies: the resolver's cache goes with it.
Restart ==
    /\ pc' = "idle" /\ Fault
    /\ cache' = [t \in Tag |-> NotCached]
    /\ restarted' = TRUE
    /\ UNCHANGED <<pin, auto, channel, registry, current, available, applied, pass, stale,
                   edits, pushes>>

Step ==
    \/ BeginPass(channel) \/ BeginPass(NoTag)
    \/ PinImage \/ ApplyImage \/ WriteStatus \/ ConflictOnWrite

-----------------------------------------------------------------------------
(* Around the pass *)

EditSpec(p, a) ==
    /\ edits < MaxEdits /\ edits' = edits + 1
    /\ <<p, a>> # <<pin, auto>> /\ pin' = p /\ auto' = a
    /\ stale' = (pc # "idle")
    /\ UNCHANGED <<channel, registry, current, available, applied, cache, pc, pass, restarted,
                   pushes, faults>>

\* A release is published, or spec.channel is edited to name another channel.
MoveChannel(t) ==
    /\ edits < MaxEdits /\ edits' = edits + 1
    /\ t # channel /\ channel' = t
    /\ stale' \in {stale, pc # "idle"}
    /\ UNCHANGED <<pin, auto, registry, current, available, applied, cache, pc, pass,
                   restarted, pushes, faults>>

PushLatest ==
    /\ pushes < MaxPushes /\ pushes' = pushes + 1
    /\ registry' = [registry EXCEPT ![Latest] = @ + 1]
    /\ UNCHANGED <<pin, auto, channel, current, available, applied, cache, pc, pass, stale,
                   restarted, edits, faults>>

\* The TTL of a pin is over.
ExpirePin(t) ==
    /\ cache[t].fresh
    /\ cache' = [cache EXCEPT ![t].fresh = FALSE]
    /\ UNCHANGED <<pin, auto, channel, registry, current, available, applied, pc, pass, stale,
                   restarted, edits, pushes, faults>>

Environment ==
    \/ \E p \in MaybeTag \ {Latest}, a \in BOOLEAN : EditSpec(p, a)
    \/ \E t \in Tag : MoveChannel(t) \/ ExpirePin(t)
    \/ PushLatest

Next == Step \/ AbandonPass \/ Restart \/ Environment

Spec == Init /\ [][Next]_vars

\* Passes recur, and a pin's TTL passes.
FairSpec == Spec /\ WF_vars(Step) /\ \A t \in Tag : WF_vars(ExpirePin(t))

-----------------------------------------------------------------------------
(* Properties *)

\* Every variable has its type.
TypeOK ==
    /\ pin \in MaybeTag /\ auto \in BOOLEAN /\ channel \in Tag
    /\ registry \in [Tag -> Nat]
    /\ current \in MaybeTag /\ available \in MaybeTag
    /\ applied \in ImageRef /\ cache \in [Tag -> CacheEntry]
    /\ pc \in {"idle", "pin", "apply", "write"} /\ pass \in Pass /\ stale \in BOOLEAN
    /\ pc # "idle" => pass.render \in Tag
    /\ restarted \in BOOLEAN
    /\ edits \in Nat /\ pushes \in Nat /\ faults \in Nat

\* The image of a tag only ever moves to a later push of it, across stale pins,
\* failed fetches, restarts and turns to another tag and back.
NeverRollsBack ==
    [][applied'.tag = applied.tag /\ NoDigest \notin {applied.digest, applied'.digest}
         => applied'.digest >= applied.digest]_vars

\* Within one life of the operator a component that is pinned is rolled for its
\* tag only by a push: a registry that does not answer leaves it where it is
\* (resolver.go:174-179).
RolledByPush ==
    [][applied'.tag = applied.tag /\ applied' # applied /\ applied.digest # NoDigest
         => restarted \/ (applied'.digest # NoDigest /\ applied'.digest > applied.digest)]_vars

\* Once edits and pushes stop, the install rests at what the contract says of
\* its spec and channel (decision.go:34-47), on the newest image of its tag, and
\* a release it is held from is surfaced.
Settles ==
    <>[](/\ applied.tag \in Tag
         /\ current = applied.tag /\ applied.digest = registry[applied.tag]
         /\ pin # NoTag => applied.tag = pin
         /\ pin = NoTag /\ (auto \/ channel = Latest) => applied.tag = channel
         /\ pin = NoTag => channel \in {applied.tag, available})

=============================================================================
