----------------------------- MODULE ChartCache -----------------------------
(***************************************************************************)
(* The chart fetcher's cache (addon/fetch.go): what Fetch serves an addon  *)
(* while charts are pushed, registries fail and the cache runs full.       *)
(*                                                                         *)
(* An archive is named by its own digest and, when it came from an OCI     *)
(* registry, by the digest of the manifest it came with; what is cached is *)
(* named by the fetch it came with, in the order of the fetches. Addons    *)
(* are reconciled one at a time, so a Fetch is one step. Left out: how a   *)
(* chart travels - redirects, timeouts, refused addresses, an archive over *)
(* MaxArchiveSize: each is a fetch that fails.                             *)
(***************************************************************************)
EXTENDS Naturals, Sequences

CONSTANTS
    OCI, HTTPS,     \* chart refs
    Version,
    Archive, Manifest,
    ArchiveOf,      \* the archive a manifest is of
    Size,           \* of an archive
    MaxCached,      \* maxCachedBytes
    None,
    MaxPushes,      \* bound: charts pushed
    MaxFetches      \* bound: fetches that reach the network between two restarts

ASSUME Shape ==
    /\ ArchiveOf \in [Manifest -> Archive] /\ Size \in [Archive -> Nat]
    /\ Archive \intersect Manifest = {} /\ None \notin Archive \union Manifest
    /\ MaxCached \in Nat /\ MaxPushes \in Nat /\ MaxFetches \in Nat

VARIABLES
    registry,       \* what the network holds at each place
    fetched,        \* the fetches stored since the operator started
    archives,       \* the cache: by digest, the fetch it is held from, or 0
    refs,           \* by ref and version, the fetch it last was, or 0, and its TTL
    answer,         \* the last Fetch: what was asked, how, and what came back
    pushes

cacheVars == <<registry, fetched, archives, refs, answer, pushes>>

-----------------------------------------------------------------------------
Digest == Archive \union Manifest
Chart == [ref : OCI \union HTTPS, version : Version, digest : Digest \union {None}]

\* The version only matters for OCI refs.
RefOnly(c) == <<c.ref>>

refKey(c) == IF c.ref \in OCI THEN <<c.ref, c.version>> ELSE <<c.ref>>

Key == {refKey(c) : c \in Chart}

\* Where a chart is: its repository and tag, or its link.
Place == OCI \X Version \union {<<r>> : r \in HTTPS}
PlaceOf(c) == IF c.ref \in OCI THEN <<c.ref, c.version>> ELSE <<c.ref>>

\* What is fetched from there: the archive, and the digests it has besides its own.
Pushed(p) ==
    IF Len(p) = 2 THEN {[archive |-> ArchiveOf[m], aliases |-> {m}] : m \in Manifest}
    ELSE {[archive |-> a, aliases |-> {}] : a \in Archive}

Nothing == [archive |-> None, aliases |-> {}]
Content == {Nothing} \union UNION {Pushed(p) : p \in Place}

Unasked == [chart |-> None, fresh |-> FALSE, reached |-> FALSE, got |-> None]

NotCached == [d \in Digest |-> 0]
NotFetched == [key \in Key |-> [at |-> 0, expired |-> FALSE]]

CacheInit ==
    /\ registry = [p \in Place |-> Nothing]
    /\ fetched = <<>> /\ archives = NotCached /\ refs = NotFetched
    /\ answer = Unasked
    /\ pushes = 0

-----------------------------------------------------------------------------
(* The cache *)

\* The archive found under a digest, if any.
Under(d) == IF archives[d] = 0 THEN {} ELSE {fetched[archives[d]].archive}

\* The archive last fetched for a key, within its TTL or stale.
cachedRef(key, allowStale) ==
    IF refs[key].at = 0 \/ (refs[key].expired /\ ~allowStale) THEN {}
    ELSE Under(fetched[refs[key].at].archive)

\* The bytes that the fetches of I brought.
Bytes(f, I) ==
    LET upTo[n \in Nat] ==
            IF n = 0 THEN 0 ELSE upTo[n - 1] + (IF n \in I THEN Size[f[n].archive] ELSE 0)
    IN  upTo[Len(f)]

\* What the cache holds.
Held(found) == {found[d] : d \in Digest} \ {0}

\* The cache within its bound, or with one entry, however large it is.
Fits(f, held) == Bytes(f, held) <= MaxCached \/ \A i, j \in held : i = j

\* The cache without what came before fetch n.
Since(found, n) == [d \in Digest |-> IF found[d] >= n THEN found[d] ELSE 0]

evictOne(f, found) ==
    IF Fits(f, Held(found)) THEN found
    ELSE Since(found, 1 + CHOOSE n \in Held(found) : \A i \in Held(found) : n <= i)

\* The oldest go until the rest fits.
evict(f, found) ==
    Since(found, CHOOSE n \in 1 .. Len(f) :
        /\ Fits(f, Held(Since(found, n)))
        /\ \A i \in 1 .. n - 1 : ~Fits(f, Held(Since(found, i))))

\* The new entry takes its digests over from older ones; an entry under no
\* digest any more is forgotten.
store(c, got) ==
    LET f == Append(fetched, [place |-> PlaceOf(c), archive |-> got.archive])
        names == {got.archive} \union got.aliases
    IN  /\ fetched' = f
        /\ archives' = evict(f, [d \in Digest |-> IF d \in names THEN Len(f) ELSE archives[d]])
        /\ refs' = [refs EXCEPT ![refKey(c)] = [at |-> Len(f), expired |-> FALSE]]

-----------------------------------------------------------------------------
(* Fetch *)

Answer(c, fresh, reached, got) ==
    answer' = [chart |-> c, fresh |-> fresh, reached |-> reached, got |-> got]

\* What is served without the network.
Cached(c, fresh) ==
    IF c.digest # None THEN Under(c.digest)
    ELSE IF fresh THEN {} ELSE cachedRef(refKey(c), FALSE)

FromCache(c, fresh) ==
    /\ \E a \in Cached(c, fresh) : Answer(c, fresh, FALSE, a)
    /\ UNCHANGED <<archives, refs, fetched>>

\* The network answers - unless what it holds is not what the addon pins.
MatchesAny(c, got) == TRUE

Matches(c, got) == c.digest = None \/ c.digest \in {got.archive} \union got.aliases

FromNetwork(c, fresh) ==
    LET got == registry[PlaceOf(c)] IN
    /\ Cached(c, fresh) = {} /\ got # Nothing
    /\ Len(fetched) < MaxFetches
    /\ IF Matches(c, got) THEN
          /\ store(c, got)
          /\ Answer(c, fresh, TRUE, got.archive)
       ELSE Answer(c, fresh, TRUE, None) /\ UNCHANGED <<archives, refs, fetched>>

\* It does not, or holds nothing there: an unpinned ref has the archive last
\* fetched for it served instead.
Unreached(c, fresh) ==
    /\ Cached(c, fresh) = {}
    /\ LET old == IF c.digest = None THEN cachedRef(refKey(c), TRUE) ELSE {} IN
       IF old = {} THEN Answer(c, fresh, FALSE, None) ELSE \E a \in old : Answer(c, fresh, FALSE, a)
    /\ UNCHANGED <<archives, refs, fetched>>

Fetch(c, fresh) ==
    /\ FromCache(c, fresh) \/ FromNetwork(c, fresh) \/ Unreached(c, fresh)
    /\ UNCHANGED <<registry, pushes>>

-----------------------------------------------------------------------------
\* DefaultRefTTL passes for the refs fetched first.
Expire ==
    /\ \E n \in DOMAIN fetched :
          refs' = [key \in Key |->
                      [refs[key] EXCEPT !.expired = @ \/ refs[key].at \in 1 .. n]]
    /\ refs' # refs
    /\ UNCHANGED <<registry, fetched, archives, answer, pushes>>

\* The operator starts again with an empty cache.
Restart ==
    /\ fetched # <<>>
    /\ fetched' = <<>> /\ archives' = NotCached /\ refs' = NotFetched
    /\ answer' = Unasked
    /\ UNCHANGED <<registry, pushes>>

\* Someone pushes a chart, a moving tag anew perhaps.
Push(p) ==
    /\ pushes < MaxPushes /\ pushes' = pushes + 1
    /\ \E c \in Pushed(p) \ {registry[p]} : registry' = [registry EXCEPT ![p] = c]
    /\ UNCHANGED <<archives, refs, answer, fetched>>

CacheNext ==
    \/ \E c \in Chart, fresh \in BOOLEAN : Fetch(c, fresh)
    \/ Expire \/ Restart
    \/ \E p \in Place : Push(p)

CacheSpec == CacheInit /\ [][CacheNext]_cacheVars

-----------------------------------------------------------------------------
(* Properties *)

\* Every variable has its type: the cache refers to fetches there were. And it
\* stays within its bound, "the oldest archives go first" (fetch.go:33), an archive
\* held under digests of several fetches counted for each, unless all it holds is
\* one fetch.
CacheOK ==
    /\ registry \in [Place -> Content]
    /\ fetched \in Seq([place : Place, archive : Archive])
    /\ archives \in [Digest -> 0 .. Len(fetched)]
    /\ refs \in [Key -> [at : 0 .. Len(fetched), expired : BOOLEAN]]
    /\ answer \in [chart : Chart, fresh : BOOLEAN, reached : BOOLEAN, got : Archive \union {None}]
                     \union {Unasked}
    /\ pushes \in Nat
    /\ Fits(fetched, Held(archives))

Asked == answer # Unasked

\* The fetches for a chart's place, the latest of them, and all the bytes
\* fetched from then on.
For(c) == {i \in DOMAIN fetched : fetched[i].place = PlaceOf(c)}
Latest(c) == CHOOSE i \in For(c) : \A j \in For(c) : j <= i
BytesSince(c) == Bytes(fetched, Latest(c) .. Len(fetched))

\* "chart.digest may pin either" (fetch.go:175): a pinned chart is the archive of
\* that digest or of that manifest, from the network or from the cache, whatever
\* has been pushed, fetched and evicted under the same ref meanwhile.
PinnedIsExact ==
    Asked /\ answer.chart.digest # None /\ answer.got # None =>
        \/ answer.chart.digest = answer.got
        \/ answer.chart.digest \in Manifest /\ ArchiveOf[answer.chart.digest] = answer.got

\* "the archive last fetched for it is served" and "a registry blip must not fail
\* an addon that is already installed" (fetch.go:79-80): an unpinned chart is what
\* its place holds or what was last fetched from that very place, and it is found
\* for as long as the archives fetched since fit the cache beside it.
ServesItsPlace ==
    Asked /\ answer.chart.digest = None =>
        \/ /\ answer.got # None /\ For(answer.chart) # {}
           /\ answer.got = fetched[Latest(answer.chart)].archive
        \/ /\ answer.got = None
           /\ For(answer.chart) = {} \/ BytesSince(answer.chart) > MaxCached

=============================================================================
