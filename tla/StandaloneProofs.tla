-------------------------- MODULE StandaloneProofs --------------------------
(***************************************************************************)
(* What the three modules promise that share nothing with another one, for *)
(* every value of their constants: the chart fetcher's cache (ChartCache), *)
(* the rollout and the phase (Rollout) and the backup report (Backup). A   *)
(* section is about one of them and its specification only.                *)
(***************************************************************************)
EXTENDS ChartCache, Rollout, Backup, FiniteSetTheorems, TLAPS

-----------------------------------------------------------------------------
(* Naturals and sums *)

\* Every non-empty set of naturals has a least one.
LEMMA LeastNumber ==
    ASSUME NEW S, S \subseteq Nat, S # {}
    PROVE  \E m \in S : \A n \in S : m <= n
<1> DEFINE Below == {0 .. n : n \in S}
<1>1. Below \subseteq FiniteSubsetsOf(Nat) /\ Below # {}
  <2>1. \A n \in S : 0 .. n \in FiniteSubsetsOf(Nat)
    BY FS_Interval DEF FiniteSubsetsOf
  <2> QED BY <2>1
<1>2. IsWellFoundedOn(StrictSubsetOrdering(Nat), FiniteSubsetsOf(Nat))
  BY FS_StrictSubsetOrderingWellFounded
<1>3. PICK x \in Below : \A y \in Below : ~(<<y, x>> \in StrictSubsetOrdering(Nat))
  <2> HIDE DEF Below
  <2> QED BY <1>1, <1>2, WFMin
<1>4. PICK m \in S : x = 0 .. m
  BY <1>3
<1>5. ASSUME NEW n \in S, n < m PROVE FALSE
  <2>1. 0 .. n \subseteq 0 .. m /\ m \in 0 .. m /\ m \notin 0 .. n
    BY <1>5
  <2>2. <<0 .. n, x>> \in StrictSubsetOrdering(Nat)
    BY <1>4, <2>1 DEF StrictSubsetOrdering
  <2> QED BY <1>3, <2>2
<1> QED BY <1>5

\* A set that holds 0 and the successor of each natural it holds holds them all.
LEMMA AllNaturals ==
    ASSUME NEW S, 0 \in S, \A n \in Nat : n \in S => n + 1 \in S
    PROVE  Nat \subseteq S
<1> SUFFICES ASSUME Nat \ S # {} PROVE FALSE
  OBVIOUS
<1>1. PICK m \in Nat \ S : \A n \in Nat \ S : m <= n
  <2>1. Nat \ S \subseteq Nat
    OBVIOUS
  <2> QED BY <2>1, LeastNumber
<1>2. m # 0 /\ m - 1 \in Nat /\ m = (m - 1) + 1 /\ ~(m <= m - 1)
  BY <1>1
<1> QED BY <1>1, <1>2

-----------------------------------------------------------------------------
\* g adds d up, as far as n.
Adds(g, d, n) == \A k \in 0 .. n : g[k] = IF k = 0 THEN 0 ELSE g[k - 1] + d[k]

\* Two functions that add up the same steps agree as far as they do.
LEMMA AddsUnique ==
    ASSUME NEW d \in [Nat -> Nat], NEW m \in Nat, NEW g, NEW h, Adds(g, d, m), Adds(h, d, m)
    PROVE  \A k \in 0 .. m : g[k] = h[k]
<1> DEFINE S == {k \in Nat : k \in 0 .. m => g[k] = h[k]}
<1>1. 0 \in S
  BY DEF Adds
<1>2. ASSUME NEW k \in Nat, k \in S PROVE k + 1 \in S
  <2> SUFFICES ASSUME k + 1 \in 0 .. m PROVE g[k + 1] = h[k + 1]
    OBVIOUS
  <2>1. g[k] = h[k]
    BY <1>2
  <2>2. (k + 1) - 1 = k /\ k + 1 # 0
    OBVIOUS
  <2>3. g[k + 1] = g[k] + d[k + 1] /\ h[k + 1] = h[k] + d[k + 1]
    BY <2>2 DEF Adds
  <2> QED BY <2>1, <2>3
<1>3. Nat \subseteq S
  <2> HIDE DEF S
  <2> QED BY <1>1, <1>2, AllNaturals
<1> QED BY <1>3

\* Up to every n there is a function that adds the steps up.
LEMMA AddsUpTo ==
    ASSUME NEW d \in [Nat -> Nat]
    PROVE  \A n \in Nat : \E g \in [0 .. n -> Nat] : Adds(g, d, n)
<1> DEFINE S == {n \in Nat : \E g \in [0 .. n -> Nat] : Adds(g, d, n)}
<1>1. 0 \in S
  <2>1. Adds([k \in 0 .. 0 |-> 0], d, 0) /\ [k \in 0 .. 0 |-> 0] \in [0 .. 0 -> Nat]
    BY DEF Adds
  <2> QED BY <2>1
<1>2. ASSUME NEW n \in Nat, NEW g \in [0 .. n -> Nat], Adds(g, d, n)
      PROVE  \E h \in [0 .. n + 1 -> Nat] : Adds(h, d, n + 1)
  <2> DEFINE h == [k \in 0 .. n + 1 |-> IF k = n + 1 THEN g[n] + d[n + 1] ELSE g[k]]
  <2>1. \A k \in 0 .. n + 1 : k # n + 1 => k \in 0 .. n
    OBVIOUS
  <2>2. h \in [0 .. n + 1 -> Nat]
    <3>1. g[n] + d[n + 1] \in Nat
      <4>1. n \in 0 .. n /\ n + 1 \in Nat
        OBVIOUS
      <4>2. \A x, y \in Nat : x + y \in Nat
        OBVIOUS
      <4> QED BY <4>1, <4>2, Zenon
    <3>2. \A k \in 0 .. n + 1 : (IF k = n + 1 THEN g[n] + d[n + 1] ELSE g[k]) \in Nat
      BY <2>1, <3>1
    <3> QED BY <3>2
  <2>3. ASSUME NEW k \in 0 .. n + 1 PROVE h[k] = IF k = 0 THEN 0 ELSE h[k - 1] + d[k]
    <3>1. CASE k = n + 1
      BY <3>1
    <3>2. CASE k # n + 1
      <4>1. g[k] = IF k = 0 THEN 0 ELSE g[k - 1] + d[k]
        BY <1>2, <2>1, <3>2 DEF Adds
      <4>2. k # 0 => k - 1 \in 0 .. n + 1 /\ k - 1 # n + 1
        OBVIOUS
      <4> QED BY <3>2, <4>1, <4>2
    <3> QED BY <3>1, <3>2
  <2>4. Adds(h, d, n + 1)
    BY <2>3 DEF Adds
  <2> QED BY <2>2, <2>4
<1>3. Nat \subseteq S
  <2>1. ASSUME NEW n \in Nat, n \in S PROVE n + 1 \in S
    <3>1. PICK g \in [0 .. n -> Nat] : Adds(g, d, n)
      BY <2>1
    <3>2. \E h \in [0 .. n + 1 -> Nat] : Adds(h, d, n + 1)
      BY <1>2, <3>1
    <3>3. n + 1 \in Nat
      OBVIOUS
    <3> QED BY <3>2, <3>3
  <2> HIDE DEF S
  <2> QED BY <1>1, <2>1, AllNaturals
<1> QED BY <1>3

IsSum(s, d) == \A n \in Nat : s[n] = IF n = 0 THEN 0 ELSE s[n - 1] + d[n]

\* On the naturals there is at most one such function.
LEMMA SumUnique ==
    ASSUME NEW d \in [Nat -> Nat], NEW r, NEW s, IsSum(r, d), IsSum(s, d)
    PROVE  \A n \in Nat : r[n] = s[n]
<1> SUFFICES ASSUME NEW n \in Nat PROVE r[n] = s[n]
  OBVIOUS
<1>1. Adds(r, d, n) /\ Adds(s, d, n) /\ n \in 0 .. n
  BY DEF Adds, IsSum
<1> QED BY <1>1, AddsUnique

\* And there is one.
LEMMA SumExists ==
    ASSUME NEW d \in [Nat -> Nat]
    PROVE  \E s \in [Nat -> Nat] : IsSum(s, d)
<1> DEFINE part(n) == CHOOSE g \in [0 .. n -> Nat] : Adds(g, d, n)
           s == [n \in Nat |-> part(n)[n]]
<1>1. \A n \in Nat : part(n) \in [0 .. n -> Nat] /\ Adds(part(n), d, n)
  BY AddsUpTo
<1> HIDE DEF part
<1>2. s \in [Nat -> Nat]
  BY <1>1
<1>3. ASSUME NEW n \in Nat PROVE s[n] = IF n = 0 THEN 0 ELSE s[n - 1] + d[n]
  <2>1. CASE n = 0
    <3>1. 0 \in 0 .. 0 /\ Adds(part(0), d, 0)
      BY <1>1
    <3>2. part(0)[0] = 0
      BY <3>1 DEF Adds
    <3> QED BY <2>1, <3>2
  <2>2. CASE n # 0
    <3>1. n - 1 \in Nat /\ 0 .. n - 1 \subseteq 0 .. n
      BY <2>2
    <3>2. Adds(part(n), d, n - 1) /\ Adds(part(n - 1), d, n - 1)
      BY <1>1, <3>1 DEF Adds
    <3>3. part(n)[n - 1] = part(n - 1)[n - 1]
      BY <3>1, <3>2, AddsUnique
    <3>4. part(n)[n] = part(n)[n - 1] + d[n]
      BY <1>1, <2>2 DEF Adds
    <3> QED BY <2>2, <3>1, <3>3, <3>4
  <2> QED BY <2>1, <2>2
<1> QED BY <1>2, <1>3 DEF IsSum

\* There is one sum, and every other agrees with it.
LEMMA TheSum ==
    ASSUME NEW d \in [Nat -> Nat]
    PROVE  \E s \in [Nat -> Nat] :
              IsSum(s, d) /\ \A r : IsSum(r, d) => \A n \in Nat : r[n] = s[n]
<1>1. PICK s \in [Nat -> Nat] : IsSum(s, d)
  BY SumExists
<1>2. ASSUME NEW r, IsSum(r, d) PROVE \A n \in Nat : r[n] = s[n]
  BY <1>1, <1>2, SumUnique
<1> QED BY <1>1, <1>2

\* What Bytes adds up, step by step.
LEMMA BytesSum ==
    ASSUME NEW f, Len(f) \in Nat, NEW I,
           NEW d \in [Nat -> Nat], \A n \in Nat : d[n] = IF n \in I THEN Size[f[n].archive] ELSE 0
    PROVE  \E s \in [Nat -> Nat] : Bytes(f, I) = s[Len(f)] /\ IsSum(s, d)
<1> DEFINE Solves(s) == s = [n \in Nat |-> IF n = 0 THEN 0
                                           ELSE s[n - 1] + (IF n \in I THEN Size[f[n].archive] ELSE 0)]
<1>1. PICK s \in [Nat -> Nat] : IsSum(s, d) /\ \A r : IsSum(r, d) => \A n \in Nat : r[n] = s[n]
  BY TheSum
<1>2. Solves(s)
  <2>1. IsSum(s, d)
    BY <1>1
  <2> QED BY <2>1 DEF IsSum
<1>3. PICK r : Solves(r) /\ Bytes(f, I) = r[Len(f)]
  BY <1>2 DEF Bytes
<1>4. IsSum(r, d)
  <2>1. \A n \in Nat : r[n] = IF n = 0 THEN 0 ELSE r[n - 1] + (IF n \in I THEN Size[f[n].archive] ELSE 0)
    BY <1>3
  <2> QED BY <2>1 DEF IsSum
<1> HIDE DEF Solves
<1> QED BY <1>1, <1>3, <1>4

Entry == [place : Place, archive : Archive]

\* What grows by nothing less at each step grows.
LEMMA SumGrows ==
    ASSUME NEW d \in [Nat -> Nat], NEW s \in [Nat -> Nat], IsSum(s, d), NEW m \in Nat
    PROVE  \A n \in Nat : s[m] <= s[m + n]
<1> DEFINE S == {n \in Nat : s[m] <= s[m + n]}
<1>1. 0 \in S
  BY m + 0 = m
<1>2. ASSUME NEW n \in Nat, n \in S PROVE n + 1 \in S
  <2>1. m + (n + 1) \in Nat /\ m + (n + 1) # 0 /\ (m + (n + 1)) - 1 = m + n /\ m + n \in Nat
    OBVIOUS
  <2>2. s[m + (n + 1)] = s[m + n] + d[m + (n + 1)]
    BY <2>1 DEF IsSum
  <2>3. s[m + n] \in Nat /\ d[m + (n + 1)] \in Nat /\ s[m] \in Nat
    BY <2>1
  <2>4. s[m] <= s[m + (n + 1)]
    BY <1>2, <2>2, <2>3
  <2> QED BY <2>4
<1>3. Nat \subseteq S
  <2> HIDE DEF S
  <2> QED BY <1>1, <1>2, AllNaturals
<1> QED BY <1>3

\* What grows slower stays smaller.
LEMMA SumSmaller ==
    ASSUME NEW d \in [Nat -> Nat], NEW e \in [Nat -> Nat], NEW s \in [Nat -> Nat], NEW t \in [Nat -> Nat],
           IsSum(s, d), IsSum(t, e), \A n \in Nat : d[n] <= e[n]
    PROVE  \A n \in Nat : s[n] <= t[n]
<1> DEFINE S == {n \in Nat : s[n] <= t[n]}
<1>1. 0 \in S
  BY DEF IsSum
<1>2. ASSUME NEW n \in Nat, n \in S PROVE n + 1 \in S
  <2>1. n + 1 \in Nat /\ n + 1 # 0 /\ (n + 1) - 1 = n
    OBVIOUS
  <2>2. s[n + 1] = s[n] + d[n + 1] /\ t[n + 1] = t[n] + e[n + 1]
    BY <2>1 DEF IsSum
  <2>3. s[n] \in Nat /\ t[n] \in Nat /\ d[n + 1] \in Nat /\ e[n + 1] \in Nat /\ d[n + 1] <= e[n + 1]
    BY <2>1
  <2>4. s[n + 1] <= t[n + 1]
    BY <1>2, <2>2, <2>3
  <2> QED BY <2>1, <2>4
<1>3. Nat \subseteq S
  <2> HIDE DEF S
  <2> QED BY <1>1, <1>2, AllNaturals
<1> QED BY <1>3

\* The fetches of I bring no more bytes than those of a set that holds I, of a
\* longer history.
LEMMA BytesGrow ==
    ASSUME NEW f \in Seq(Entry), NEW g \in Seq(Entry), Len(f) <= Len(g),
           NEW I \in SUBSET (1 .. Len(f)), NEW J \in SUBSET (1 .. Len(g)),
           \A n \in I : n \in J /\ g[n] = f[n]
    PROVE  Bytes(f, I) \in Nat /\ Bytes(g, J) \in Nat /\ Bytes(f, I) <= Bytes(g, J)
<1> DEFINE d == [n \in Nat |-> IF n \in I THEN Size[f[n].archive] ELSE 0]
           e == [n \in Nat |-> IF n \in J THEN Size[g[n].archive] ELSE 0]
<1>1. \A n \in 1 .. Len(f) : Size[f[n].archive] \in Nat
  <2>1. \A n \in 1 .. Len(f) : f[n] \in Entry
    OBVIOUS
  <2>2. \A x \in Entry : x.archive \in Archive
    BY DEF Entry
  <2> QED BY <2>1, <2>2, Shape
<1>2. \A n \in 1 .. Len(g) : Size[g[n].archive] \in Nat
  <2>1. \A n \in 1 .. Len(g) : g[n] \in Entry
    OBVIOUS
  <2>2. \A x \in Entry : x.archive \in Archive
    BY DEF Entry
  <2> QED BY <2>1, <2>2, Shape
<1>3. d \in [Nat -> Nat] /\ \A n \in Nat : d[n] = IF n \in I THEN Size[f[n].archive] ELSE 0
  BY <1>1
<1>4. e \in [Nat -> Nat] /\ \A n \in Nat : e[n] = IF n \in J THEN Size[g[n].archive] ELSE 0
  BY <1>2
<1>5. ASSUME NEW n \in Nat PROVE d[n] <= e[n]
  BY <1>1, <1>2
<1>6. Len(f) \in Nat /\ Len(g) \in Nat
  OBVIOUS
<1> HIDE DEF d, e
<1>7. PICK s \in [Nat -> Nat] : Bytes(f, I) = s[Len(f)] /\ IsSum(s, d)
  BY <1>3, <1>6, BytesSum
<1>8. PICK t \in [Nat -> Nat] : Bytes(g, J) = t[Len(g)] /\ IsSum(t, e)
  BY <1>4, <1>6, BytesSum
<1>9. s[Len(f)] <= t[Len(f)]
  <2>1. d \in [Nat -> Nat] /\ e \in [Nat -> Nat] /\ IsSum(s, d) /\ IsSum(t, e)
    BY <1>3, <1>4, <1>7, <1>8
  <2>2. \A n \in Nat : d[n] <= e[n]
    BY <1>5
  <2>3. \A n \in Nat : s[n] <= t[n]
    BY <2>1, <2>2, SumSmaller, ZenonT(30)
  <2> QED BY <2>3, <1>6
<1>10. t[Len(f)] <= t[Len(g)]
  <2>1. Len(g) - Len(f) \in Nat /\ Len(f) + (Len(g) - Len(f)) = Len(g)
    BY <1>6
  <2> QED BY <2>1, <1>4, <1>6, <1>8, SumGrows
<1>11. s[Len(f)] \in Nat /\ t[Len(f)] \in Nat /\ t[Len(g)] \in Nat
  BY <1>6
<1> QED BY <1>7, <1>8, <1>9, <1>10, <1>11

-----------------------------------------------------------------------------
\* What is held is fetches, and what is held since one of them came with it or
\* after.
LEMMA HeldSince ==
    ASSUME NEW n \in Nat, NEW found \in [Digest -> 0 .. n], NEW m \in 1 .. n
    PROVE  /\ Since(found, m) \in [Digest -> 0 .. n]
           /\ Held(Since(found, m)) \subseteq m .. n
           /\ Held(found) \subseteq 1 .. n
BY DEF Since, Held

\* evict finds the first fetch from which on all fits.
LEMMA EvictFits ==
    ASSUME NEW f \in Seq(Entry), NEW found \in [Digest -> 0 .. Len(f)], Len(f) # 0
    PROVE  \E n \in 1 .. Len(f) :
              /\ evict(f, found) = Since(found, n)
              /\ Fits(f, Held(Since(found, n)))
              /\ \A i \in 1 .. n - 1 : ~Fits(f, Held(Since(found, i)))
<1> DEFINE F(n) == Fits(f, Held(Since(found, n)))
           S == {n \in 1 .. Len(f) : F(n)}
<1>1. Len(f) \in Nat /\ Len(f) \in 1 .. Len(f)
  OBVIOUS
<1>2. F(Len(f))
  <2>1. Held(Since(found, Len(f))) \subseteq Len(f) .. Len(f)
    BY <1>1, HeldSince
  <2> QED BY <1>1, <2>1 DEF Fits
<1> HIDE DEF F
<1>3. S \subseteq Nat /\ S # {}
  BY <1>1, <1>2
<1>4. PICK m \in S : \A n \in S : m <= n
  <2> HIDE DEF S
  <2> QED BY <1>3, LeastNumber
<1>5. m \in 1 .. Len(f) /\ F(m) /\ \A i \in 1 .. m - 1 : ~F(i)
  BY <1>4
<1> DEFINE C(n) == F(n) /\ \A i \in 1 .. n - 1 : ~F(i)
           c == CHOOSE n \in 1 .. Len(f) : C(n)
<1>6. c \in 1 .. Len(f) /\ C(c)
  <2> HIDE DEF C
  <2>1. C(m)
    BY <1>5 DEF C
  <2> QED BY <1>5, <2>1
<1>7. evict(f, found) = Since(found, c)
  BY DEF evict, F
<1> HIDE DEF c
<1> QED BY <1>6, <1>7 DEF F

\* What a chart of an archive may be pinned to: the archive or its manifests.
Names(a) == {a} \union {m \in Manifest : ArchiveOf[m] = a}

\* A digest is held from a fetch that brought what it names.
Named == \A d \in Digest : archives[d] # 0 => d \in Names(fetched[archives[d]].archive)

\* A ref knows the latest fetch from the place it stands for.
Tracks(c, n) == IF n = 0 THEN For(c) = {} ELSE n \in For(c) /\ \A j \in For(c) : j <= n
Tracked == \A c \in Chart : Tracks(c, refs[refKey(c)].at)

\* What was fetched is there, from that fetch or from a later one, until more has
\* been fetched since than the cache may hold.
Kept ==
    \A i \in 1 .. Len(fetched) :
        \/ archives[fetched[i].archive] >= i
        \/ Bytes(fetched, i .. Len(fetched)) > MaxCached

CacheInv == CacheOK /\ Named /\ Tracked /\ Kept

\* What is fetched names its archive, and the manifest it is of.
LEMMA ContentNames ==
    ASSUME NEW got \in Content, got # Nothing
    PROVE  got.archive \in Archive /\ {got.archive} \union got.aliases \subseteq Names(got.archive)
<1>1. PICK p \in Place : got \in Pushed(p)
  BY DEF Content
<1>2. CASE \E m \in Manifest : got = [archive |-> ArchiveOf[m], aliases |-> {m}]
  BY <1>2, Shape DEF Names
<1>3. CASE \E a \in Archive : got = [archive |-> a, aliases |-> {}]
  BY <1>3 DEF Names
<1> QED BY <1>1, <1>2, <1>3 DEF Pushed

\* Keys and places are the same.
LEMMA Places ==
    ASSUME NEW c \in Chart
    PROVE  PlaceOf(c) \in Place /\ refKey(c) \in Key /\ refKey(c) = PlaceOf(c)
<1>1. c.ref \in OCI \union HTTPS /\ c.version \in Version
  BY DEF Chart
<1> QED BY <1>1 DEF PlaceOf, Place, refKey, Key

\* The fetches after one more: those before, and the one.
LEMMA Stored ==
    ASSUME CacheOK, NEW c \in Chart, NEW got \in Content, got # Nothing, store(c, got)
    PROVE  /\ fetched' \in Seq(Entry) /\ Len(fetched') = Len(fetched) + 1 /\ Len(fetched) \in Nat
           /\ \A i \in 1 .. Len(fetched) : fetched'[i] = fetched[i] /\ fetched[i] \in Entry
           /\ fetched'[Len(fetched')] = [place |-> PlaceOf(c), archive |-> got.archive]
           /\ \A i \in 1 .. Len(fetched) : Bytes(fetched, i .. Len(fetched)) > MaxCached =>
                                           Bytes(fetched', i .. Len(fetched')) > MaxCached
<1> DEFINE e == [place |-> PlaceOf(c), archive |-> got.archive]
<1>1. e \in Entry /\ fetched \in Seq(Entry) /\ fetched' = Append(fetched, e)
  BY Places, ContentNames DEF Entry, CacheOK, store
<1> HIDE DEF e
<1>2. /\ fetched' \in Seq(Entry) /\ Len(fetched') = Len(fetched) + 1 /\ Len(fetched) \in Nat
      /\ \A i \in 1 .. Len(fetched) : fetched'[i] = fetched[i] /\ fetched[i] \in Entry
      /\ fetched'[Len(fetched')] = e
  BY <1>1
<1>3. ASSUME NEW i \in 1 .. Len(fetched), Bytes(fetched, i .. Len(fetched)) > MaxCached
      PROVE  Bytes(fetched', i .. Len(fetched')) > MaxCached
  <2>1. /\ Len(fetched) <= Len(fetched')
        /\ i .. Len(fetched) \in SUBSET (1 .. Len(fetched))
        /\ i .. Len(fetched') \in SUBSET (1 .. Len(fetched'))
        /\ \A n \in i .. Len(fetched) : n \in i .. Len(fetched') /\ fetched'[n] = fetched[n]
    BY <1>2
  <2>2. /\ Bytes(fetched, i .. Len(fetched)) \in Nat /\ Bytes(fetched', i .. Len(fetched')) \in Nat
        /\ Bytes(fetched, i .. Len(fetched)) <= Bytes(fetched', i .. Len(fetched'))
    BY <1>1, <1>2, <2>1, BytesGrow
  <2> QED BY <1>3, <2>2, Shape
<1> QED BY <1>2, <1>3 DEF e

\* What is held after a fetch is stored: what was, taken over where the new
\* archive has the digest, without what came before some fetch n; and unless
\* nothing went, what was fetched since any fetch before n does not fit.
LEMMA Evicted ==
    ASSUME CacheOK, NEW c \in Chart, NEW got \in Content, got # Nothing, store(c, got)
    PROVE  \E n \in 1 .. Len(fetched') :
              /\ archives' \in [Digest -> 0 .. Len(fetched')]
              /\ Fits(fetched', Held(archives'))
              /\ \A d \in Digest :
                    LET found == IF d \in {got.archive} \union got.aliases THEN Len(fetched') ELSE archives[d]
                    IN  archives'[d] = IF found >= n THEN found ELSE 0
              /\ \A i \in 1 .. n - 1 : Bytes(fetched', i .. Len(fetched')) > MaxCached
<1> DEFINE N == Len(fetched')
           found == [d \in Digest |-> IF d \in {got.archive} \union got.aliases THEN N ELSE archives[d]]
<1>1. /\ fetched' \in Seq(Entry) /\ N = Len(fetched) + 1 /\ Len(fetched) \in Nat
      /\ fetched' = Append(fetched, [place |-> PlaceOf(c), archive |-> got.archive])
  BY Stored DEF store
<1>2. found \in [Digest -> 0 .. N] /\ archives' = evict(fetched', found) /\ N # 0
  BY <1>1 DEF store, CacheOK
<1>3. \A d \in Digest : found[d] = IF d \in {got.archive} \union got.aliases THEN N ELSE archives[d]
  OBVIOUS
<1> HIDE DEF found
<1>4. PICK n \in 1 .. N : /\ archives' = Since(found, n)
                          /\ Fits(fetched', Held(Since(found, n)))
                          /\ \A i \in 1 .. n - 1 : ~Fits(fetched', Held(Since(found, i)))
  BY <1>1, <1>2, EvictFits
<1>5. archives' \in [Digest -> 0 .. N]
  <2>1. N \in Nat
    BY <1>1
  <2>2. Since(found, n) \in [Digest -> 0 .. N]
    BY <1>2, <2>1, HeldSince
  <2> QED BY <1>4, <2>2
<1>6. \A d \in Digest : archives'[d] = IF found[d] >= n THEN found[d] ELSE 0
  BY <1>4 DEF Since
<1>7. ASSUME NEW i \in 1 .. n - 1 PROVE Bytes(fetched', i .. N) > MaxCached
  <2> DEFINE held == Held(Since(found, i))
  <2>1. i \in 1 .. N /\ N \in Nat
    BY <1>1
  <2>2. held \subseteq i .. N
    BY <1>2, <2>1, HeldSince
  <2>3. ~(Bytes(fetched', held) <= MaxCached)
    BY <1>4 DEF Fits
  <2> HIDE DEF held
  <2>4. /\ held \in SUBSET (1 .. N) /\ i .. N \in SUBSET (1 .. N) /\ N <= N
        /\ \A k \in held : k \in i .. N /\ fetched'[k] = fetched'[k]
    BY <2>1, <2>2
  <2>5. /\ Bytes(fetched', held) \in Nat /\ Bytes(fetched', i .. N) \in Nat
        /\ Bytes(fetched', held) <= Bytes(fetched', i .. N)
    BY <1>1, <2>4, BytesGrow
  <2> QED BY <2>3, <2>5, Shape
<1> QED BY <1>3, <1>4, <1>5, <1>6, <1>7

\* An empty cache meets the invariant.
LEMMA CacheStart == CacheInit => CacheInv
<1> SUFFICES ASSUME CacheInit PROVE CacheInv
  OBVIOUS
<1>1. fetched = <<>> /\ Len(fetched) = 0 /\ archives = NotCached /\ refs = NotFetched
  BY DEF CacheInit
<1>2. CacheOK
  <2>1. registry \in [Place -> Content] /\ pushes \in Nat /\ answer = Unasked
    BY DEF CacheInit, Content
  <2>2. archives \in [Digest -> 0 .. 0] /\ refs \in [Key -> [at : 0 .. 0, expired : BOOLEAN]]
    BY <1>1 DEF NotCached, NotFetched
  <2>3. fetched \in Seq([place : Place, archive : Archive])
    BY <1>1
  <2>4. Held(archives) = {}
    BY <1>1 DEF NotCached, Held
  <2>5. Fits(fetched, Held(archives))
    BY <2>4 DEF Fits
  <2> QED BY <1>1, <2>1, <2>2, <2>3, <2>5 DEF CacheOK
<1>3. Named
  BY <1>1 DEF Named, NotCached
<1>4. Tracked
  <2> SUFFICES ASSUME NEW c \in Chart PROVE Tracks(c, refs[refKey(c)].at)
    BY DEF Tracked
  <2>1. refs[refKey(c)].at = 0
    BY <1>1, Places DEF NotFetched
  <2>2. For(c) = {}
    BY <1>1 DEF For
  <2> QED BY <2>1, <2>2 DEF Tracks
<1>5. Kept
  BY <1>1 DEF Kept
<1> QED BY <1>2, <1>3, <1>4, <1>5 DEF CacheInv

\* What the invariant says of the cache stays true when a fetch is stored.
LEMMA StoreKeeps ==
    ASSUME CacheInv, NEW c \in Chart, NEW got \in Content, got # Nothing, store(c, got)
    PROVE  /\ Named' /\ Tracked' /\ Kept'
           /\ refs' \in [Key -> [at : 0 .. Len(fetched'), expired : BOOLEAN]]
           /\ Tracks(c, Len(fetched))'
<1> DEFINE N == Len(fetched')
           names == {got.archive} \union got.aliases
<1>0. CacheOK /\ Named /\ Tracked /\ Kept
  BY DEF CacheInv
<1>1. /\ fetched' \in Seq(Entry) /\ N = Len(fetched) + 1 /\ Len(fetched) \in Nat
      /\ \A i \in 1 .. Len(fetched) : fetched'[i] = fetched[i] /\ fetched[i] \in Entry
      /\ fetched'[N] = [place |-> PlaceOf(c), archive |-> got.archive]
      /\ \A i \in 1 .. Len(fetched) : Bytes(fetched, i .. Len(fetched)) > MaxCached =>
                                      Bytes(fetched', i .. N) > MaxCached
  BY <1>0, Stored
<1>2. PICK n \in 1 .. N :
         /\ archives' \in [Digest -> 0 .. N]
         /\ \A d \in Digest :
               LET found == IF d \in names THEN N ELSE archives[d]
               IN  archives'[d] = IF found >= n THEN found ELSE 0
         /\ \A i \in 1 .. n - 1 : Bytes(fetched', i .. N) > MaxCached
  BY <1>0, Evicted
<1>3. archives \in [Digest -> 0 .. Len(fetched)]
  BY <1>0 DEF CacheOK
<1>4. got.archive \in Archive /\ names \subseteq Names(got.archive)
  BY ContentNames
<1>5. Named'
  <2> SUFFICES ASSUME NEW d \in Digest, archives'[d] # 0
               PROVE  d \in Names(fetched'[archives'[d]].archive)
    BY DEF Named
  <2>1. CASE d \in names
    <3>1. archives'[d] = N
      BY <1>2, <2>1
    <3> QED BY <3>1, <1>1, <1>4, <2>1
  <2>2. CASE d \notin names
    <3>1. archives'[d] = archives[d] /\ archives[d] # 0 /\ archives[d] \in 1 .. Len(fetched)
      BY <1>2, <1>3, <2>2
    <3>2. fetched'[archives'[d]] = fetched[archives[d]]
      BY <1>1, <3>1
    <3> QED BY <1>0, <3>1, <3>2 DEF Named
  <2> QED BY <2>1, <2>2
<1>6. DOMAIN fetched = 1 .. Len(fetched) /\ DOMAIN fetched' = 1 .. N
  BY <1>0, <1>1 DEF CacheOK
<1>7. refs' = [refs EXCEPT ![refKey(c)] = [at |-> N, expired |-> FALSE]]
  BY DEF store
<1>8. refs \in [Key -> [at : 0 .. Len(fetched), expired : BOOLEAN]]
  BY <1>0 DEF CacheOK
<1>9. refs' \in [Key -> [at : 0 .. N, expired : BOOLEAN]]
  <2>1. 0 .. Len(fetched) \subseteq 0 .. N /\ N \in 0 .. N
    BY <1>1
  <2> QED BY <2>1, <1>7, <1>8
<1>10. \A k \in Key : refs'[k].at = IF k = refKey(c) THEN N ELSE refs[k].at
  BY <1>7, <1>8
<1>11. ASSUME NEW x \in Chart
       PROVE  For(x)' = IF PlaceOf(x) = PlaceOf(c) THEN For(x) \union {N} ELSE For(x)
  <2>1. \A i \in 1 .. Len(fetched) : fetched'[i] = fetched[i]
    BY <1>1
  <2>2. fetched'[N].place = PlaceOf(c)
    BY <1>1
  <2>3. 1 .. N = (1 .. Len(fetched)) \union {N}
    BY <1>1
  <2> QED BY <1>6, <2>1, <2>2, <2>3 DEF For
<1>12. ASSUME NEW x \in Chart PROVE Tracks(x, refs[refKey(x)].at)'
  <2>1. refKey(x) \in Key /\ refKey(c) \in Key /\ refKey(x) = PlaceOf(x) /\ refKey(c) = PlaceOf(c)
    BY Places
  <2>2. For(x) \subseteq 1 .. Len(fetched)
    BY <1>6 DEF For
  <2>3. CASE PlaceOf(x) = PlaceOf(c)
    <3>1. refs'[refKey(x)].at = N
      BY <1>10, <2>1, <2>3
    <3>2. N \in For(x)' /\ N # 0 /\ \A j \in For(x)' : j <= N
      BY <1>1, <1>11, <2>2, <2>3
    <3> QED BY <3>1, <3>2 DEF Tracks
  <2>4. CASE PlaceOf(x) # PlaceOf(c)
    <3>1. refs'[refKey(x)].at = refs[refKey(x)].at /\ For(x)' = For(x)
      BY <1>10, <1>11, <2>1, <2>4
    <3>2. Tracks(x, refs[refKey(x)].at)
      BY <1>0 DEF Tracked
    <3> QED BY <3>1, <3>2 DEF Tracks
  <2> QED BY <2>3, <2>4
<1>13. Tracked'
  BY <1>12 DEF Tracked
<1>14. Tracks(c, Len(fetched))'
  <2>1. refs'[refKey(c)].at = N
    BY <1>10, Places
  <2>2. Tracks(c, refs[refKey(c)].at)'
    BY <1>12
  <2> QED BY <2>1, <2>2 DEF Tracks
<1>15. Kept'
  <2> SUFFICES ASSUME NEW i \in 1 .. N
               PROVE  \/ archives'[fetched'[i].archive] >= i
                      \/ Bytes(fetched', i .. N) > MaxCached
    BY DEF Kept
  <2>0. i \in Nat /\ n \in Nat /\ N \in Nat
    BY <1>1
  <2>1. CASE i < n
    <3>1. i \in 1 .. n - 1
      BY <2>1, <2>0
    <3> QED BY <1>2, <3>1
  <2>2. CASE i >= n /\ fetched'[i].archive \in names
    <3>1. fetched'[i].archive \in Digest
      <4>1. names \subseteq Digest
        BY <1>4 DEF Names, Digest
      <4> QED BY <2>2, <4>1
    <3>2. archives'[fetched'[i].archive] = N
      BY <1>2, <2>2, <3>1
    <3> QED BY <3>2, <2>0
  <2>3. CASE i >= n /\ fetched'[i].archive \notin names
    <3>1. i \in 1 .. Len(fetched)
      BY <1>1, <2>0, <2>3
    <3>2. fetched'[i] = fetched[i] /\ fetched[i].archive \in Digest
      BY <1>1, <3>1 DEF Entry, Digest
    <3> DEFINE a == fetched[i].archive
    <3>3. archives'[a] = IF archives[a] >= n THEN archives[a] ELSE 0
      BY <1>2, <2>3, <3>2
    <3>4. archives[a] >= i \/ Bytes(fetched, i .. Len(fetched)) > MaxCached
      BY <1>0, <3>1 DEF Kept
    <3>5. archives[a] \in Nat
      BY <1>3, <3>2
    <3>6. CASE archives[a] >= i
      <4>1. archives[a] >= n
        BY <2>0, <2>3, <3>5, <3>6
      <4> QED BY <3>2, <3>3, <3>6, <4>1
    <3>7. CASE Bytes(fetched, i .. Len(fetched)) > MaxCached
      BY <1>1, <3>1, <3>7
    <3> QED BY <3>4, <3>6, <3>7
  <2> QED BY <2>0, <2>1, <2>2, <2>3
<1> QED BY <1>5, <1>9, <1>13, <1>14, <1>15

\* What is found under a digest is an archive it names.
LEMMA UnderNames ==
    ASSUME CacheInv, NEW d \in Digest, NEW a \in Under(d)
    PROVE  a \in Archive /\ d \in Names(a)
<1>1. archives[d] # 0 /\ a = fetched[archives[d]].archive
  BY DEF Under
<1>2. archives[d] \in 1 .. Len(fetched) /\ fetched \in Seq(Entry)
  BY <1>1 DEF CacheInv, CacheOK, Entry
<1>3. fetched[archives[d]] \in Entry
  BY <1>2
<1> QED BY <1>1, <1>3 DEF CacheInv, Named, Entry

\* An archive is found under its own digest only.
LEMMA OwnName ==
    ASSUME NEW a \in Archive, NEW b \in Archive, a \in Names(b)
    PROVE  a = b
BY Shape DEF Names

\* The latest fetch from a place is one of them.
LEMMA TheLatest ==
    ASSUME NEW F, F \subseteq Nat, NEW n \in F, \A j \in F : j <= n
    PROVE  (CHOOSE i \in F : \A j \in F : j <= i) = n
<1> DEFINE L(i) == \A j \in F : j <= i
           m == CHOOSE i \in F : L(i)
<1>1. L(n)
  OBVIOUS
<1>2. m \in F /\ L(m)
  <2> HIDE DEF L
  <2> QED BY <1>1
<1>3. m <= n /\ n <= m /\ m \in Nat
  BY <1>2
<1>4. m = n
  <2> HIDE DEF m
  <2> QED BY <1>3
<1> QED BY <1>4

\* It is the one its ref knows.
LEMMA LatestTracked ==
    ASSUME CacheInv, NEW c \in Chart, NEW n \in Nat, n # 0, Tracks(c, n)
    PROVE  For(c) # {} /\ Latest(c) = n /\ n \in 1 .. Len(fetched)
<1>1. For(c) \subseteq Nat /\ For(c) \subseteq 1 .. Len(fetched)
  BY DEF For, CacheInv, CacheOK
<1>2. n \in For(c) /\ \A j \in For(c) : j <= n
  BY DEF Tracks
<1>3. (CHOOSE i \in For(c) : \A j \in For(c) : j <= i) = n
  BY <1>1, <1>2, TheLatest
<1> QED BY <1>1, <1>2, <1>3 DEF Latest

\* What a ref knows was what its place held last.
LEMMA RefServes ==
    ASSUME CacheInv, NEW c \in Chart, NEW allow \in BOOLEAN, NEW a \in cachedRef(refKey(c), allow)
    PROVE  a \in Archive /\ For(c) # {} /\ a = fetched[Latest(c)].archive
<1> DEFINE n == refs[refKey(c)].at
<1>1. n # 0 /\ a \in Under(fetched[n].archive)
  BY DEF cachedRef
<1>2. n \in Nat
  BY Places DEF CacheInv, CacheOK
<1>3. Tracks(c, n)
  BY DEF CacheInv, Tracked
<1> HIDE DEF n
<1>4. For(c) # {} /\ Latest(c) = n /\ n \in 1 .. Len(fetched)
  BY <1>1, <1>2, <1>3, LatestTracked
<1>5. fetched[n].archive \in Archive
  <2>1. fetched \in Seq(Entry)
    BY DEF CacheInv, CacheOK, Entry
  <2>2. fetched[n] \in Entry
    BY <2>1, <1>4
  <2> QED BY <2>2 DEF Entry
<1>6. a \in Archive /\ fetched[n].archive \in Names(a)
  BY <1>1, <1>5, UnderNames DEF Digest
<1> QED BY <1>4, <1>5, <1>6, OwnName

\* And it is lost only to more bytes than the cache holds.
LEMMA RefLost ==
    ASSUME CacheInv, NEW c \in Chart, cachedRef(refKey(c), TRUE) = {}
    PROVE  For(c) = {} \/ BytesSince(c) > MaxCached
<1> DEFINE n == refs[refKey(c)].at
<1>1. Tracks(c, n)
  BY DEF CacheInv, Tracked
<1>2. n \in Nat
  BY Places DEF CacheInv, CacheOK
<1>3. CASE n = 0
  BY <1>1, <1>3 DEF Tracks
<1>4. CASE n # 0
  <2>1. Under(fetched[n].archive) = {}
    BY <1>4 DEF cachedRef
  <2>2. archives[fetched[n].archive] = 0
    BY <2>1 DEF Under
  <2> HIDE DEF n
  <2>3. Latest(c) = n /\ n \in 1 .. Len(fetched)
    BY <1>1, <1>2, <1>4, LatestTracked
  <2>4. ~(archives[fetched[n].archive] >= n)
    BY <2>2, <2>3
  <2> QED BY <2>3, <2>4 DEF CacheInv, Kept, BytesSince
<1> QED BY <1>3, <1>4

Answers == [chart : Chart, fresh : BOOLEAN, reached : BOOLEAN, got : Archive \union {None}]

\* A fetch that serves a pinned chart by a digest of its archive, and an unpinned
\* one by what its place held last, or by nothing where nothing is left of it.
LEMMA Served ==
    ASSUME NEW c \in Chart, NEW fresh \in BOOLEAN, NEW reached \in BOOLEAN, NEW a \in Archive \union {None},
           Answer(c, fresh, reached, a),
           c.digest # None /\ a # None => c.digest \in Names(a),
           c.digest = None => \/ a # None /\ For(c)' # {} /\ a = fetched'[Latest(c)'].archive
                              \/ a = None /\ (For(c)' = {} \/ BytesSince(c)' > MaxCached)
    PROVE  answer' \in Answers /\ PinnedIsExact' /\ ServesItsPlace'
<1>1. answer' = [chart |-> c, fresh |-> fresh, reached |-> reached, got |-> a]
  BY DEF Answer
<1>2. answer' \in Answers /\ answer'.chart = c /\ answer'.got = a
  BY <1>1 DEF Answers
<1>3. PinnedIsExact'
  <2>1. c.digest # None /\ a # None => c.digest = a \/ (c.digest \in Manifest /\ ArchiveOf[c.digest] = a)
    BY DEF Names
  <2> QED BY <1>2, <2>1 DEF PinnedIsExact
<1>4. ServesItsPlace'
  BY <1>2 DEF ServesItsPlace, For, Latest, BytesSince
<1> QED BY <1>2, <1>3, <1>4

\* The state the last answer and the cache's bound are read from is untouched.
LEMMA NothingStored ==
    ASSUME CacheInv, UNCHANGED <<registry, fetched, archives, refs, pushes>>,
           answer' \in Answers \union {Unasked}
    PROVE  CacheInv'
<1>1. CacheOK'
  BY DEF CacheInv, CacheOK, Answers, Fits, Held, Bytes
<1>2. Named'
  BY DEF CacheInv, Named
<1>3. Tracked'
  BY DEF CacheInv, Tracked, Tracks, For
<1>4. Kept'
  BY DEF CacheInv, Kept
<1> QED BY <1>1, <1>2, <1>3, <1>4 DEF CacheInv

\* A fetch, however it ends, keeps the invariant and answers as promised.
LEMMA FetchKeeps ==
    ASSUME CacheInv, NEW c \in Chart, NEW fresh \in BOOLEAN, Fetch(c, fresh)
    PROVE  CacheInv' /\ PinnedIsExact' /\ ServesItsPlace'
<1>0. CacheOK /\ registry' = registry /\ pushes' = pushes
  BY DEF CacheInv, Fetch
<1>1. c.digest \in Digest \union {None}
  BY DEF Chart
<1>2. CASE FromCache(c, fresh)
  <2>1. PICK a \in Cached(c, fresh) : Answer(c, fresh, FALSE, a)
    BY <1>2 DEF FromCache
  <2>2. UNCHANGED <<registry, fetched, archives, refs, pushes>>
    BY <1>0, <1>2 DEF FromCache
  <2>3. CASE c.digest # None
    <3>1. a \in Archive /\ c.digest \in Names(a)
      BY <1>1, <2>1, <2>3, UnderNames DEF Cached
    <3>2. answer' \in Answers /\ PinnedIsExact' /\ ServesItsPlace'
      BY <2>1, <2>3, <3>1, Served
    <3> QED BY <2>2, <3>2, NothingStored
  <2>4. CASE c.digest = None
    <3>1. a \in cachedRef(refKey(c), FALSE)
      BY <2>1, <2>4 DEF Cached
    <3>2. a \in Archive /\ For(c) # {} /\ a = fetched[Latest(c)].archive
      BY <3>1, RefServes
    <3>3. For(c)' # {} /\ a = fetched'[Latest(c)'].archive /\ a # None
      BY <2>2, <3>2, Shape DEF For, Latest
    <3>4. answer' \in Answers /\ PinnedIsExact' /\ ServesItsPlace'
      BY <2>1, <2>4, <3>2, <3>3, Served
    <3> QED BY <2>2, <3>4, NothingStored
  <2> QED BY <2>3, <2>4
<1>3. CASE FromNetwork(c, fresh)
  <2> DEFINE got == registry[PlaceOf(c)]
  <2>1. got \in Content /\ got # Nothing
    BY <1>0, <1>3, Places DEF CacheOK, FromNetwork
  <2>2. CASE ~Matches(c, got)
    <3>1. /\ Answer(c, fresh, TRUE, None) /\ c.digest # None
          /\ UNCHANGED <<registry, fetched, archives, refs, pushes>>
      BY <1>0, <1>3, <2>2 DEF FromNetwork, Matches
    <3>2. answer' \in Answers /\ PinnedIsExact' /\ ServesItsPlace'
      BY <3>1, Served
    <3> QED BY <3>1, <3>2, NothingStored
  <2>3. CASE Matches(c, got)
    <3>1. store(c, got) /\ Answer(c, fresh, TRUE, got.archive)
      BY <1>3, <2>3 DEF FromNetwork
    <3>2. c.digest = None \/ c.digest \in {got.archive} \union got.aliases
      BY <2>3 DEF Matches
    <3> HIDE DEF got
    <3>3. /\ Named' /\ Tracked' /\ Kept'
          /\ refs' \in [Key -> [at : 0 .. Len(fetched'), expired : BOOLEAN]]
          /\ Tracks(c, Len(fetched))'
      BY <2>1, <3>1, StoreKeeps
    <3>4. /\ fetched' \in Seq(Entry) /\ Len(fetched') = Len(fetched) + 1 /\ Len(fetched) \in Nat
          /\ fetched'[Len(fetched')] = [place |-> PlaceOf(c), archive |-> got.archive]
      BY <1>0, <2>1, <3>1, Stored
    <3>5. archives' \in [Digest -> 0 .. Len(fetched')] /\ Fits(fetched, Held(archives))'
      BY <1>0, <2>1, <3>1, Evicted
    <3>6. got.archive \in Archive /\ {got.archive} \union got.aliases \subseteq Names(got.archive)
      BY <2>1, ContentNames
    <3>7. For(c)' # {} /\ Latest(c)' = Len(fetched')
      <4>1. For(c)' \subseteq Nat /\ Len(fetched') \in Nat /\ Len(fetched') # 0
        BY <3>4 DEF For
      <4>2. Len(fetched') \in For(c)' /\ \A j \in For(c)' : j <= Len(fetched')
        BY <3>3, <4>1 DEF Tracks
      <4>3. (CHOOSE i \in For(c)' : \A j \in For(c)' : j <= i) = Len(fetched')
        BY <4>1, <4>2, TheLatest
      <4> QED BY <4>2, <4>3 DEF Latest
    <3>8. got.archive # None /\ got.archive = fetched'[Latest(c)'].archive
      BY <3>4, <3>6, <3>7, Shape
    <3>9. answer' \in Answers /\ PinnedIsExact' /\ ServesItsPlace'
      BY <3>1, <3>2, <3>6, <3>7, <3>8, Served
    <3>10. CacheOK'
      BY <1>0, <3>3, <3>4, <3>5, <3>9 DEF CacheOK, Answers, Entry
    <3> QED BY <3>3, <3>9, <3>10 DEF CacheInv
  <2> QED BY <2>2, <2>3
<1>4. CASE Unreached(c, fresh)
  <2> DEFINE old == IF c.digest = None THEN cachedRef(refKey(c), TRUE) ELSE {}
  <2>1. UNCHANGED <<registry, fetched, archives, refs, pushes>>
    BY <1>0, <1>4 DEF Unreached
  <2>2. CASE old = {}
    <3>1. Answer(c, fresh, FALSE, None)
      BY <1>4, <2>2 DEF Unreached
    <3>2. c.digest = None => For(c) = {} \/ BytesSince(c) > MaxCached
      BY <2>2, RefLost
    <3>3. c.digest = None => For(c)' = {} \/ BytesSince(c)' > MaxCached
      BY <2>1, <3>2 DEF For, BytesSince, Latest, Bytes
    <3>4. answer' \in Answers /\ PinnedIsExact' /\ ServesItsPlace'
      BY <3>1, <3>3, Served
    <3> QED BY <2>1, <3>4, NothingStored
  <2>3. CASE old # {}
    <3>1. PICK a \in cachedRef(refKey(c), TRUE) : Answer(c, fresh, FALSE, a) /\ c.digest = None
      BY <1>4, <2>3 DEF Unreached
    <3>2. a \in Archive /\ For(c) # {} /\ a = fetched[Latest(c)].archive
      BY RefServes
    <3>3. For(c)' # {} /\ a = fetched'[Latest(c)'].archive /\ a # None
      BY <2>1, <3>2, Shape DEF For, Latest
    <3>4. answer' \in Answers /\ PinnedIsExact' /\ ServesItsPlace'
      BY <3>1, <3>2, <3>3, Served
    <3> QED BY <2>1, <3>4, NothingStored
  <2> QED BY <2>2, <2>3
<1> QED BY <1>2, <1>3, <1>4 DEF Fetch

\* A TTL that is over changes nothing of what is held.
LEMMA ExpireKeeps == CacheInv /\ Expire => CacheInv'
<1> SUFFICES ASSUME CacheInv, Expire PROVE CacheInv'
  OBVIOUS
<1>1. UNCHANGED <<registry, fetched, archives, answer, pushes>>
  BY DEF Expire
<1>2. refs \in [Key -> [at : 0 .. Len(fetched), expired : BOOLEAN]]
  BY DEF CacheInv, CacheOK
<1>3. /\ refs' \in [Key -> [at : 0 .. Len(fetched), expired : BOOLEAN]]
      /\ \A k \in Key : refs'[k].at = refs[k].at
  <2>1. PICK n \in DOMAIN fetched :
           refs' = [k \in Key |-> [refs[k] EXCEPT !.expired = @ \/ refs[k].at \in 1 .. n]]
    BY DEF Expire
  <2>2. \A r \in [at : 0 .. Len(fetched), expired : BOOLEAN], b \in BOOLEAN :
           LET s == [r EXCEPT !.expired = b]
           IN  s \in [at : 0 .. Len(fetched), expired : BOOLEAN] /\ s.at = r.at
    OBVIOUS
  <2> QED BY <1>2, <2>1, <2>2
<1>4. CacheOK'
  BY <1>1, <1>3 DEF CacheInv, CacheOK, Fits, Held
<1>5. Named'
  BY <1>1 DEF CacheInv, Named
<1>6. Tracked'
  <2> SUFFICES ASSUME NEW c \in Chart PROVE Tracks(c, refs[refKey(c)].at)'
    BY DEF Tracked
  <2>1. refs'[refKey(c)].at = refs[refKey(c)].at
    BY <1>3, Places
  <2> QED BY <1>1, <2>1 DEF CacheInv, Tracked, Tracks, For
<1>7. Kept'
  BY <1>1 DEF CacheInv, Kept
<1> QED BY <1>4, <1>5, <1>6, <1>7 DEF CacheInv

\* A restart empties the cache and the history alike.
LEMMA RestartKeeps == CacheInv /\ Restart => CacheInv'
<1> SUFFICES ASSUME CacheInv, Restart PROVE CacheInv'
  OBVIOUS
<1>1. /\ fetched' = <<>> /\ archives' = NotCached /\ refs' = NotFetched /\ answer' = Unasked
      /\ registry' \in [Place -> Content] /\ pushes' \in Nat
  BY DEF Restart, CacheInv, CacheOK
<1>2. CacheOK'
  <2>1. archives' \in [Digest -> 0 .. 0] /\ refs' \in [Key -> [at : 0 .. 0, expired : BOOLEAN]]
    BY <1>1 DEF NotCached, NotFetched
  <2>2. fetched' \in Seq([place : Place, archive : Archive]) /\ Len(fetched') = 0
    BY <1>1
  <2>3. Held(archives)' = {}
    BY <1>1 DEF NotCached, Held
  <2>4. Fits(fetched, Held(archives))'
    BY <2>3 DEF Fits
  <2> QED BY <1>1, <2>1, <2>2, <2>4 DEF CacheOK
<1>3. Named'
  BY <1>1 DEF Named, NotCached
<1>4. Tracked'
  <2> SUFFICES ASSUME NEW c \in Chart PROVE Tracks(c, refs[refKey(c)].at)'
    BY DEF Tracked
  <2>1. refs'[refKey(c)].at = 0
    BY <1>1, Places DEF NotFetched
  <2>2. For(c)' = {}
    BY <1>1 DEF For
  <2> QED BY <2>1, <2>2 DEF Tracks
<1>5. Kept'
  BY <1>1 DEF Kept
<1> QED BY <1>2, <1>3, <1>4, <1>5 DEF CacheInv

\* What is pushed is not in the cache yet.
LEMMA PushKeeps == ASSUME CacheInv, NEW p \in Place, Push(p) PROVE CacheInv'
<1>1. UNCHANGED <<fetched, archives, refs, answer>>
  BY DEF Push
<1>2. registry' \in [Place -> Content] /\ pushes' \in Nat
  BY DEF Push, CacheInv, CacheOK, Content
<1>3. CacheOK'
  BY <1>1, <1>2 DEF CacheInv, CacheOK, Fits, Held
<1>4. Named'
  BY <1>1 DEF CacheInv, Named
<1>5. Tracked'
  BY <1>1 DEF CacheInv, Tracked, Tracks, For
<1>6. Kept'
  BY <1>1 DEF CacheInv, Kept
<1> QED BY <1>3, <1>4, <1>5, <1>6 DEF CacheInv

AnswerOK == PinnedIsExact /\ ServesItsPlace

\* Every step keeps the cache's facts and answers as promised.
LEMMA CacheStep == CacheInv /\ AnswerOK /\ [CacheNext]_cacheVars => (CacheInv /\ AnswerOK)'
<1> SUFFICES ASSUME CacheInv, AnswerOK, [CacheNext]_cacheVars PROVE CacheInv' /\ AnswerOK'
  OBVIOUS
<1>1. ASSUME NEW c \in Chart, NEW fresh \in BOOLEAN, Fetch(c, fresh) PROVE CacheInv' /\ AnswerOK'
  BY <1>1, FetchKeeps DEF AnswerOK
<1>2. CASE Expire
  <2>1. UNCHANGED <<fetched, answer>>
    BY <1>2 DEF Expire
  <2>2. AnswerOK'
    BY <2>1 DEF AnswerOK, PinnedIsExact, ServesItsPlace, Asked, For, Latest, BytesSince, Bytes
  <2> QED BY <1>2, <2>2, ExpireKeeps
<1>3. CASE Restart
  <2>1. answer' = Unasked
    BY <1>3 DEF Restart
  <2>2. AnswerOK'
    BY <2>1 DEF AnswerOK, PinnedIsExact, ServesItsPlace, Asked
  <2> QED BY <1>3, <2>2, RestartKeeps
<1>4. ASSUME NEW p \in Place, Push(p) PROVE CacheInv' /\ AnswerOK'
  <2>1. UNCHANGED <<fetched, answer>>
    BY <1>4 DEF Push
  <2>2. AnswerOK'
    BY <2>1 DEF AnswerOK, PinnedIsExact, ServesItsPlace, Asked, For, Latest, BytesSince, Bytes
  <2> QED BY <1>4, <2>2, PushKeeps
<1>5. CASE UNCHANGED cacheVars
  <2>1. UNCHANGED <<registry, fetched, archives, refs, pushes, answer>>
    BY <1>5 DEF cacheVars
  <2>2. CacheInv'
    BY <2>1, NothingStored DEF CacheInv, CacheOK, Answers
  <2>3. AnswerOK'
    BY <2>1 DEF AnswerOK, PinnedIsExact, ServesItsPlace, Asked, For, Latest, BytesSince, Bytes
  <2> QED BY <2>2, <2>3
<1> QED BY <1>1, <1>2, <1>3, <1>4, <1>5 DEF CacheNext

\* Before the first fetch nothing was answered.
LEMMA ServedInit == CacheInit => AnswerOK
BY DEF CacheInit, AnswerOK, PinnedIsExact, ServesItsPlace, Asked

\* The cache is within its bound or holds one archive, and refers to fetches there
\* were: whatever is stored, evict takes enough away and no more than the oldest
\* (fetch.go, store and evict).
THEOREM CacheStaysBounded == CacheSpec => []CacheOK
<1>1. CacheInit => CacheInv /\ AnswerOK
  BY CacheStart, ServedInit
<1>2. CacheInv => CacheOK
  BY DEF CacheInv
<1> QED BY <1>1, <1>2, CacheStep, PTL DEF CacheSpec

\* A chart pinned to a digest is the archive that digest names, from the cache
\* or from the network, through pushes, evictions, restarts and failures (Fetch).
THEOREM PinsAreServedExactly == CacheSpec => []PinnedIsExact
<1>1. CacheInit => CacheInv /\ AnswerOK
  BY CacheStart, ServedInit
<1>2. AnswerOK => PinnedIsExact
  BY DEF AnswerOK
<1> QED BY <1>1, <1>2, CacheStep, PTL DEF CacheSpec

\* A chart that is not pinned is what its place held when it was last fetched, and
\* is found as long as the cache may hold it, even when the network is gone (Fetch,
\* cachedRef).
THEOREM RefsServeTheirPlace == CacheSpec => []ServesItsPlace
<1>1. CacheInit => CacheInv /\ AnswerOK
  BY CacheStart, ServedInit
<1>2. AnswerOK => ServesItsPlace
  BY DEF AnswerOK
<1> QED BY <1>1, <1>2, CacheStep, PTL DEF CacheSpec

-----------------------------------------------------------------------------
(* Rollout *)

\* A Deployment with an available pod, as it is or as the cache has it, came up
\* once; so did each that a pass has read, as long as it found none wanting.
Up(d) == d.new \/ d.old

UpInv ==
    /\ \A c \in Component : Up(deploy[c]) \/ cache[c].available = 1 => c \in everUp
    /\ pc = "refresh" /\ pass.ready => \A c \in Component : c \in pass.todo \/ c \in everUp
    /\ phase = "Ready" => Component \subseteq everUp

-----------------------------------------------------------------------------
\* The types hold at first.
LEMMA RolloutInit == Init => TypeOK
<1> SUFFICES ASSUME Init PROVE TypeOK
  OBVIOUS
<1>1. NoPass \in Pass /\ NoPass.image \in Image
  BY DEF Init, Pass, NoPass
<1>2. deploy \in [Component -> Deployment] /\ cache \in [Component -> Reading]
  BY <1>1 DEF Init, Deployment, Read, Reading
<1>3. /\ target \in Image /\ restore \in BOOLEAN /\ phase \in Phases /\ pass = NoPass
      /\ pc = "idle" /\ everUp \subseteq Component /\ edits \in Nat /\ faults \in Nat
  BY DEF Init, Phases
<1> QED BY <1>1, <1>2, <1>3 DEF TypeOK

\* Neither server-side apply nor its controller acting on the spec gives a
\* Deployment a pod it had not; what is read of it as available, it has.
LEMMA AppliedType ==
    ASSUME NEW d \in Deployment, NEW image \in Image, NEW replicas \in {0, 1}
    PROVE  /\ Applied(d, image, replicas) \in Deployment
           /\ Up(Applied(d, image, replicas)) => Up(d)
BY DEF Applied, Deployment, Up

LEMMA ActedType ==
    ASSUME NEW d \in Deployment
    PROVE  Acted(d) \in Deployment /\ (Up(Acted(d)) => Up(d))
BY DEF Acted, Deployment, Up

LEMMA ReadType ==
    ASSUME NEW d \in Deployment
    PROVE  Read(d) \in Reading /\ (Read(d).available = 1 => Up(d))
BY DEF Read, Reading, Deployment, Up

\* Types are kept by every step.
LEMMA RolloutStep == TypeOK /\ [Next]_vars => TypeOK'
<1> SUFFICES ASSUME TypeOK, [Next]_vars PROVE TypeOK'
  OBVIOUS
<1>0. NoPass \in Pass
  BY DEF TypeOK, NoPass, Pass
<1>1. CASE BeginPass
  <2>1. pass' \in Pass
    BY <1>0, <1>1 DEF BeginPass, NoPass, TypeOK, Pass
  <2> QED BY <1>1, <2>1 DEF BeginPass, TypeOK
<1>2. ASSUME NEW c \in Component, ApplyOne(c) PROVE TypeOK'
  <2>1. \E replicas \in {0, 1} : deploy' = [deploy EXCEPT ![c] = Applied(deploy[c], pass.image, replicas)]
    BY <1>2 DEF ApplyOne
  <2>2. pass.image \in Image /\ deploy[c] \in Deployment
    BY DEF TypeOK, Pass
  <2>3. deploy' \in [Component -> Deployment]
    BY <2>1, <2>2, AppliedType DEF TypeOK
  <2>4. pass' \in Pass
    BY <1>2 DEF ApplyOne, TypeOK, Pass
  <2> QED BY <1>2, <2>3, <2>4 DEF ApplyOne, TypeOK
<1>3. CASE StartRefresh
  <2>1. pass' \in Pass
    BY <1>0, <1>3 DEF StartRefresh, NoPass, TypeOK, Pass
  <2> QED BY <1>3, <2>1 DEF StartRefresh, TypeOK
<1>4. ASSUME NEW c \in Component, RefreshOne(c) PROVE TypeOK'
  <2>1. pass' \in Pass
    BY <1>4 DEF RefreshOne, TypeOK, Pass
  <2> QED BY <1>4, <2>1 DEF RefreshOne, TypeOK
<1>5. CASE WriteStatus
  BY <1>0, <1>5 DEF WriteStatus, TypeOK, PassPhase, Phases
<1>6. CASE FailPass \/ AbandonPass
  BY <1>0, <1>6 DEF FailPass, AbandonPass, Fault, TypeOK, Phases
<1>7. CASE (\E i \in Image : NewImage(i)) \/ StartRestore \/ EndRestore
  <2>1. target' \in Image /\ restore' \in BOOLEAN /\ edits' \in Nat
    <3>1. CASE \E i \in Image : NewImage(i)
      BY <3>1 DEF NewImage, TypeOK
    <3>2. CASE StartRestore
      BY <3>2 DEF StartRestore, TypeOK
    <3>3. CASE EndRestore
      BY <3>3 DEF EndRestore, TypeOK
    <3> QED BY <1>7, <3>1, <3>2, <3>3
  <2>2. UNCHANGED <<deploy, cache, phase, pc, pass, everUp, faults>>
    BY <1>7 DEF NewImage, StartRestore, EndRestore
  <2> QED BY <2>1, <2>2 DEF TypeOK
<1>8. ASSUME NEW c \in Component, Act(c) \/ PodUp(c) \/ PodLost(c) \/ GiveUp(c) PROVE TypeOK'
  <2>1. deploy' \in [Component -> Deployment]
    <3>1. CASE PodUp(c)
      <4>1. deploy' = [deploy EXCEPT ![c] = [deploy[c] EXCEPT !.new = TRUE, !.old = FALSE, !.gaveUp = FALSE]]
        BY <3>1 DEF PodUp, TypeOK
      <4>2. \A d \in Deployment, up \in BOOLEAN :
                 [d EXCEPT !.new = up, !.old = FALSE, !.gaveUp = FALSE] \in Deployment
        BY DEF Deployment
      <4> QED BY <4>1, <4>2 DEF TypeOK
    <3>2. CASE PodLost(c)
      <4>1. deploy' = [deploy EXCEPT ![c] = [deploy[c] EXCEPT !.new = FALSE, !.old = FALSE]]
        BY <3>2 DEF PodLost, TypeOK
      <4>2. \A d \in Deployment : [d EXCEPT !.new = FALSE, !.old = FALSE] \in Deployment
        BY DEF Deployment
      <4> QED BY <4>1, <4>2 DEF TypeOK
    <3>3. CASE GiveUp(c)
      <4>1. deploy' = [deploy EXCEPT ![c] = [deploy[c] EXCEPT !.gaveUp = TRUE]]
        BY <3>3 DEF GiveUp, TypeOK
      <4>2. \A d \in Deployment : [d EXCEPT !.gaveUp = TRUE] \in Deployment
        BY DEF Deployment
      <4> QED BY <4>1, <4>2 DEF TypeOK
    <3>4. CASE Act(c)
      <4>1. deploy' = [deploy EXCEPT ![c] = Acted(deploy[c])]
        BY <3>4 DEF Act, TypeOK
      <4> QED BY <4>1, ActedType DEF TypeOK
    <3> QED BY <1>8, <3>1, <3>2, <3>3, <3>4
  <2>2. everUp' \subseteq Component /\ faults' \in Nat
    BY <1>8 DEF Act, PodUp, PodLost, GiveUp, Fault, TypeOK
  <2> QED BY <1>8, <2>1, <2>2 DEF Act, PodUp, PodLost, GiveUp, TypeOK
<1>9. ASSUME NEW c \in Component, SyncCache(c) PROVE TypeOK'
  <2>1. Read(deploy[c]) \in Reading
    BY ReadType DEF TypeOK
  <2> QED BY <1>9, <2>1 DEF SyncCache, TypeOK
<1>10. CASE UNCHANGED vars
  BY <1>10 DEF vars, TypeOK
<1> QED BY <1>1, <1>2, <1>3, <1>4, <1>5, <1>6, <1>7, <1>8, <1>9, <1>10
         DEF Next, Step, Environment, DeploymentController, Watch

\* The facts about what came up are kept by every step.
LEMMA UpStep == TypeOK /\ UpInv /\ [Next]_vars => UpInv'
<1> SUFFICES ASSUME TypeOK, UpInv, [Next]_vars PROVE UpInv'
  OBVIOUS
<1>1. CASE BeginPass
  BY <1>1 DEF BeginPass, UpInv
<1>2. ASSUME NEW c \in Component, ApplyOne(c) PROVE UpInv'
  <2>1. \E replicas \in {0, 1} : deploy' = [deploy EXCEPT ![c] = Applied(deploy[c], pass.image, replicas)]
    BY <1>2 DEF ApplyOne
  <2>2. pass.image \in Image /\ \A n \in Component : deploy[n] \in Deployment
    BY DEF TypeOK, Pass
  <2>3. \A n \in Component : Up(deploy'[n]) => Up(deploy[n])
    BY <2>1, <2>2, AppliedType DEF TypeOK
  <2> QED BY <1>2, <2>3 DEF ApplyOne, UpInv
<1>3. CASE StartRefresh
  <2>1. pass'.todo = Component
    BY <1>3 DEF StartRefresh, TypeOK, Pass
  <2> QED BY <1>3, <2>1 DEF StartRefresh, UpInv
<1>4. ASSUME NEW c \in Component, RefreshOne(c) PROVE UpInv'
  <2>1. cache[c] \in Reading
    BY DEF TypeOK
  <2>2. Ready(cache[c]) => cache[c].available = 1
    BY <2>1 DEF Ready, Reading
  <2>3. /\ pass'.todo = pass.todo \ {c}
        /\ pass'.ready => pass.ready /\ Ready(cache[c])
    BY <1>4 DEF RefreshOne, TypeOK, Pass
  <2> QED BY <1>4, <2>2, <2>3 DEF RefreshOne, UpInv
<1>5. CASE WriteStatus
  BY <1>5 DEF WriteStatus, PassPhase, UpInv
<1>6. CASE FailPass \/ AbandonPass
  BY <1>6 DEF FailPass, AbandonPass, UpInv
<1>7. CASE (\E i \in Image : NewImage(i)) \/ StartRestore \/ EndRestore
  BY <1>7 DEF NewImage, StartRestore, EndRestore, UpInv
<1>8. ASSUME NEW c \in Component, Act(c) \/ PodUp(c) \/ PodLost(c) \/ GiveUp(c) PROVE UpInv'
  <2>1. \A n \in Component : Up(deploy'[n]) => Up(deploy[n]) \/ n \in everUp'
    <3>1. CASE Act(c)
      BY <3>1, ActedType DEF Act, TypeOK
    <3>2. CASE PodUp(c) \/ PodLost(c) \/ GiveUp(c)
      BY <3>2 DEF PodUp, PodLost, GiveUp, Up, TypeOK, Deployment
    <3> QED BY <1>8, <3>1, <3>2
  <2>2. everUp \subseteq everUp' /\ UNCHANGED <<cache, pc, pass, phase>>
    BY <1>8 DEF Act, PodUp, PodLost, GiveUp
  <2> QED BY <2>1, <2>2 DEF UpInv
<1>9. ASSUME NEW c \in Component, SyncCache(c) PROVE UpInv'
  <2>1. \A n \in Component : cache'[n].available = 1 => cache[n].available = 1 \/ Up(deploy[n])
    BY <1>9, ReadType DEF SyncCache, TypeOK
  <2> QED BY <1>9, <2>1 DEF SyncCache, UpInv
<1>10. CASE UNCHANGED vars
  BY <1>10 DEF vars, UpInv
<1> QED BY <1>1, <1>2, <1>3, <1>4, <1>5, <1>6, <1>7, <1>8, <1>9, <1>10
         DEF Next, Step, Environment, DeploymentController, Watch

\* Every variable keeps its type, for any set of Deployments, clients and images.
THEOREM RolloutTypeCorrect == Spec => []TypeOK
BY RolloutInit, RolloutStep, PTL DEF Spec

\* The phase is never Ready, and no verification starts, with a Deployment that
\* was never up, for any render and any delay of the cache (zaentrum_controller.go:484-538, 268-294).
THEOREM ReadyIsEarned == Spec => []ReadyMeansCameUp
<1>1. Init => UpInv
  BY DEF Init, UpInv, Up, Read
<1>2. UpInv => ReadyMeansCameUp \/ ~(everUp \subseteq Component)
  BY DEF UpInv, ReadyMeansCameUp, MayVerify, PassPhase
<1>3. Spec => [](TypeOK /\ UpInv)
  BY <1>1, RolloutInit, RolloutStep, UpStep, PTL DEF Spec
<1>4. TypeOK /\ UpInv => ReadyMeansCameUp
  BY <1>2 DEF TypeOK
<1> QED BY <1>3, <1>4, PTL

-----------------------------------------------------------------------------
(* Backup *)

BackupPass == [mode : Modes, jobs : SUBSET Job, status : Status, condition : Conditions]

\* Taking a Job makes a status of a status, no earlier than it was.
LEMMA TakeType ==
    ASSUME NEW b \in Status, NEW j \in Job, NEW read
    PROVE  /\ Take(b, j, read) \in Status
           /\ Take(b, j, read).success >= b.success /\ Take(b, j, read).failure >= b.failure
<1>1. b.success \in Nat /\ b.failure \in Nat /\ b.dump \in Nat /\ j.end \in Nat /\ j.name \in Nat
  BY DEF Status, Job
<1>2. b = [success |-> b.success, failure |-> b.failure, dump |-> b.dump]
  BY DEF Status
<1>3. CASE j.state = "Succeeded" /\ j.end > b.success
  <2>1. Take(b, j, read) = [success |-> j.end, failure |-> b.failure, dump |-> IF read THEN j.name ELSE b.dump]
    BY <1>2, <1>3 DEF Take
  <2> QED BY <1>1, <1>3, <2>1 DEF Status
<1>4. CASE ~(j.state = "Succeeded" /\ j.end > b.success) /\ j.state = "Failed" /\ j.end > b.failure
  <2>1. Take(b, j, read) = [success |-> b.success, failure |-> j.end, dump |-> b.dump]
    BY <1>2, <1>4 DEF Take
  <2> QED BY <1>1, <1>4, <2>1 DEF Status
<1>5. CASE ~(j.state = "Succeeded" /\ j.end > b.success) /\ ~(j.state = "Failed" /\ j.end > b.failure)
  <2>1. Take(b, j, read) = b
    BY <1>5 DEF Take
  <2> QED BY <1>1, <2>1
<1> QED BY <1>3, <1>4, <1>5

\* A condition is one of those there are.
LEMMA ConditionType ==
    ASSUME NEW c \in Conditions, NEW j \in Job
    PROVE  ConditionWith(c, j) \in Conditions
BY DEF ConditionWith, Conditions, Job

\* The types hold at first.
LEMMA BackupTypeInit == BackupInit => BackupOK
<1> SUFFICES ASSUME BackupInit PROVE BackupOK
  OBVIOUS
<1>1. report \in BackupPass /\ status \in Status
  BY DEF BackupInit, NoReport, BackupPass, Unknown, Never, Status, Modes, Conditions
<1>2. condition \in Conditions
  BY DEF BackupInit, Conditions
<1> QED BY <1>1, <1>2 DEF BackupInit, BackupOK, BackupPass

\* What ends a pass, and what leaves it.
LEMMA NoPassType == NoReport \in BackupPass
BY DEF NoReport, BackupPass, Unknown, Never, Status, Modes, Conditions

\* What ReportJob makes of the pass and of the observer.
LEMMA ReportType ==
    ASSUME BackupOK, NEW j \in report.jobs, ReportJob(j)
    PROVE  /\ report' \in BackupPass /\ j \in Job /\ report'.jobs = report.jobs \ {j} /\ report'.mode = report.mode
           /\ \E read \in {j.name \in readable, FALSE} :
                 /\ report'.status = Take(report.status, j, read)
                 /\ missed' = IF j.state = "Succeeded" /\ j.end > report.status.success /\ ~read
                              THEN missed \union {j.name} ELSE missed
<1>1. report \in BackupPass /\ j \in Job
  BY DEF BackupOK, BackupPass
<1>2. PICK read \in {j.name \in readable, FALSE} :
         /\ report' = [report EXCEPT !.jobs = @ \ {j}, !.status = Take(@, j, read),
                                 !.condition = ConditionWith(@, j)]
         /\ missed' = IF j.state = "Succeeded" /\ j.end > report.status.success /\ ~read
                      THEN missed \union {j.name} ELSE missed
  BY DEF ReportJob
<1>3. report.status \in Status /\ report.condition \in Conditions
  BY <1>1 DEF BackupPass
<1>4. Take(report.status, j, read) \in Status /\ ConditionWith(report.condition, j) \in Conditions
  BY <1>1, <1>3, TakeType, ConditionType
<1>5. report' = [mode |-> report.mode, jobs |-> report.jobs \ {j}, status |-> Take(report.status, j, read),
               condition |-> ConditionWith(report.condition, j)]
  BY <1>1, <1>2 DEF BackupPass
<1>6. report' \in BackupPass
  <2>1. report.mode \in Modes /\ report.jobs \ {j} \in SUBSET Job
    BY <1>1 DEF BackupPass
  <2> QED BY <1>4, <1>5, <2>1 DEF BackupPass
<1> QED BY <1>1, <1>2, <1>5, <1>6

\* A Job that ends is a Job.
LEMMA JobEnds ==
    ASSUME NEW j \in Job, NEW how \in {"Succeeded", "Failed"}, NEW when \in Nat
    PROVE  [j EXCEPT !.state = how, !.end = when] \in Job
BY DEF Job

\* Types are kept by every step.
LEMMA BackupTypeStep == BackupOK /\ [BackupNext]_backupVars => BackupOK'
<1> SUFFICES ASSUME BackupOK, [BackupNext]_backupVars PROVE BackupOK'
  OBVIOUS
<1> USE DEF world, BackupPass
<1>1. CASE ReadZaentrum
  <2>1. report' \in BackupPass
    BY <1>1, NoPassType DEF ReadZaentrum, BackupOK, NoReport, Modes, Conditions
  <2> QED BY <1>1, <2>1 DEF ReadZaentrum, BackupOK
<1>2. CASE ListJobs
  <2>1. report' \in BackupPass
    <3>1. CASE report' = [report EXCEPT !.jobs = jobs, !.condition = "Scheduled"]
      BY <3>1 DEF BackupOK, Conditions
    <3>2. CASE UNCHANGED report
      BY <3>2 DEF BackupOK
    <3> QED BY <1>2, <3>1, <3>2 DEF ListJobs
  <2>2. step' \in {"idle", "list", "take", "write"} /\ fails' \in Nat
    BY <1>2 DEF ListJobs, Fails, BackupOK
  <2> QED BY <1>2, <2>1, <2>2 DEF ListJobs, BackupOK
<1>3. ASSUME NEW j \in report.jobs, ReportJob(j) PROVE BackupOK'
  <2>1. report' \in BackupPass /\ missed' \subseteq Nat
    <3>1. report' \in BackupPass /\ j \in Job /\ (missed' = missed \/ missed' = missed \union {j.name})
      BY <1>3, ReportType
    <3>2. j.name \in Nat
      BY <3>1 DEF Job
    <3> QED BY <3>1, <3>2 DEF BackupOK
  <2> QED BY <1>3, <2>1 DEF ReportJob, BackupOK, Fails
<1>4. CASE EndReport
  BY <1>4 DEF EndReport, BackupOK
<1>5. CASE WriteBackup
  <2>1. report' \in BackupPass /\ step' = "idle" /\ stale' = FALSE
    BY <1>5, NoPassType DEF WriteBackup, Forget
  <2>2. status' \in Status /\ condition' \in Conditions /\ fails' \in Nat
    <3>1. report.status \in Status /\ report.condition \in Conditions
      BY DEF BackupOK
    <3> QED BY <1>5, <3>1 DEF WriteBackup, Fails, BackupOK
  <2> QED BY <1>5, <2>1, <2>2 DEF WriteBackup, BackupOK
<1>6. CASE AbandonReport
  <2>1. report' \in BackupPass /\ step' = "idle" /\ stale' = FALSE /\ fails' = fails + 1
    BY <1>6, NoPassType DEF AbandonReport, Forget, Fails
  <2>2. UNCHANGED <<mode, jobs, readable, clock, used, status, condition, missed, ended, switches>>
    BY <1>6 DEF AbandonReport
  <2>3. fails' \in Nat
    BY <2>1 DEF BackupOK
  <2> QED BY <2>1, <2>2, <2>3 DEF BackupOK
<1>7. ASSUME NEW m \in Modes, Switch(m) PROVE BackupOK'
  BY <1>7 DEF Switch, BackupOK
<1>8. ASSUME NEW n \in 1 .. MaxJobs, NEW second \in {clock, clock + 1}, CreateJob(n, second)
      PROVE  BackupOK'
  <2>1. n \in Nat \ {0} /\ second \in Nat
    BY BackupBounds DEF BackupOK
  <2>2. [name |-> n, made |-> second, state |-> "Running", end |-> Never] \in Job
    BY <2>1 DEF Job, Never
  <2> QED BY <1>8, <2>1, <2>2 DEF CreateJob, BackupOK, Elsewhere
<1>9. ASSUME NEW j \in jobs, FinishJob(j) PROVE BackupOK'
  <2>1. PICK state \in {"Succeeded", "Failed"}, end \in {clock, clock + 1} :
           LET done == [j EXCEPT !.state = state, !.end = end] IN
           /\ jobs' = (jobs \ {j}) \union {done}
           /\ ended' = ended \union {done}
           /\ clock' = end
           /\ readable' \in IF state = "Succeeded" THEN {readable, readable \union {j.name}} ELSE {readable}
    BY <1>9 DEF FinishJob
  <2>2. [j EXCEPT !.state = state, !.end = end] \in Job /\ end \in Nat /\ j.name \in Nat
    <3>1. j \in Job /\ clock \in Nat
      BY DEF BackupOK
    <3>2. end \in Nat /\ j.name \in Nat
      BY <3>1 DEF Job
    <3> QED BY <3>1, <3>2, JobEnds
  <2> QED BY <1>9, <2>1, <2>2 DEF FinishJob, BackupOK, Elsewhere
<1>10. ASSUME NEW j \in jobs, LosePods(j) \/ RemoveJob(j) PROVE BackupOK'
  BY <1>10 DEF LosePods, RemoveJob, BackupOK, Elsewhere
<1>11. CASE UNCHANGED backupVars
  BY <1>11 DEF backupVars, BackupOK
<1> QED BY <1>1, <1>2, <1>3, <1>4, <1>5, <1>6, <1>7, <1>8, <1>9, <1>10, <1>11
        DEF BackupNext, Reporting, Surroundings

\* Every variable of the backup report has its type.
THEOREM BackupTypeCorrect == BackupSpec => []BackupOK
BY BackupTypeInit, BackupTypeStep, PTL DEF BackupSpec

-----------------------------------------------------------------------------
\* A dump that is named is one a success wrote, as far as the passes could read.
IsASuccess(b) ==
    b.dump # 0 =>
        \E j \in Successes :
            /\ j.name = b.dump /\ j.end <= b.success
            /\ \/ j.end = b.success
               \/ \E k \in Successes : k.end = b.success /\ k.name \in missed

DumpInv ==
    /\ IsASuccess(status) /\ IsASuccess(report.status)
    /\ \A j \in jobs \union report.jobs : j.state # "Running" => j \in ended

\* What a pass is about to write is no earlier than what status says.
NotBefore == report.status.success >= status.success /\ report.status.failure >= status.failure

LaterInv == step # "idle" /\ report.mode # "external" => NotBefore

\* A dump that is a success's stays one when more ends and more is missed.
LEMMA StaysASuccess ==
    ASSUME NEW b \in Status, IsASuccess(b), ended \subseteq ended', missed \subseteq missed'
    PROVE  IsASuccess(b)'
<1> SUFFICES ASSUME b.dump # 0
             PROVE  \E j \in Successes' :
                       /\ j.name = b.dump /\ j.end <= b.success
                       /\ \/ j.end = b.success
                          \/ \E k \in Successes' : k.end = b.success /\ k.name \in missed'
  BY DEF IsASuccess
<1>1. Successes \subseteq Successes'
  BY DEF Successes
<1> QED BY <1>1 DEF IsASuccess

\* A success that is taken is the one its dump is of, or one whose dump was missed.
LEMMA TakenIsASuccess ==
    ASSUME BackupOK, DumpInv, NEW j \in report.jobs, ReportJob(j)
    PROVE  IsASuccess(report.status)'
<1> DEFINE b == report.status
           c == report'.status
<1>1. report \in BackupPass /\ j \in Job /\ ended' = ended
  BY ReportType DEF ReportJob, BackupOK, BackupPass
<1>2. PICK read \in {j.name \in readable, FALSE} :
         /\ c = Take(b, j, read)
         /\ missed' = IF j.state = "Succeeded" /\ j.end > b.success /\ ~read
                      THEN missed \union {j.name} ELSE missed
  BY ReportType
<1>3. Successes' = Successes /\ missed \subseteq missed'
  BY <1>1, <1>2 DEF Successes
<1>4. b \in Status /\ b = [success |-> b.success, failure |-> b.failure, dump |-> b.dump]
  BY <1>1 DEF BackupPass, Status
<1>5. b.success \in Nat /\ j.end \in Nat /\ \A k \in Successes : k.end \in Nat
  BY <1>1, <1>4 DEF Status, Job, Successes, BackupOK
<1>6. IsASuccess(b)
  BY DEF DumpInv
<1> SUFFICES ASSUME c.dump # 0
             PROVE  \E i \in Successes :
                       /\ i.name = c.dump /\ i.end <= c.success
                       /\ \/ i.end = c.success
                          \/ \E k \in Successes : k.end = c.success /\ k.name \in missed'
  BY <1>3 DEF IsASuccess
<1> HIDE DEF b, c
<1>7. CASE j.state = "Succeeded" /\ j.end > b.success
  <2>1. c = [success |-> j.end, failure |-> b.failure, dump |-> IF read THEN j.name ELSE b.dump]
    BY <1>2, <1>4, <1>7 DEF Take
  <2>2. j \in Successes
    BY <1>1, <1>7 DEF DumpInv, Successes
  <2>3. CASE read
    BY <1>5, <2>1, <2>2, <2>3
  <2>4. CASE ~read
    <3>1. c.dump = b.dump /\ c.success = j.end /\ j.name \in missed'
      BY <1>2, <1>7, <2>1, <2>4
    <3>2. PICK i \in Successes : i.name = b.dump /\ i.end <= b.success
      BY <1>6, <3>1 DEF IsASuccess
    <3>3. i.end <= c.success
      BY <1>5, <1>7, <3>1, <3>2
    <3> QED BY <2>2, <3>1, <3>2, <3>3
  <2> QED BY <2>3, <2>4
<1>8. CASE ~(j.state = "Succeeded" /\ j.end > b.success)
  <2>1. c.success = b.success /\ c.dump = b.dump
    BY <1>2, <1>4, <1>8 DEF Take
  <2> QED BY <1>3, <1>6, <2>1 DEF IsASuccess
<1> QED BY <1>7, <1>8

\* A status that says nothing names no dump.
LEMMA NothingIsASuccess ==
    /\ Unknown \in Status /\ Unknown.dump = 0 /\ NoReport.status = Unknown
    /\ NoReport.jobs = {}
BY DEF Unknown, Status, Never, NoReport

\* Nothing is named at first.
LEMMA DumpInit == BackupInit => DumpInv
BY NothingIsASuccess DEF BackupInit, DumpInv, IsASuccess

\* The dump's facts are kept by every step.
LEMMA DumpStep == BackupOK /\ DumpInv /\ [BackupNext]_backupVars => DumpInv'
<1> SUFFICES ASSUME BackupOK, DumpInv, [BackupNext]_backupVars PROVE DumpInv'
  OBVIOUS
<1> USE DEF world
<1>0. status \in Status /\ report.status \in Status /\ IsASuccess(status) /\ IsASuccess(report.status)
  BY DEF BackupOK, DumpInv
<1>1. CASE ReadZaentrum
  <2>1. UNCHANGED <<status, ended, missed, jobs>> /\ report'.jobs = {}
    BY <1>1, NothingIsASuccess DEF ReadZaentrum, NoReport
  <2>2. report'.status = status \/ report'.status = Unknown
    BY <1>1 DEF ReadZaentrum, NoReport
  <2> QED BY <1>0, <2>1, <2>2, NothingIsASuccess DEF DumpInv, IsASuccess, Successes
<1>2. CASE ListJobs
  <2>1. UNCHANGED <<status, ended, missed, jobs>>
    BY <1>2 DEF ListJobs
  <2>2. report'.status = report.status /\ (report'.jobs = jobs \/ report'.jobs = report.jobs)
    BY <1>2 DEF ListJobs, BackupOK
  <2> QED BY <2>1, <2>2 DEF DumpInv, IsASuccess, Successes
<1>3. ASSUME NEW j \in report.jobs, ReportJob(j) PROVE DumpInv'
  <2>1. UNCHANGED <<status, ended, jobs>> /\ report'.jobs \subseteq report.jobs /\ missed \subseteq missed'
    BY <1>3, ReportType DEF ReportJob
  <2>2. IsASuccess(status)'
    <3>1. \A b \in Status : IsASuccess(b) => IsASuccess(b)'
      BY <2>1, StaysASuccess
    <3> QED BY <1>0, <2>1, <3>1 DEF IsASuccess
  <2> QED BY <1>3, <2>1, <2>2, TakenIsASuccess DEF DumpInv
<1>4. CASE EndReport
  BY <1>4 DEF EndReport, DumpInv, IsASuccess, Successes
<1>5. CASE WriteBackup
  <2>1. /\ UNCHANGED <<ended, missed, jobs>> /\ report' = NoReport
        /\ status' = status \/ status' = report.status
    BY <1>5 DEF WriteBackup, Forget
  <2> QED BY <1>0, <2>1, NothingIsASuccess DEF DumpInv, IsASuccess, Successes
<1>6. CASE AbandonReport
  <2>1. UNCHANGED <<ended, missed, jobs, status>> /\ report' = NoReport
    BY <1>6 DEF AbandonReport, Forget
  <2> QED BY <1>0, <2>1, NothingIsASuccess DEF DumpInv, IsASuccess, Successes
<1>7. ASSUME NEW m \in Modes, Switch(m) PROVE DumpInv'
  BY <1>7 DEF Switch, DumpInv, IsASuccess, Successes
<1>8. ASSUME NEW n \in 1 .. MaxJobs, NEW second \in {clock, clock + 1}, CreateJob(n, second)
      PROVE  DumpInv'
  <2>1. UNCHANGED <<ended, missed, status, report>>
    BY <1>8 DEF CreateJob, Elsewhere
  <2>2. \A j \in jobs' : j \in jobs \/ j.state = "Running"
    BY <1>8 DEF CreateJob
  <2> QED BY <1>0, <2>1, <2>2 DEF DumpInv, IsASuccess, Successes
<1>9. ASSUME NEW j \in jobs, FinishJob(j) PROVE DumpInv'
  <2>1. UNCHANGED <<missed, status, report>>
    BY <1>9 DEF FinishJob, Elsewhere
  <2>2. ended \subseteq ended' /\ \A k \in jobs' : k \in jobs \/ k \in ended'
    BY <1>9 DEF FinishJob
  <2>3. \A b \in Status : IsASuccess(b) => IsASuccess(b)'
    BY <2>1, <2>2, StaysASuccess
  <2>4. IsASuccess(status)' /\ IsASuccess(report.status)'
    BY <1>0, <2>1, <2>3 DEF IsASuccess
  <2> QED BY <2>1, <2>2, <2>4 DEF DumpInv
<1>10. ASSUME NEW j \in jobs, LosePods(j) \/ RemoveJob(j) PROVE DumpInv'
  <2>1. UNCHANGED <<ended, missed, status, report>> /\ jobs' \subseteq jobs
    BY <1>10 DEF LosePods, RemoveJob, Elsewhere
  <2> QED BY <1>0, <2>1 DEF DumpInv, IsASuccess, Successes
<1>11. CASE UNCHANGED backupVars
  BY <1>11 DEF backupVars, DumpInv, IsASuccess, Successes
<1> QED BY <1>1, <1>2, <1>3, <1>4, <1>5, <1>6, <1>7, <1>8, <1>9, <1>10, <1>11
        DEF BackupNext, Reporting, Surroundings

\* LastDump names the dump of a backup that succeeded: of the last success, or of an
\* earlier one where the later one's pods could not be read (reportBackups).
THEOREM TheDumpIsASuccess == BackupSpec => []DumpIsASuccess
<1>1. BackupOK /\ DumpInv => DumpIsASuccess
  BY DEF DumpInv, IsASuccess, DumpIsASuccess
<1> QED BY <1>1, BackupTypeInit, BackupTypeStep, DumpInit, DumpStep, PTL DEF BackupSpec

\* No pass is under way at first.
LEMMA LaterInit == BackupInit => LaterInv
BY DEF BackupInit, LaterInv

\* A pass stays no earlier than the status it will replace.
LEMMA LaterStep == BackupOK /\ LaterInv /\ [BackupNext]_backupVars => LaterInv'
<1> SUFFICES ASSUME BackupOK, LaterInv, [BackupNext]_backupVars PROVE LaterInv'
  OBVIOUS
<1> USE DEF world
<1>0. /\ status.success \in Nat /\ status.failure \in Nat
      /\ report.status.success \in Nat /\ report.status.failure \in Nat /\ report.status \in Status
  BY DEF BackupOK, Status
<1>1. CASE ReadZaentrum
  <2>1. status' = status /\ report'.mode = mode /\ (mode # "external" => report'.status = status)
    BY <1>1 DEF ReadZaentrum, NoReport
  <2> QED BY <1>0, <2>1 DEF LaterInv, NotBefore
<1>2. CASE ListJobs
  <2>1. report'.status = report.status /\ report'.mode = report.mode /\ status' = status /\ step # "idle"
    BY <1>2 DEF ListJobs, BackupOK
  <2> QED BY <2>1 DEF LaterInv, NotBefore
<1>3. ASSUME NEW j \in report.jobs, ReportJob(j) PROVE LaterInv'
  <2>1. status' = status /\ step = "take"
    BY <1>3 DEF ReportJob
  <2>2. PICK read \in {j.name \in readable, FALSE} : report'.status = Take(report.status, j, read)
    BY <1>3, ReportType
  <2>3. j \in Job /\ report'.mode = report.mode
    BY <1>3, ReportType
  <2>4. /\ report'.status \in Status
        /\ report'.status.success >= report.status.success /\ report'.status.failure >= report.status.failure
    BY <1>0, <2>2, <2>3, TakeType
  <2>5. report'.status.success \in Nat /\ report'.status.failure \in Nat
    BY <2>4 DEF Status
  <2> QED BY <1>0, <2>1, <2>3, <2>4, <2>5 DEF LaterInv, NotBefore
<1>4. CASE EndReport
  BY <1>4 DEF EndReport, LaterInv, NotBefore
<1>5. CASE WriteBackup \/ AbandonReport
  BY <1>5 DEF WriteBackup, AbandonReport, Forget, LaterInv
<1>6. ASSUME NEW m \in Modes, Switch(m) PROVE LaterInv'
  BY <1>6 DEF Switch, LaterInv, NotBefore
<1>7. ASSUME NEW n \in 1 .. MaxJobs, NEW second \in {clock, clock + 1}, CreateJob(n, second)
      PROVE  LaterInv'
  BY <1>7 DEF CreateJob, Elsewhere, LaterInv, NotBefore
<1>8. ASSUME NEW j \in jobs, FinishJob(j) \/ LosePods(j) \/ RemoveJob(j) PROVE LaterInv'
  BY <1>8 DEF FinishJob, LosePods, RemoveJob, Elsewhere, LaterInv, NotBefore
<1>9. CASE UNCHANGED backupVars
  BY <1>9 DEF backupVars, LaterInv, NotBefore
<1> QED BY <1>1, <1>2, <1>3, <1>4, <1>5, <1>6, <1>7, <1>8, <1>9
        DEF BackupNext, Reporting, Surroundings

\* Only WriteStatus writes status, and a pass that is live is no earlier.
LEMMA OnlyLater ==
    ASSUME BackupOK, LaterInv, [BackupNext]_backupVars, report.mode # "external"
    PROVE  status'.success >= status.success /\ status'.failure >= status.failure
<1> USE DEF world
<1>1. status.success \in Nat /\ status.failure \in Nat
  BY DEF BackupOK, Status
<1>2. CASE status' = status
  BY <1>1, <1>2
<1>3. CASE status' # status
  <2>1. /\ ~(ReadZaentrum \/ ListJobs \/ EndReport \/ AbandonReport)
        /\ ~\E n \in 1 .. MaxJobs, second \in {clock, clock + 1} : CreateJob(n, second)
    BY <1>3 DEF ReadZaentrum, ListJobs, EndReport, AbandonReport, CreateJob, Elsewhere
  <2>2. /\ ~\E j \in report.jobs : ReportJob(j)
        /\ ~\E m \in Modes : Switch(m)
        /\ ~\E j \in jobs : FinishJob(j) \/ LosePods(j) \/ RemoveJob(j)
    BY <1>3 DEF ReportJob, Switch, FinishJob, LosePods, RemoveJob, Elsewhere
  <2>3. ~UNCHANGED backupVars
    BY <1>3 DEF backupVars
  <2>4. WriteBackup
    BY <2>1, <2>2, <2>3 DEF BackupNext, Reporting, Surroundings
  <2>5. status' = report.status /\ step # "idle"
    BY <1>3, <2>4 DEF WriteBackup
  <2> QED BY <2>5 DEF LaterInv, NotBefore
<1> QED BY <1>2, <1>3

\* The last success and the last failure only move forward while the databases are
\* bundled, whichever Jobs are listed, gone or unreadable (reportBackups).
THEOREM StatusNeverGoesBack == BackupSpec => NeverBack
<1>1. BackupOK /\ LaterInv /\ [BackupNext]_backupVars =>
      [report.mode # "external" => status'.success >= status.success /\ status'.failure >= status.failure]_backupVars
  BY OnlyLater
<1> QED BY <1>1, BackupTypeInit, BackupTypeStep, LaterInit, LaterStep, PTL DEF BackupSpec, NeverBack
=============================================================================
