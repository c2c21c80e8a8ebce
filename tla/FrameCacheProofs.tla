-------------------------- MODULE FrameCacheProofs --------------------------
(***************************************************************************)
(* The frame provider for any number of threads, requests, episodes and    *)
(* cameras, and any cache size: the cache holds the frames its keys stand   *)
(* for, and the provider implements FrameSource.                            *)
(***************************************************************************)
EXTENDS FrameCache, SequenceTheorems, FiniteSetTheorems, WellFoundedInduction, TLAPS

-----------------------------------------------------------------------------
(* Natural numbers: the least of a set, and induction for a set.            *)

Below == {p \in Nat \X Nat : p[1] < p[2]}

LEMMA BelowWellFounded == IsWellFoundedOn(Below, Nat)
BY NatLessThanWellFounded DEF OpToRel, Below

LEMMA LeastNat ==
  ASSUME NEW S \in SUBSET Nat, S # {}
  PROVE  \E m \in S : \A n \in S : m <= n
<1>1. PICK m \in S : \A n \in S : << n, m >> \notin Below
  BY BelowWellFounded, WFMin
<1>2. \A n \in S : n \in Nat /\ m \in Nat /\ ~ (n < m)
  BY <1>1 DEF Below
<1>3. \A n \in S : m <= n
  BY <1>2
<1>4. QED
  BY <1>3

LEMMA InductionOnSets ==
  \A S \in SUBSET Nat : 0 \in S /\ (\A n \in S : n + 1 \in S) => Nat \subseteq S
<1> TAKE S \in SUBSET Nat
<1> HAVE 0 \in S /\ \A n \in S : n + 1 \in S
<1> DEFINE T == Nat \ S
<1>1. ASSUME T # {} PROVE FALSE
  <2>1. PICK m \in T : \A n \in T : m <= n
    BY <1>1, LeastNat
  <2>2. m # 0 /\ m - 1 \in Nat /\ m = (m - 1) + 1 /\ ~ (m <= m - 1)
    BY <2>1
  <2>3. m - 1 \in S
    BY <2>1, <2>2
  <2>4. QED
    BY <2>1, <2>2, <2>3
<1>2. QED
  BY <1>1

LEMMA MinOfNat ==
  ASSUME NEW S \in SUBSET Nat, S # {}
  PROVE  Min(S) \in S /\ \A n \in S : Min(S) <= n
BY LeastNat DEF Min

LEMMA MinOfTwo ==
  ASSUME NEW m \in Int, NEW n \in Int
  PROVE  Min({m, n}) \in {m, n} /\ Min({m, n}) <= m /\ Min({m, n}) <= n
<1>1. \E x \in {m, n} : \A y \in {m, n} : x <= y
  OBVIOUS
<1>2. QED
  BY <1>1 DEF Min

LEMMA MaxOfInterval ==
  ASSUME NEW n \in Nat \ {0}, NEW S \in SUBSET (1 .. n), n \in S
  PROVE  Max(S) = n
<1>1. \A y \in S : n >= y /\ y \in Int
  OBVIOUS
<1>2. \A x \in S : (\A y \in S : x >= y) => x = n
  BY <1>1
<1>3. QED
  BY <1>1, <1>2 DEF Max

-----------------------------------------------------------------------------
(* Every set of positions can be put in order.                              *)

IsOrder(s, S) ==
  /\ s \in [1 .. Cardinality(S) -> S]
  /\ Range(s) = S
  /\ \A i, j \in DOMAIN s : i < j => s[i] < s[j]

LEMMA ExtendOrder ==
  ASSUME NEW n \in Nat, NEW S \in SUBSET (1 .. n + 1), n + 1 \in S,
         NEW s, IsOrder(s, S \ {n + 1})
  PROVE  \E t : IsOrder(t, S)
<1> DEFINE R == S \ {n + 1}  c == Cardinality(R)
           t == [i \in 1 .. c + 1 |-> IF i = c + 1 THEN n + 1 ELSE s[i]]
<1>1. IsFiniteSet(R) /\ S = R \cup {n + 1} /\ n + 1 \notin R
  <2>1. IsFiniteSet(1 .. n + 1)
    BY FS_Interval
  <2>2. QED
    BY <2>1, FS_Subset
<1>2. c \in Nat /\ Cardinality(S) = c + 1
  BY <1>1, FS_CardinalityType, FS_AddElement
<1> HIDE DEF c
<1>3. s \in [1 .. c -> R] /\ Range(s) = R /\ \A i, j \in DOMAIN s : i < j => s[i] < s[j]
  BY DEF IsOrder, c
<1>4. \A i \in 1 .. c : t[i] = s[i] /\ s[i] \in R /\ s[i] < n + 1
  <2>1. TAKE i \in 1 .. c
  <2>2. i \in 1 .. c + 1 /\ i # c + 1
    BY <1>2
  <2>3. s[i] \in R
    BY <1>3
  <2>4. s[i] \in 1 .. n + 1 /\ s[i] # n + 1
    BY <2>3
  <2>5. QED
    BY <2>2, <2>3, <2>4
<1>5. t[c + 1] = n + 1 /\ DOMAIN t = 1 .. c + 1
  BY <1>2
<1> HIDE DEF t, R
<1>6. \A i \in 1 .. c + 1 : i \in 1 .. c \/ i = c + 1
  BY <1>2
<1>7. t \in [1 .. c + 1 -> S]
  <2>1. t = [i \in 1 .. c + 1 |-> t[i]]
    BY DEF t
  <2>2. \A i \in 1 .. c + 1 : t[i] \in S
    BY <1>1, <1>4, <1>5, <1>6
  <2>3. QED
    BY <2>1, <2>2
<1>8. Range(t) = S
  <2>1. \A x \in S : \E i \in 1 .. c + 1 : t[i] = x
    <3>1. TAKE x \in S
    <3>2. CASE x = n + 1
      BY <3>2, <1>2, <1>5
    <3>3. CASE x \in R
      <4>1. PICK i \in 1 .. c : s[i] = x
        BY <3>3, <1>3 DEF Range
      <4>2. i \in 1 .. c + 1
        BY <1>2
      <4>3. QED
        BY <4>1, <4>2, <1>4
    <3>4. QED
      BY <3>1, <3>2, <3>3, <1>1
  <2>2. QED
    BY <2>1, <1>5, <1>7 DEF Range
<1>9. \A i, j \in DOMAIN t : i < j => t[i] < t[j]
  <2>1. SUFFICES ASSUME NEW i \in 1 .. c + 1, NEW j \in 1 .. c + 1, i < j
                 PROVE  t[i] < t[j]
    BY <1>5
  <2>2. i \in 1 .. c
    BY <2>1, <1>2
  <2>3. CASE j = c + 1
    BY <2>2, <2>3, <1>4, <1>5
  <2>4. CASE j \in 1 .. c
    BY <2>1, <2>2, <2>4, <1>3, <1>4
  <2>5. QED
    BY <2>3, <2>4, <1>6
<1>10. QED
  BY <1>2, <1>7, <1>8, <1>9 DEF IsOrder

LEMMA OrderExists ==
  ASSUME NEW n \in Nat, NEW S \in SUBSET (1 .. n)
  PROVE  \E s : IsOrder(s, S)
<1> DEFINE K == {k \in Nat : \A R \in SUBSET (1 .. k) : \E s : IsOrder(s, R)}
<1>1. 0 \in K
  <2>1. \A R \in SUBSET (1 .. 0) : R = {}
    OBVIOUS
  <2>2. IsOrder(<< >>, {})
    BY FS_EmptySet DEF IsOrder, Range
  <2>3. QED
    BY <2>1, <2>2
<1>2. \A k \in K : k + 1 \in K
  <2>1. TAKE k \in K
  <2>2. SUFFICES ASSUME NEW R \in SUBSET (1 .. k + 1) PROVE \E s : IsOrder(s, R)
    OBVIOUS
  <2>3. R \ {k + 1} \in SUBSET (1 .. k)
    OBVIOUS
  <2>4. PICK s : IsOrder(s, R \ {k + 1})
    BY <2>3
  <2>5. CASE k + 1 \in R
    BY <2>4, <2>5, ExtendOrder
  <2>6. CASE k + 1 \notin R
    <3>1. R \ {k + 1} = R
      BY <2>6
    <3>2. QED
      BY <2>4, <3>1
  <2>7. QED
    BY <2>5, <2>6
<1>3. Nat \subseteq K
  <2>1. K \in SUBSET Nat
    OBVIOUS
  <2> HIDE DEF K
  <2>2. 0 \in K /\ (\A k \in K : k + 1 \in K) => Nat \subseteq K
    BY <2>1, InductionOnSets
  <2>3. QED
    BY <2>2, <1>1, <1>2
<1>4. QED
  BY <1>3

LEMMA OrderedOf ==
  ASSUME NEW n \in Nat, NEW S \in SUBSET (1 .. n)
  PROVE  /\ Cardinality(S) \in Nat
         /\ Ordered(S) \in [1 .. Cardinality(S) -> S]
         /\ Range(Ordered(S)) = S
         /\ \A i, j \in DOMAIN Ordered(S) : Ordered(S)[i] = Ordered(S)[j] => i = j
<1>1. Cardinality(S) \in Nat
  <2>1. IsFiniteSet(1 .. n)
    BY FS_Interval
  <2>2. QED
    BY <2>1, FS_Subset, FS_CardinalityType
<1>2. IsOrder(Ordered(S), S)
  <2>1. PICK s : IsOrder(s, S)
    BY OrderExists
  <2>2. QED
    BY <2>1 DEF IsOrder, Ordered
<1>3. QED
  <2> DEFINE o == Ordered(S)
  <2>1. DOMAIN o = 1 .. Cardinality(S) /\ \A i, j \in DOMAIN o : i < j => o[i] < o[j]
    BY <1>2 DEF IsOrder
  <2>2. \A i \in DOMAIN o : i \in Int /\ o[i] \in Int
    <3> HIDE DEF o
    <3>1. o \in [1 .. Cardinality(S) -> S]
      BY <1>2 DEF IsOrder, o
    <3>2. \A i \in 1 .. Cardinality(S) : o[i] \in S
      BY <3>1
    <3>3. \A x \in S : x \in Int
      OBVIOUS
    <3>4. \A i \in 1 .. Cardinality(S) : i \in Int
      BY <1>1
    <3>5. QED
      BY <2>1, <3>2, <3>3, <3>4
  <2>3. \A i, j \in DOMAIN o : o[i] = o[j] => i = j
    <3> HIDE DEF o
    <3>1. QED
      BY <2>1, <2>2
  <2>4. QED
    BY <1>1, <1>2, <2>3 DEF IsOrder

-----------------------------------------------------------------------------
(* The cache.                                                               *)

Videos == UNION {Range(d.video) : d \in Datasets}

Keys == {<< e, c, ts >> : e \in DOMAIN Times, c \in Videos, ts \in Int}

(* An entry holds the frame its key stands for.                             *)
SoundEntries ==
  {x \in [key : Keys, frame : Videos \X Int] :
     x.frame = << x.key[2], Place(x.key[1], x.key[3]) >>}

Unique(c) == \A i, j \in DOMAIN c : c[i].key = c[j].key => i = j

SoundCaches == {c \in Seq(SoundEntries) : Len(c) <= CacheSize /\ Unique(c)}

(* The oldest entry is evicted: there is room for one more.                 *)
LEMMA EvictKeeps ==
  ASSUME NEW c \in SoundCaches
  PROVE  LET kept == IF Len(c) >= CacheSize THEN Tail(c) ELSE c
         IN  /\ kept \in Seq(SoundEntries) /\ Unique(kept)
             /\ Len(kept) \in Nat /\ Len(kept) + 1 <= CacheSize
<1>1. c \in Seq(SoundEntries) /\ Len(c) \in Nat /\ Len(c) <= CacheSize /\ Unique(c)
  BY DEF SoundCaches
<1>2. CASE Len(c) >= CacheSize
  <2>1. c # << >>
    BY <1>2, CacheAssumption
  <2>2. Tail(c) \in Seq(SoundEntries) /\ Len(Tail(c)) = Len(c) - 1
    BY <1>1, <2>1
  <2>3. \A i \in 1 .. Len(c) - 1 : Tail(c)[i] = c[i + 1]
    BY <1>1, <2>1
  <2>4. Unique(Tail(c))
    <3>1. SUFFICES ASSUME NEW i \in 1 .. Len(c) - 1, NEW j \in 1 .. Len(c) - 1,
                          c[i + 1].key = c[j + 1].key
                   PROVE  i = j
      BY <1>1, <2>2, <2>3 DEF Unique
    <3>2. i + 1 \in DOMAIN c /\ j + 1 \in DOMAIN c
      BY <1>1
    <3>3. i + 1 = j + 1
      BY <3>1, <3>2, <1>1 DEF Unique
    <3>4. QED
      BY <3>3
  <2>5. QED
    BY <1>1, <1>2, <2>2, <2>4, CacheAssumption
<1>3. CASE ~ (Len(c) >= CacheSize)
  BY <1>1, <1>3, CacheAssumption
<1>4. QED
  BY <1>2, <1>3

LEMMA InsertKeeps ==
  ASSUME NEW c \in SoundCaches, NEW entry \in SoundEntries
  PROVE  Insert(c, entry) \in SoundCaches
<1> DEFINE kept == IF Len(c) >= CacheSize THEN Tail(c) ELSE c
           at == {i \in DOMAIN kept : kept[i].key = entry.key}
<1>1. /\ kept \in Seq(SoundEntries) /\ Unique(kept)
      /\ Len(kept) \in Nat /\ Len(kept) + 1 <= CacheSize
  BY EvictKeeps
<1>2. Insert(c, entry) = IF at = {} THEN Append(kept, entry)
                         ELSE [kept EXCEPT ![Min(at)] = entry]
  BY DEF Insert
<1> HIDE DEF kept
<1>3. CASE at = {}
  <2> DEFINE d == Append(kept, entry)
  <2>1. d \in Seq(SoundEntries) /\ Len(d) = Len(kept) + 1
    BY <1>1
  <2>2. \A i \in 1 .. Len(kept) : d[i] = kept[i] /\ kept[i].key # entry.key
    BY <1>1, <1>3
  <2>3. d[Len(kept) + 1] = entry /\ DOMAIN d = 1 .. Len(kept) + 1
    BY <1>1
  <2> HIDE DEF d
  <2>4. ASSUME NEW i \in DOMAIN d, NEW j \in DOMAIN d, d[i].key = d[j].key
        PROVE  i = j
    <3>1. i \in 1 .. Len(kept) \/ i = Len(kept) + 1
      BY <2>3, <1>1
    <3>2. j \in 1 .. Len(kept) \/ j = Len(kept) + 1
      BY <2>3, <1>1
    <3>3. CASE i \in 1 .. Len(kept) /\ j \in 1 .. Len(kept)
      BY <3>3, <2>2, <2>4, <1>1 DEF Unique
    <3>4. CASE i = Len(kept) + 1 \/ j = Len(kept) + 1
      BY <3>1, <3>2, <3>4, <2>2, <2>3, <2>4
    <3>5. QED
      BY <3>1, <3>2, <3>3, <3>4
  <2>5. QED
    BY <1>1, <1>2, <1>3, <2>1, <2>4 DEF SoundCaches, Unique, d
<1>4. CASE at # {}
  <2> DEFINE m == Min(at)
             d == [kept EXCEPT ![m] = entry]
  <2>1. m \in at
    <3>1. at \in SUBSET Nat
      BY <1>1
    <3> HIDE DEF at
    <3>2. QED
      BY <3>1, <1>4, MinOfNat
  <2>2. m \in 1 .. Len(kept) /\ kept[m].key = entry.key
    BY <2>1, <1>1
  <2> HIDE DEF m, at
  <2>3. d \in Seq(SoundEntries) /\ Len(d) = Len(kept) /\ DOMAIN d = DOMAIN kept
    BY <2>2, <1>1, ExceptSeq
  <2>4. \A i \in DOMAIN kept : d[i].key = kept[i].key
    BY <2>2, <1>1
  <2>5. Unique(d)
    BY <2>3, <2>4, <1>1 DEF Unique
  <2>6. QED
    BY <1>1, <1>2, <1>4, <2>3, <2>5, CacheAssumption DEF SoundCaches, m
<1>5. QED
  BY <1>3, <1>4

-----------------------------------------------------------------------------
(* Storing the frames of one decode call: the fold of the library, unfolded *)
(* one position at a time.                                                  *)

(* f is the function that MapThenFoldSet defines, for the first k entries.  *)
Folds(f, c, seq, k) ==
  f = [s \in SUBSET (1 .. k) |->
         IF s = {} THEN c ELSE Insert(f[s \ {Max(s)}], seq[Max(s)])]

LEMMA FoldsExist ==
  ASSUME NEW c, NEW seq, NEW n \in Nat
  PROVE  \E f : Folds(f, c, seq, n)
<1> DEFINE K == {k \in Nat : \E f : Folds(f, c, seq, k)}
<1>1. 0 \in K
  <2> DEFINE f == [s \in SUBSET (1 .. 0) |-> c]
  <2>1. \A s \in SUBSET (1 .. 0) : s = {}
    OBVIOUS
  <2>2. Folds(f, c, seq, 0)
    BY <2>1 DEF Folds
  <2>3. QED
    BY <2>2
<1>2. \A k \in K : k + 1 \in K
  <2>1. TAKE k \in K
  <2>2. PICK f : Folds(f, c, seq, k)
    OBVIOUS
  <2> DEFINE g == [s \in SUBSET (1 .. k + 1) |->
                     IF s = {} THEN c
                     ELSE IF k + 1 \in s THEN Insert(f[s \ {k + 1}], seq[k + 1])
                     ELSE f[s]]
  <2>3. \A s \in SUBSET (1 .. k) : g[s] = f[s]
    <3>1. TAKE s \in SUBSET (1 .. k)
    <3>2. s \in SUBSET (1 .. k + 1) /\ k + 1 \notin s
      OBVIOUS
    <3>3. s = {} => f[s] = c
      BY <2>2 DEF Folds
    <3>4. QED
      BY <3>2, <3>3
  <2>4. ASSUME NEW s \in SUBSET (1 .. k + 1), s # {}
        PROVE  g[s] = Insert(g[s \ {Max(s)}], seq[Max(s)])
    <3>1. CASE k + 1 \in s
      <4>1. Max(s) = k + 1
        BY <3>1, <2>4, MaxOfInterval
      <4>2. s \ {k + 1} \in SUBSET (1 .. k)
        OBVIOUS
      <4>3. QED
        BY <4>1, <4>2, <3>1, <2>3, <2>4
    <3>2. CASE k + 1 \notin s
      <4>1. s \in SUBSET (1 .. k) /\ s \ {Max(s)} \in SUBSET (1 .. k)
        <5>1. \A x \in s : x \in 1 .. k + 1 /\ x # k + 1
          BY <3>2
        <5>2. \A x \in s : x \in 1 .. k
          BY <5>1
        <5>3. QED
          BY <5>2
      <4>2. f[s] = Insert(f[s \ {Max(s)}], seq[Max(s)])
        BY <4>1, <2>2, <2>4 DEF Folds
      <4>3. QED
        BY <4>1, <4>2, <2>3
    <3>3. QED
      BY <3>1, <3>2
  <2>5. g[{}] = c
    OBVIOUS
  <2>6. g = [s \in SUBSET (1 .. k + 1) |-> g[s]]
    OBVIOUS
  <2> HIDE DEF g
  <2>7. Folds(g, c, seq, k + 1)
    BY <2>4, <2>5, <2>6 DEF Folds
  <2>8. QED
    BY <2>7
<1>3. Nat \subseteq K
  <2>1. K \in SUBSET Nat
    OBVIOUS
  <2> HIDE DEF K
  <2>2. QED
    BY <2>1, <1>1, <1>2, InductionOnSets
<1>4. QED
  BY <1>3

LEMMA StoringKeeps ==
  ASSUME NEW c \in SoundCaches, NEW seq \in Seq(SoundEntries)
  PROVE  FoldLeft(Insert, c, seq) \in SoundCaches
<1> DEFINE n == Len(seq)
           f == CHOOSE f : Folds(f, c, seq, n)
           K == {k \in Nat : k <= n => f[1 .. k] \in SoundCaches}
<1>1. n \in Nat /\ DOMAIN seq = 1 .. n
  OBVIOUS
<1>2. FoldLeft(Insert, c, seq) = f[1 .. n]
  BY <1>1 DEF FoldLeft, MapThenFoldSet, Folds
<1>3. Folds(f, c, seq, n)
  BY <1>1, FoldsExist
<1> HIDE DEF n, f
<1>4. 0 \in K
  <2>1. 1 .. 0 = {}
    OBVIOUS
  <2>2. f[1 .. 0] = c
    BY <2>1, <1>3 DEF Folds
  <2>3. QED
    BY <2>2
<1>5. \A k \in K : k + 1 \in K
  <2>1. SUFFICES ASSUME NEW k \in Nat, k + 1 <= n, f[1 .. k] \in SoundCaches
                 PROVE  f[1 .. k + 1] \in SoundCaches
    BY <1>1
  <2>2. Max(1 .. k + 1) = k + 1
    BY MaxOfInterval
  <2>3. (1 .. k + 1) \ {k + 1} = 1 .. k /\ 1 .. k + 1 # {}
    OBVIOUS
  <2>4. 1 .. k + 1 \in SUBSET (1 .. n)
    BY <1>1, <2>1
  <2>5. f[1 .. k + 1] = Insert(f[1 .. k], seq[k + 1])
    BY <2>2, <2>3, <2>4, <1>3 DEF Folds
  <2>6. seq[k + 1] \in SoundEntries
    BY <1>1, <2>1 DEF n
  <2>7. QED
    BY <2>1, <2>5, <2>6, InsertKeeps
<1>6. Nat \subseteq K
  <2>1. K \in SUBSET Nat
    OBVIOUS
  <2> HIDE DEF K
  <2>2. QED
    BY <2>1, <1>4, <1>5, InductionOnSets
<1>7. f[1 .. n] \in SoundCaches
  BY <1>1, <1>6
<1>8. QED
  BY <1>2, <1>7

-----------------------------------------------------------------------------
(* What a request is for.                                                   *)

LEMMA EpisodeTimes ==
  ASSUME NEW e \in DOMAIN Times
  PROVE  /\ Times[e] \in Seq(Int) /\ Times[e] # << >>
         /\ Len(Times[e]) \in Nat \ {0} /\ DOMAIN Times[e] = 1 .. Len(Times[e])
         /\ Start[e] \in Int
<1>1. Times[e] \in Seq(Int) \ {<< >>} /\ Start[e] \in Int
  BY TimesAssumption
<1>2. QED
  BY <1>1

LEMMA DistanceIsNat ==
  ASSUME NEW m \in Int, NEW n \in Int
  PROVE  Distance(m, n) \in Nat
BY DEF Distance

(* Snapping always finds a frame of the episode.                            *)
LEMMA SnapsToFrame ==
  ASSUME NEW e \in DOMAIN Times, NEW ts \in Int, NEW parts \in Int
  PROVE  Snapped(ts, parts, e) \in Int /\ Snapped(ts, parts, e) \in Range(Times[e])
<1> DEFINE n == Len(Times[e])
           off(i) == Distance(parts * Times[e][i], ts)
           near == {i \in DOMAIN Times[e] : \A j \in DOMAIN Times[e] : off(i) <= off(j)}
           offs == {off(i) : i \in 1 .. n}
<1>1. n \in Nat \ {0} /\ DOMAIN Times[e] = 1 .. n /\ \A i \in 1 .. n : Times[e][i] \in Int
  BY EpisodeTimes
<1>2. \A i \in 1 .. n : off(i) \in Nat
  <2>1. TAKE i \in 1 .. n
  <2>2. parts * Times[e][i] \in Int
    BY <1>1
  <2>3. QED
    BY <2>2, DistanceIsNat
<1>3. near # {}
  <2> HIDE DEF n, off
  <2>1. offs \in SUBSET Nat /\ offs # {}
    <3>1. 1 \in 1 .. n
      BY <1>1
    <3>2. QED
      BY <3>1, <1>2
  <2>2. PICK m \in offs : \A k \in offs : m <= k
    BY <2>1, LeastNat
  <2>3. QED
    BY <2>2, <1>1
<1>4. Min(near) \in near
  <2>1. near \in SUBSET Nat
    BY <1>1
  <2> HIDE DEF near
  <2>2. QED
    BY <2>1, <1>3, MinOfNat
<1>5. Min(near) \in 1 .. n
  BY <1>1, <1>4
<1>6. Snapped(ts, parts, e) = Times[e][Min(near)]
  BY DEF Snapped
<1> HIDE DEF near, n
<1>7. QED
  BY <1>1, <1>5, <1>6 DEF Range

LEMMA EvenTimesAreTimes ==
  ASSUME NEW e \in DOMAIN Times, NEW max \in Int
  PROVE  EvenTimes(e, max) \in Seq(Int)
<1> DEFINE first == Times[e][1]  last == Times[e][Len(Times[e])]
           n == Min({max, Len(Times[e])})
<1>1. Times[e] \in Seq(Int) /\ Len(Times[e]) \in Nat \ {0} /\ first \in Int /\ last \in Int
  BY EpisodeTimes
<1>2. CASE max <= 0
  BY <1>2 DEF EvenTimes
<1>3. CASE ~ (max <= 0)
  <2>1. n \in Nat
    <3>1. n \in {max, Len(Times[e])}
      <4> DEFINE l == Len(Times[e])
      <4>1. l \in Int
        BY <1>1
      <4> HIDE DEF l
      <4>2. Min({max, l}) \in {max, l}
        BY <4>1, MinOfTwo
      <4>3. QED
        BY <4>2 DEF l
    <3>2. QED
      BY <3>1, <1>1, <1>3
  <2> HIDE DEF n, first, last
  <2>2. [i \in 1 .. n |-> first] \in Seq(Int)
    BY <1>1, <2>1
  <2> DEFINE at(i) == (n - 1) * first + (i - 1) * (last - first)
  <2>3. \A i \in 1 .. n : Snapped(at(i), n - 1, e) \in Int
    <3>1. TAKE i \in 1 .. n
    <3>2. (n - 1) * first \in Int /\ (i - 1) * (last - first) \in Int
      BY <2>1, <1>1
    <3>3. at(i) \in Int
      BY <3>2
    <3> HIDE DEF at
    <3>4. QED
      BY <3>3, <2>1, SnapsToFrame
  <2>4. [i \in 1 .. n |-> Snapped(at(i), n - 1, e)] \in Seq(Int)
    <3> HIDE DEF at
    <3>1. QED
      BY <2>1, <2>3
  <2>5. EvenTimes(e, max) \in {Times[e], [i \in 1 .. n |-> first],
                               [i \in 1 .. n |-> Snapped(at(i), n - 1, e)]}
    BY <1>3 DEF EvenTimes, n, first, last
  <2>6. QED
    BY <2>2, <2>4, <2>5, <1>1
<1>4. QED
  BY <1>2, <1>3

LEMMA ResolutionType ==
  ASSUME NEW r \in Asks, NEW d \in Datasets
  PROVE  /\ Resolved(r, d) \in Resolutions
         /\ Resolved(r, d).episode = r.episode /\ Resolved(r, d).times = r.times
         /\ Resolved(r, d).max = r.max
         /\ r.episode \in DOMAIN Times /\ r.times \in Seq(Int) /\ r.max \in Int
         /\ Wanted(Resolved(r, d)) = Wanted(r)
<1>1. r \in [episode : DOMAIN Times, camera : {x.camera : x \in Asks},
             times : Seq(Int), max : Int, insists : BOOLEAN]
  BY RequestAssumption
<1>2. /\ Resolved(r, d).episode = r.episode /\ Resolved(r, d).times = r.times
      /\ Resolved(r, d).max = r.max
  BY <1>1 DEF Resolved
<1>3. Wanted(Resolved(r, d)) = Wanted(r)
  BY <1>2 DEF Wanted
<1>4. QED
  BY <1>1, <1>2, <1>3 DEF Resolutions

LEMMA WantedAreTimes ==
  ASSUME NEW q \in Resolutions
  PROVE  q.episode \in DOMAIN Times /\ Wanted(q) \in Seq(Int)
<1>1. PICK r \in Asks, d \in Datasets : q = Resolved(r, d)
  BY DEF Resolutions
<1>2. q.episode \in DOMAIN Times /\ q.times \in Seq(Int) /\ q.max \in Int
  BY <1>1, ResolutionType
<1>3. CASE q.times = << >>
  BY <1>2, <1>3, EvenTimesAreTimes DEF Wanted
<1>4. CASE q.times # << >>
  <2>1. \A i \in DOMAIN q.times : Snapped(q.times[i], 1, q.episode) \in Int
    BY <1>2, SnapsToFrame
  <2>2. QED
    BY <1>2, <1>4, <2>1 DEF Wanted
<1>5. QED
  BY <1>2, <1>3, <1>4

LEMMA PlaceIsInt ==
  ASSUME NEW e \in DOMAIN Times, NEW ts \in Int
  PROVE  Place(e, ts) \in Int
<1>1. Times[e][1] \in Int /\ Start[e] \in Int
  BY EpisodeTimes
<1>2. QED
  BY <1>1 DEF Place

-----------------------------------------------------------------------------
(* An answer on its way: the frames that are there are the right ones.      *)

Partial(r, o) ==
  /\ o = [i \in DOMAIN Wanted(r) |-> o[i]]
  /\ \A i \in DOMAIN o : o[i] \in {None, FramesOf(r)[i]}

Gaps(o) == {i \in DOMAIN o : o[i] = None}

MissesOf(o) == Ordered(Gaps(o))

(* The places of the frames that are missing.                               *)
PlacesOf(r, o) ==
  [j \in DOMAIN MissesOf(o) |->
     << r.camera, Place(r.episode, Wanted(r)[MissesOf(o)[j]]) >>]

LEMMA MissesAreGaps ==
  ASSUME NEW r \in Resolutions, NEW o, Partial(r, o)
  PROVE  /\ MissesOf(o) \in Seq(Gaps(o)) /\ Range(MissesOf(o)) = Gaps(o)
         /\ Gaps(o) \subseteq DOMAIN Wanted(r)
         /\ Len(MissesOf(o)) \in Nat /\ DOMAIN MissesOf(o) = 1 .. Len(MissesOf(o))
         /\ \A j \in 1 .. Len(MissesOf(o)) : MissesOf(o)[j] \in DOMAIN Wanted(r)
<1> DEFINE gaps == Gaps(o)
<1>1. Wanted(r) \in Seq(Int)
  BY WantedAreTimes
<1>2. Len(Wanted(r)) \in Nat /\ DOMAIN Wanted(r) = 1 .. Len(Wanted(r))
  BY <1>1
<1>3. gaps \in SUBSET (1 .. Len(Wanted(r)))
  BY <1>2 DEF Partial, Gaps
<1> HIDE DEF gaps
<1>4. /\ Cardinality(gaps) \in Nat
      /\ Ordered(gaps) \in [1 .. Cardinality(gaps) -> gaps]
      /\ Range(Ordered(gaps)) = gaps
  BY <1>2, <1>3, OrderedOf
<1>5. Ordered(gaps) \in Seq(gaps)
  BY <1>4
<1>6. \A j \in 1 .. Len(Ordered(gaps)) : Ordered(gaps)[j] \in DOMAIN Wanted(r)
  <2>1. \A j \in 1 .. Len(Ordered(gaps)) : Ordered(gaps)[j] \in gaps
    BY <1>5
  <2>2. QED
    BY <2>1, <1>2, <1>3
<1>7. QED
  BY <1>2, <1>3, <1>4, <1>5, <1>6 DEF MissesOf, gaps

LEMMA FrameOfPlace ==
  ASSUME NEW r \in Resolutions, NEW i \in DOMAIN Wanted(r)
  PROVE  /\ Wanted(r)[i] \in Int
         /\ FramesOf(r)[i] = << r.camera, Place(r.episode, Wanted(r)[i]) >>
         /\ Place(r.episode, Wanted(r)[i]) \in Int
<1>1. r.episode \in DOMAIN Times /\ Wanted(r)[i] \in Int
  BY WantedAreTimes
<1>2. QED
  BY <1>1, PlaceIsInt DEF FramesOf

LEMMA PlacesAreFrames ==
  ASSUME NEW r \in Resolutions, NEW o, Partial(r, o), NEW C, r.camera \in C
  PROVE  /\ PlacesOf(r, o) \in Seq(C \X Int)
         /\ Len(PlacesOf(r, o)) = Len(MissesOf(o))
         /\ \A j \in DOMAIN MissesOf(o) : PlacesOf(r, o)[j] = FramesOf(r)[MissesOf(o)[j]]
<1> DEFINE m == MissesOf(o)
<1>1. Len(m) \in Nat /\ DOMAIN m = 1 .. Len(m)
  BY MissesAreGaps
<1>2. \A j \in 1 .. Len(m) : m[j] \in DOMAIN Wanted(r)
  BY MissesAreGaps
<1>3. \A j \in 1 .. Len(m) : << r.camera, Place(r.episode, Wanted(r)[m[j]]) >> \in C \X Int
  BY <1>2, FrameOfPlace
<1>4. PlacesOf(r, o) = [j \in 1 .. Len(m) |-> << r.camera, Place(r.episode, Wanted(r)[m[j]]) >>]
  BY <1>1 DEF PlacesOf
<1> HIDE DEF m
<1>5. PlacesOf(r, o) \in Seq(C \X Int) /\ Len(PlacesOf(r, o)) = Len(m)
  BY <1>1, <1>3, <1>4
<1>6. \A j \in 1 .. Len(m) : PlacesOf(r, o)[j] = FramesOf(r)[m[j]]
  BY <1>2, <1>4, FrameOfPlace
<1>7. QED
  BY <1>1, <1>5, <1>6 DEF m

-----------------------------------------------------------------------------
(* The inductive invariant. *)

Steps == {"idle", "lookup", "decode", "read", "store", "warn", "answer"}

ShapeInv ==
  /\ dataset \in Datasets
  /\ pc \in [Threads -> Steps]
  /\ request \in [Threads -> Resolutions \cup {Idle}]
  /\ DOMAIN wanted = Threads /\ DOMAIN out = Threads /\ DOMAIN decoded = Threads
  /\ decoder \in Threads \cup {Idle}
  /\ warned \in BOOLEAN

(* A thread at work has a request, the frames of which it knows.            *)
RequestInv(t) ==
  /\ pc[t] # "idle" <=> request[t] # Idle
  /\ pc[t] # "idle" => wanted[t] = Wanted(request[t])

(* The answer so far has nothing wrong in it, and an answer no gap.         *)
OutInv(t) ==
  /\ pc[t] \in {"decode", "read", "store", "answer"} => Partial(request[t], out[t])
  /\ pc[t] = "answer" => None \notin Range(out[t])

(* The thread that reads holds the decoder, which was sent to its places.   *)
AimInv(t) ==
  /\ pc[t] = "read" <=> decoder = t
  /\ pc[t] \in {"read", "store"} => HasVideo(request[t])
  /\ pc[t] = "read" => aim = PlacesOf(request[t], out[t])

(* What it has read is what it wanted, unless it is incomplete.             *)
DecodedInv(t) ==
  /\ Range(decoded[t]) \subseteq Range(dataset.video) \X Int
  /\ pc[t] = "store" /\ Len(decoded[t]) = Len(MissesOf(out[t])) =>
       decoded[t] = PlacesOf(request[t], out[t])

ThreadInv(t) == RequestInv(t) /\ OutInv(t) /\ AimInv(t) /\ DecodedInv(t)

IInv ==
  /\ ShapeInv
  /\ \A t \in Threads : ThreadInv(t)
  /\ cache \in SoundCaches

-----------------------------------------------------------------------------
LEMMA InitInv == Init => IInv
<1> SUFFICES ASSUME Init PROVE IInv
  OBVIOUS
<1> USE DEF Init
<1>1. ShapeInv
  BY DEF ShapeInv, Steps
<1>2. cache \in SoundCaches
  BY CacheAssumption DEF SoundCaches, Unique
<1>3. ASSUME NEW t \in Threads PROVE ThreadInv(t)
  BY <1>3, RequestAssumption
     DEF ThreadInv, RequestInv, OutInv, AimInv, DecodedInv, Range
<1>4. QED
  BY <1>1, <1>2, <1>3 DEF IInv

(* A thread leaves the work of the others alone.                            *)
LEMMA OthersStand ==
  ASSUME IInv, NEW t \in Threads, Call(t) \/ Work(t),
         NEW u \in Threads, u # t
  PROVE  /\ pc'[u] = pc[u] /\ request'[u] = request[u] /\ wanted'[u] = wanted[u]
         /\ out'[u] = out[u] /\ decoded'[u] = decoded[u]
         /\ decoder' = u <=> decoder = u
         /\ decoder = u => aim' = aim
         /\ dataset' = dataset
<1>1. /\ pc \in [Threads -> Steps] /\ request \in [Threads -> Resolutions \cup {Idle}]
      /\ DOMAIN wanted = Threads /\ DOMAIN out = Threads /\ DOMAIN decoded = Threads
      /\ pc[t] = "read" <=> decoder = t
      /\ Idle \notin Threads
  BY RequestAssumption DEF IInv, ShapeInv, ThreadInv, AimInv
<1> USE <1>1 DEF Goto, shared
<1>2. CASE Call(t)
  BY <1>2 DEF Call
<1>3. CASE NothingWanted(t) \/ NoCamera(t) \/ Warn(t) \/ Incomplete(t) \/ Answer(t)
  BY <1>3 DEF NothingWanted, NoCamera, Warn, Incomplete, Answer, GiveUp, Return
<1>4. CASE Lookup(t) \/ Unresolved(t) \/ Store(t)
  BY <1>4 DEF Lookup, Unresolved, Store
<1>5. CASE Aim(t)
  BY <1>5 DEF Aim
<1>6. CASE Read(t) \/ ReadShort(t) \/ ReadFails(t)
  BY <1>6 DEF Read, ReadShort, ReadFails
<1>7. QED
  BY <1>2, <1>3, <1>4, <1>5, <1>6 DEF Work

LEMMA OthersKept ==
  ASSUME IInv, NEW t \in Threads, Call(t) \/ Work(t),
         NEW u \in Threads, u # t
  PROVE  ThreadInv(u)'
<1>1. /\ pc'[u] = pc[u] /\ request'[u] = request[u] /\ wanted'[u] = wanted[u]
      /\ out'[u] = out[u] /\ decoded'[u] = decoded[u]
      /\ decoder' = u <=> decoder = u
      /\ decoder = u => aim' = aim
      /\ dataset' = dataset
  BY OthersStand
<1>2. ThreadInv(u)
  BY DEF IInv
<1>3. RequestInv(u)'
  BY <1>1, <1>2 DEF ThreadInv, RequestInv
<1>4. OutInv(u)'
  BY <1>1, <1>2 DEF ThreadInv, OutInv
<1>5. AimInv(u)'
  BY <1>1, <1>2 DEF ThreadInv, AimInv, HasVideo
<1>6. DecodedInv(u)'
  BY <1>1, <1>2 DEF ThreadInv, DecodedInv
<1>7. QED
  BY <1>3, <1>4, <1>5, <1>6 DEF ThreadInv

-----------------------------------------------------------------------------
(* The steps of a thread. *)

LEMMA ShapeStep ==
  ASSUME IInv, NEW t \in Threads, Call(t) \/ Work(t)
  PROVE  ShapeInv'
<1>1. ShapeInv /\ (pc[t] = "read" <=> decoder = t)
  BY DEF IInv, ThreadInv, AimInv
<1> USE <1>1 DEF ShapeInv, Steps, Goto, shared
<1>2. CASE Call(t)
  <2>1. PICK r \in Asks : request' = [request EXCEPT ![t] = Resolved(r, dataset)]
    BY <1>2 DEF Call
  <2>2. Resolved(r, dataset) \in Resolutions
    BY DEF Resolutions
  <2>3. request' \in [Threads -> Resolutions \cup {Idle}] /\ DOMAIN wanted' = Threads
    BY <1>2, <2>1, <2>2 DEF Call
  <2>4. QED
    BY <1>2, <2>3 DEF Call
<1>3. CASE NothingWanted(t) \/ NoCamera(t) \/ Warn(t) \/ Incomplete(t) \/ Answer(t)
  BY <1>3 DEF NothingWanted, NoCamera, Warn, Incomplete, Answer, GiveUp, Return
<1>4. CASE Lookup(t)
  <2>1. \E step \in {"decode", "answer"} : pc' = [pc EXCEPT ![t] = step]
    BY <1>4 DEF Lookup
  <2>2. pc' \in [Threads -> Steps]
    BY <2>1
  <2>3. QED
    BY <1>4, <2>2 DEF Lookup
<1>5. CASE Unresolved(t) \/ Store(t)
  BY <1>5 DEF Unresolved, Store
<1>6. CASE Aim(t)
  BY <1>6 DEF Aim
<1>7. CASE Read(t) \/ ReadShort(t) \/ ReadFails(t)
  BY <1>7 DEF Read, ReadShort, ReadFails
<1>8. QED
  BY <1>2, <1>3, <1>4, <1>5, <1>6, <1>7 DEF Work

LEMMA CallInv ==
  ASSUME IInv, NEW t \in Threads, Call(t)
  PROVE  ThreadInv(t)' /\ cache' \in SoundCaches
<1>1. ShapeInv /\ ThreadInv(t) /\ cache \in SoundCaches
  BY DEF IInv
<1>2. PICK r \in Asks : /\ request' = [request EXCEPT ![t] = Resolved(r, dataset)]
                        /\ wanted' = [wanted EXCEPT ![t] = Wanted(r)]
  BY DEF Call
<1>3. request'[t] = Resolved(r, dataset) /\ wanted'[t] = Wanted(r)
  BY <1>1, <1>2 DEF ShapeInv
<1>4. request'[t] \in Resolutions /\ wanted'[t] = Wanted(request'[t]) /\ request'[t] # Idle
  BY <1>1, <1>3, ResolutionType, RequestAssumption DEF ShapeInv
<1>5. pc[t] = "idle" /\ pc'[t] = "lookup" /\ UNCHANGED << decoded, decoder, cache, dataset >>
  BY <1>1 DEF Call, Goto, ShapeInv
<1>6. RequestInv(t)' /\ OutInv(t)'
  BY <1>4, <1>5 DEF RequestInv, OutInv
<1>7. AimInv(t)' /\ DecodedInv(t)'
  BY <1>1, <1>5 DEF ThreadInv, AimInv, DecodedInv
<1>8. QED
  BY <1>1, <1>5, <1>6, <1>7 DEF ThreadInv

(* A call that returns, whatever its answer.                                *)
LEMMA ReturnInv ==
  ASSUME IInv, NEW t \in Threads,
         NothingWanted(t) \/ NoCamera(t) \/ Warn(t) \/ Incomplete(t) \/ Answer(t)
  PROVE  ThreadInv(t)' /\ cache' \in SoundCaches
<1>1. ShapeInv /\ ThreadInv(t) /\ cache \in SoundCaches
  BY DEF IInv
<1>2. /\ pc[t] # "read" /\ pc'[t] = "idle" /\ request'[t] = Idle /\ decoded'[t] = << >>
      /\ UNCHANGED << decoder, cache, dataset >>
  BY <1>1 DEF NothingWanted, NoCamera, Warn, Incomplete, Answer, GiveUp, Return, Goto,
              ShapeInv, shared
<1>3. RequestInv(t)' /\ OutInv(t)' /\ AimInv(t)'
  BY <1>1, <1>2 DEF ThreadInv, RequestInv, OutInv, AimInv
<1>4. DecodedInv(t)'
  BY <1>2 DEF DecodedInv, Range
<1>5. QED
  BY <1>1, <1>2, <1>3, <1>4 DEF ThreadInv

(* What the cache has for a request is right.                               *)
LEMMA CachedIsRight ==
  ASSUME cache \in SoundCaches, NEW r, NEW ts, Cached(Key(r, ts)) # {}
  PROVE  cache[Min(Cached(Key(r, ts)))].frame = << r.camera, Place(r.episode, ts) >>
<1> DEFINE at == Cached(Key(r, ts))
<1>1. cache \in Seq(SoundEntries)
  BY DEF SoundCaches
<1>2. Min(at) \in at
  <2>1. at \in SUBSET Nat
    BY <1>1 DEF Cached
  <2> HIDE DEF at
  <2>2. at # {}
    BY DEF at
  <2>3. QED
    BY <2>1, <2>2, MinOfNat
<1>3. Min(at) \in DOMAIN cache /\ cache[Min(at)].key = << r.episode, r.camera, ts >>
  BY <1>2 DEF Cached, Key
<1> HIDE DEF at
<1>4. cache[Min(at)] \in SoundEntries
  BY <1>1, <1>3
<1>5. QED
  BY <1>3, <1>4 DEF SoundEntries, at

LEMMA LookupInv ==
  ASSUME IInv, NEW t \in Threads, Lookup(t)
  PROVE  ThreadInv(t)' /\ cache' \in SoundCaches
<1> DEFINE r == request[t]
           o == [i \in DOMAIN wanted[t] |->
                   LET at == Cached(Key(r, wanted[t][i]))
                   IN  IF at = {} THEN None ELSE cache[Min(at)].frame]
<1>1. ShapeInv /\ ThreadInv(t) /\ cache \in SoundCaches
  BY DEF IInv
<1>2. pc[t] = "lookup" /\ UNCHANGED << request, wanted, decoded, decoder, dataset, cache >>
  BY DEF Lookup, shared
<1>3. out'[t] = o
  BY <1>1 DEF Lookup, ShapeInv
<1>4. pc'[t] \in {"decode", "answer"} /\ (pc'[t] = "answer" => None \notin Range(out'[t]))
  BY <1>1 DEF Lookup, Goto, ShapeInv
<1>5. r \in Resolutions /\ wanted[t] = Wanted(r)
  BY <1>1, <1>2 DEF ShapeInv, ThreadInv, RequestInv
<1>6. Partial(r, o)
  <2>1. ASSUME NEW i \in DOMAIN Wanted(r)
        PROVE  o[i] \in {None, FramesOf(r)[i]}
    BY <1>1, <1>5, CachedIsRight, FrameOfPlace
  <2>2. QED
    BY <2>1, <1>5 DEF Partial
<1>7. RequestInv(t)'
  BY <1>1, <1>2, <1>4 DEF ThreadInv, RequestInv
<1>8. OutInv(t)'
  <2> HIDE DEF o
  <2>1. QED
    BY <1>2, <1>3, <1>4, <1>6 DEF OutInv
<1>9. AimInv(t)' /\ DecodedInv(t)'
  BY <1>1, <1>2, <1>4 DEF ThreadInv, AimInv, DecodedInv
<1>10. QED
  BY <1>1, <1>2, <1>7, <1>8, <1>9 DEF ThreadInv

LEMMA UnresolvedInv ==
  ASSUME IInv, NEW t \in Threads, Unresolved(t)
  PROVE  ThreadInv(t)' /\ cache' \in SoundCaches
<1>1. ShapeInv /\ ThreadInv(t) /\ cache \in SoundCaches
  BY DEF IInv
<1>2. /\ pc[t] = "decode" /\ pc'[t] = "warn"
      /\ UNCHANGED << request, wanted, decoded, decoder, dataset, cache >>
  BY <1>1 DEF Unresolved, Goto, ShapeInv, shared
<1>3. QED
  BY <1>1, <1>2 DEF ThreadInv, RequestInv, OutInv, AimInv, DecodedInv

LEMMA AimStepInv ==
  ASSUME IInv, NEW t \in Threads, Aim(t)
  PROVE  ThreadInv(t)' /\ cache' \in SoundCaches
<1>1. ShapeInv /\ ThreadInv(t) /\ cache \in SoundCaches
  BY DEF IInv
<1>2. /\ pc[t] = "decode" /\ pc'[t] = "read" /\ decoder' = t /\ HasVideo(request[t])
      /\ UNCHANGED << request, wanted, out, decoded, dataset, cache >>
  BY <1>1 DEF Aim, Goto, ShapeInv, shared
<1>3. wanted[t] = Wanted(request[t])
  BY <1>1, <1>2 DEF ThreadInv, RequestInv
<1>4. aim' = PlacesOf(request[t], out[t])
  BY <1>3 DEF Aim, PlacesOf, Misses, MissesOf, Gaps
<1>5. RequestInv(t)' /\ OutInv(t)' /\ DecodedInv(t)'
  BY <1>1, <1>2 DEF ThreadInv, RequestInv, OutInv, DecodedInv
<1>6. AimInv(t)'
  BY <1>2, <1>4 DEF AimInv, HasVideo
<1>7. QED
  BY <1>1, <1>2, <1>5, <1>6 DEF ThreadInv

LEMMA ReadInv ==
  ASSUME IInv, NEW t \in Threads, Read(t) \/ ReadShort(t)
  PROVE  ThreadInv(t)' /\ cache' \in SoundCaches
<1> DEFINE r == request[t]  o == out[t]  C == Range(dataset.video)
<1>1. ShapeInv /\ ThreadInv(t) /\ cache \in SoundCaches
  BY DEF IInv
<1>2. /\ pc[t] = "read" /\ pc'[t] = "store" /\ decoder = t /\ decoder' = Idle /\ Idle # t
      /\ UNCHANGED << request, wanted, out, dataset, cache >>
  BY <1>1, RequestAssumption DEF Read, ReadShort, Goto, ShapeInv, shared, ThreadInv, AimInv
<1>3. r \in Resolutions /\ Partial(r, o) /\ HasVideo(r) /\ aim = PlacesOf(r, o)
  BY <1>1, <1>2, RequestAssumption DEF ShapeInv, ThreadInv, RequestInv, OutInv, AimInv
<1>4. aim \in Seq(C \X Int) /\ Len(aim) = Len(MissesOf(o))
  <2>1. r.camera \in C
    BY <1>3 DEF HasVideo
  <2>2. QED
    BY <1>3, <2>1, PlacesAreFrames
<1>5. /\ decoded'[t] \in Seq(C \X Int)
      /\ Len(decoded'[t]) = Len(MissesOf(o)) => decoded'[t] = PlacesOf(r, o)
  <2>1. CASE Read(t)
    <3>1. decoded' = [decoded EXCEPT ![t] = aim]
      BY <2>1 DEF Read
    <3>2. decoded'[t] = aim
      BY <3>1, <1>1 DEF ShapeInv
    <3>3. QED
      BY <3>2, <1>3, <1>4
  <2>2. CASE ReadShort(t)
    <3>0. aim # << >> /\ decoded' = [decoded EXCEPT ![t] = SubSeq(aim, 1, Len(aim) - 1)]
      BY <2>2 DEF ReadShort, Front
    <3>1. Len(aim) \in Nat \ {0} /\ \A i \in 1 .. Len(aim) - 1 : aim[i] \in C \X Int
      BY <3>0, <1>4
    <3>2. /\ SubSeq(aim, 1, Len(aim) - 1) \in Seq(C \X Int)
          /\ Len(SubSeq(aim, 1, Len(aim) - 1)) = Len(aim) - 1
      <4> DEFINE n == Len(aim) - 1
      <4>1. n \in Int /\ 1 \in Int /\ n + 1 \in Nat \ {0}
        BY <3>1
      <4> HIDE DEF n
      <4>2. \A i \in 1 .. n : aim[i] \in C \X Int
        BY <3>1 DEF n
      <4>3. /\ SubSeq(aim, 1, n) \in Seq(C \X Int)
            /\ Len(SubSeq(aim, 1, n)) = IF 1 <= n THEN n - 1 + 1 ELSE 0
        BY <4>1, <4>2, SubSeqProperties
      <4>4. Len(SubSeq(aim, 1, n)) = n
        BY <4>1, <4>3
      <4>5. QED
        BY <4>3, <4>4 DEF n
    <3>3. decoded'[t] = SubSeq(aim, 1, Len(aim) - 1)
      BY <3>0, <1>1 DEF ShapeInv
    <3>4. Len(decoded'[t]) # Len(MissesOf(o))
      BY <3>1, <3>2, <3>3, <1>4
    <3>5. QED
      BY <3>2, <3>3, <3>4
  <2>3. QED
    BY <2>1, <2>2
<1>6. DecodedInv(t)'
  <2>1. Range(decoded'[t]) \subseteq C \X Int
    BY <1>5 DEF Range
  <2>2. QED
    BY <1>2, <1>5, <2>1 DEF DecodedInv
<1>7. RequestInv(t)' /\ OutInv(t)' /\ AimInv(t)'
  BY <1>1, <1>2, <1>3 DEF ThreadInv, RequestInv, OutInv, AimInv, HasVideo
<1>8. QED
  BY <1>1, <1>2, <1>6, <1>7 DEF ThreadInv

LEMMA ReadFailsInv ==
  ASSUME IInv, NEW t \in Threads, ReadFails(t)
  PROVE  ThreadInv(t)' /\ cache' \in SoundCaches
<1>1. ShapeInv /\ ThreadInv(t) /\ cache \in SoundCaches
  BY DEF IInv
<1>2. /\ pc[t] = "read" /\ pc'[t] = "warn" /\ decoder' = Idle /\ Idle # t
      /\ UNCHANGED << request, wanted, decoded, dataset, cache >>
  BY <1>1, RequestAssumption DEF ReadFails, Goto, ShapeInv
<1>3. QED
  BY <1>1, <1>2 DEF ThreadInv, RequestInv, OutInv, AimInv, DecodedInv

LEMMA EntryIsSound ==
  ASSUME NEW e \in DOMAIN Times, NEW c \in Videos, NEW ts \in Int
  PROVE  [key |-> << e, c, ts >>, frame |-> << c, Place(e, ts) >>] \in SoundEntries
<1> DEFINE k == << e, c, ts >>
           f == << c, Place(e, ts) >>
           x == [key |-> k, frame |-> f]
<1>1. k \in Keys /\ k[1] = e /\ k[2] = c /\ k[3] = ts
  <2>1. k \in Keys
    BY DEF Keys
  <2>2. k[1] = e
    OBVIOUS
  <2>3. k[2] = c
    OBVIOUS
  <2>4. k[3] = ts
    OBVIOUS
  <2>5. QED
    BY <2>1, <2>2, <2>3, <2>4
<1>2. f \in Videos \X Int
  BY PlaceIsInt
<1>3. f = << k[2], Place(k[1], k[3]) >>
  BY <1>1
<1> HIDE DEF k, f
<1>4. x.key = k /\ x.frame = f
  BY Zenon
<1>5. x \in [key : Keys, frame : Videos \X Int]
  BY <1>1, <1>2
<1>6. x \in SoundEntries
  BY <1>3, <1>4, <1>5 DEF SoundEntries
<1>7. QED
  BY <1>6 DEF k, f

(* What a thread stores and answers after it has read all it wanted.        *)
LEMMA StoreInv ==
  ASSUME IInv, NEW t \in Threads, Store(t)
  PROVE  ThreadInv(t)' /\ cache' \in SoundCaches
<1> DEFINE r == request[t]  o == out[t]  m == MissesOf(o)  C == Range(dataset.video)
<1>1. ShapeInv /\ ThreadInv(t) /\ cache \in SoundCaches
  BY DEF IInv
<1>2. /\ pc[t] = "store" /\ pc'[t] = "answer"
      /\ UNCHANGED << request, wanted, decoded, decoder, dataset >>
      /\ Misses(t) = m /\ Len(decoded[t]) = Len(m)
  BY <1>1 DEF Store, Goto, ShapeInv, Misses, MissesOf, Gaps
<1>3. /\ r \in Resolutions /\ Partial(r, o) /\ r.camera \in C /\ wanted[t] = Wanted(r)
      /\ decoded[t] = PlacesOf(r, o)
  BY <1>1, <1>2, RequestAssumption
     DEF ShapeInv, ThreadInv, RequestInv, OutInv, AimInv, DecodedInv, HasVideo
<1>4. /\ decoded[t] \in Seq(C \X Int) /\ Len(m) \in Nat /\ DOMAIN m = 1 .. Len(m)
      /\ DOMAIN decoded[t] = 1 .. Len(m)
      /\ \A j \in 1 .. Len(m) : decoded[t][j] = FramesOf(r)[m[j]]
  <2>1. Len(m) \in Nat /\ DOMAIN m = 1 .. Len(m)
    BY <1>3, MissesAreGaps
  <2>2. /\ PlacesOf(r, o) \in Seq(C \X Int) /\ Len(PlacesOf(r, o)) = Len(m)
        /\ \A j \in DOMAIN m : PlacesOf(r, o)[j] = FramesOf(r)[m[j]]
    BY <1>3, PlacesAreFrames
  <2> HIDE DEF m, C
  <2>3. DOMAIN PlacesOf(r, o) = 1 .. Len(m)
    BY <2>2
  <2>4. QED
    BY <1>3, <2>1, <2>2, <2>3
<1>5. /\ \A j \in 1 .. Len(m) : m[j] \in DOMAIN Wanted(r)
      /\ \A i \in DOMAIN o : o[i] = None => \E j \in 1 .. Len(m) : m[j] = i
  <2>1. (\A j \in 1 .. Len(m) : m[j] \in DOMAIN Wanted(r)) /\ Range(m) = Gaps(o)
    BY <1>3, MissesAreGaps
  <2> HIDE DEF m
  <2>2. QED
    BY <2>1, <1>4 DEF Range, Gaps
<1> DEFINE entries == [j \in DOMAIN decoded[t] |->
                         [key |-> Key(r, wanted[t][m[j]]), frame |-> decoded[t][j]]]
           filled == [i \in DOMAIN o |->
                        IF o[i] # None THEN o[i]
                        ELSE decoded[t][CHOOSE j \in DOMAIN m : m[j] = i]]
<1>6. cache' = FoldLeft(Insert, cache, entries) /\ out'[t] = filled
  BY <1>1, <1>2 DEF Store, ShapeInv
<1> HIDE DEF m
<1>7. entries \in Seq(SoundEntries)
  <2>1. ASSUME NEW j \in 1 .. Len(m) PROVE entries[j] \in SoundEntries
    <3> DEFINE ts == Wanted(r)[m[j]]
    <3>1. r.episode \in DOMAIN Times /\ ts \in Int /\ Place(r.episode, ts) \in Int
      BY <1>3, <1>5, WantedAreTimes, FrameOfPlace
    <3>2. decoded[t][j] = << r.camera, Place(r.episode, ts) >>
      BY <1>3, <1>4, <1>5, FrameOfPlace
    <3>3. r.camera \in Videos
      BY <1>1, <1>3 DEF Videos, ShapeInv
    <3>4. entries[j] = [key |-> << r.episode, r.camera, ts >>,
                        frame |-> << r.camera, Place(r.episode, ts) >>]
      BY <1>3, <1>4, <3>2 DEF Key
    <3> HIDE DEF ts, entries
    <3>5. QED
      BY <3>1, <3>3, <3>4, EntryIsSound
  <2>2. entries = [j \in 1 .. Len(m) |-> entries[j]]
    BY <1>4
  <2> HIDE DEF entries
  <2>3. QED
    BY <2>1, <2>2, <1>4
<1>8. cache' \in SoundCaches
  BY <1>1, <1>6, <1>7, StoringKeeps
<1>9. \A i \in DOMAIN o : filled[i] = FramesOf(r)[i] /\ filled[i] # None
  <2>1. TAKE i \in DOMAIN o
  <2>2. i \in DOMAIN Wanted(r) /\ o[i] \in {None, FramesOf(r)[i]}
    BY <1>3 DEF Partial
  <2>3. FramesOf(r)[i] # None
    <3> DEFINE p == Place(r.episode, Wanted(r)[i])
    <3>1. FramesOf(r)[i] = << r.camera, p >> /\ p \in Int
      BY <1>3, <2>2, FrameOfPlace
    <3> HIDE DEF p
    <3>2. FramesOf(r)[i] \in C \X Int
      BY <3>1, <1>3
    <3>3. None \notin C \X Int
      BY <1>1, RequestAssumption DEF ShapeInv
    <3>4. QED
      BY <3>2, <3>3
  <2>4. CASE o[i] # None
    BY <2>2, <2>3, <2>4
  <2>5. CASE o[i] = None
    <3> DEFINE k == CHOOSE j \in DOMAIN m : m[j] = i
    <3>1. k \in 1 .. Len(m) /\ m[k] = i
      BY <2>5, <1>4, <1>5
    <3>2. filled[i] = decoded[t][k]
      BY <2>5
    <3> HIDE DEF k, filled
    <3>3. QED
      BY <3>1, <3>2, <1>4, <2>3
  <2>6. QED
    BY <2>4, <2>5
<1>10. OutInv(t)'
  <2>1. DOMAIN filled = DOMAIN o /\ filled = [i \in DOMAIN o |-> filled[i]]
    OBVIOUS
  <2> HIDE DEF filled
  <2>2. Partial(r, filled)
    <3>1. DOMAIN o = DOMAIN Wanted(r)
      BY <1>3 DEF Partial
    <3>2. QED
      BY <2>1, <3>1, <1>9 DEF Partial
  <2>3. None \notin Range(filled)
    BY <2>1, <1>9 DEF Range
  <2>4. QED
    BY <1>2, <1>6, <2>2, <2>3 DEF OutInv
<1>11. RequestInv(t)' /\ AimInv(t)' /\ DecodedInv(t)'
  BY <1>1, <1>2 DEF ThreadInv, RequestInv, AimInv, DecodedInv
<1>12. QED
  BY <1>8, <1>10, <1>11 DEF ThreadInv

-----------------------------------------------------------------------------
LEMMA NextInv == IInv /\ [Next]_vars => IInv'
<1> SUFFICES ASSUME IInv, [Next]_vars PROVE IInv'
  OBVIOUS
<1>1. CASE UNCHANGED vars
  <2>1. ShapeInv'
    BY <1>1 DEF IInv, ShapeInv, vars
  <2>2. ASSUME NEW t \in Threads PROVE ThreadInv(t)'
    BY <1>1, <2>2
       DEF IInv, ThreadInv, RequestInv, OutInv, AimInv, DecodedInv, HasVideo, vars
  <2>3. QED
    BY <1>1, <2>1, <2>2 DEF IInv, vars
<1>2. CASE Next
  <2>1. PICK t \in Threads : Call(t) \/ Work(t)
    BY <1>2 DEF Next
  <2>2. ThreadInv(t)' /\ cache' \in SoundCaches
    BY <2>1, CallInv, ReturnInv, LookupInv, UnresolvedInv, AimStepInv, ReadInv,
       ReadFailsInv, StoreInv DEF Work
  <2>3. ShapeInv'
    BY <2>1, ShapeStep
  <2>4. \A u \in Threads : ThreadInv(u)'
    BY <2>1, <2>2, OthersKept
  <2>5. QED
    BY <2>2, <2>3, <2>4 DEF IInv
<1>3. QED
  BY <1>1, <1>2

THEOREM Invariance == Spec => []IInv
BY InitInv, NextInv, PTL DEF Spec

(* However threads interleave, the cache of frames.py never holds more than *)
(* its size, no key twice, and under each key the frame of that camera,     *)
(* episode and timestamp.                                                   *)
THEOREM CacheAlwaysSound == Spec => []CacheSound
<1>1. IInv => CacheSound
  <2> SUFFICES ASSUME IInv PROVE CacheSound
    OBVIOUS
  <2>1. ShapeInv /\ (\A t \in Threads : ThreadInv(t)) /\ cache \in SoundCaches
    BY DEF IInv
  <2>2. TypeOK
    BY <2>1 DEF TypeOK, ShapeInv, Steps, ThreadInv, RequestInv, AimInv, DecodedInv
  <2>3. Len(cache) <= CacheSize /\ Unique(cache) /\ cache \in Seq(SoundEntries)
    BY <2>1 DEF SoundCaches
  <2>4. \A i \in DOMAIN cache : cache[i] \in SoundEntries
    BY <2>3
  <2>5. QED
    BY <2>2, <2>3, <2>4 DEF CacheSound, Unique, SoundEntries
<1>2. QED
  BY <1>1, Invariance, PTL

-----------------------------------------------------------------------------
(* The refinement. *)

LEMMA AnswerIsComplete ==
  ASSUME IInv, NEW t \in Threads, pc[t] = "answer"
  PROVE  out[t] = FramesOf(request[t])
<1>1. Partial(request[t], out[t]) /\ None \notin Range(out[t]) /\ request[t] \in Resolutions
  BY RequestAssumption DEF IInv, ShapeInv, ThreadInv, RequestInv, OutInv
<1>2. \A i \in DOMAIN out[t] : out[t][i] # None
  BY <1>1 DEF Range
<1>3. \A i \in DOMAIN out[t] : out[t][i] = FramesOf(request[t])[i]
  BY <1>1, <1>2 DEF Partial
<1>4. out[t] = [i \in DOMAIN Wanted(request[t]) |-> out[t][i]]
  BY <1>1 DEF Partial
<1>5. FramesOf(request[t]) = [i \in DOMAIN Wanted(request[t]) |-> FramesOf(request[t])[i]]
  BY DEF FramesOf
<1>6. \A i \in DOMAIN Wanted(request[t]) : out[t][i] = FramesOf(request[t])[i]
  BY <1>3, <1>4
<1>7. QED
  BY <1>4, <1>5, <1>6

LEMMA InitRefines == Init => Source!Init
BY DEF Init, Source!Init

LEMMA ReturnRefines ==
  ASSUME IInv, NEW t \in Threads, pc[t] # "idle",
         \/ Return(t, FramesOf(request[t]))
         \/ GiveUp(t)
  PROVE  Source!Next
<1>1. request[t] # Idle
  BY DEF IInv, ThreadInv, RequestInv
<1>2. Source!Answer(t)
  BY <1>1 DEF Source!Answer, Return, GiveUp
<1>3. QED
  BY <1>2 DEF Source!Next

LEMMA StepRefines ==
  ASSUME IInv, [Next]_vars
  PROVE  [Source!Next]_(Source!vars)
<1>1. CASE UNCHANGED vars
  BY <1>1 DEF vars, Source!vars
<1>2. ASSUME NEW t \in Threads, Call(t)
      PROVE  Source!Next
  <2>1. request[t] = Idle
    BY <1>2 DEF IInv, ThreadInv, RequestInv, Call
  <2>2. dataset \in Datasets
    BY DEF IInv, ShapeInv
  <2>3. PICK r \in Asks : request' = [request EXCEPT ![t] = Resolved(r, dataset)]
    BY <1>2 DEF Call
  <2>4. \E q \in Resolutions : request' = [request EXCEPT ![t] = q]
    <3>1. Resolved(r, dataset) \in Resolutions
      BY <2>2 DEF Resolutions
    <3>2. QED
      BY <2>3, <3>1
  <2>5. Source!Ask(t)
    BY <1>2, <2>1, <2>4 DEF Source!Ask, Call
  <2>6. QED
    BY <2>5 DEF Source!Next
<1>3. ASSUME NEW t \in Threads, NothingWanted(t)
      PROVE  Source!Next
  <2>1. pc[t] = "lookup" /\ wanted[t] = << >> /\ Return(t, << >>)
    BY <1>3 DEF NothingWanted
  <2>2. wanted[t] = Wanted(request[t])
    BY <2>1 DEF IInv, ThreadInv, RequestInv
  <2>3. FramesOf(request[t]) = << >>
    BY <2>1, <2>2 DEF FramesOf
  <2>4. QED
    BY <2>1, <2>3, ReturnRefines
<1>4. ASSUME NEW t \in Threads, NoCamera(t) \/ Warn(t) \/ Incomplete(t)
      PROVE  Source!Next
  <2>1. pc[t] # "idle" /\ GiveUp(t)
    BY <1>4 DEF NoCamera, Warn, Incomplete
  <2>2. QED
    BY <2>1, ReturnRefines
<1>5. ASSUME NEW t \in Threads, Answer(t)
      PROVE  Source!Next
  <2>1. pc[t] = "answer" /\ Return(t, out[t])
    BY <1>5 DEF Answer
  <2>2. QED
    BY <2>1, AnswerIsComplete, ReturnRefines
<1>6. ASSUME NEW t \in Threads,
             \/ Lookup(t) \/ Unresolved(t) \/ Aim(t) \/ Read(t) \/ ReadShort(t)
             \/ ReadFails(t) \/ Store(t)
      PROVE  UNCHANGED Source!vars
  BY <1>6 DEF Lookup, Unresolved, Aim, Read, ReadShort, ReadFails, Store, Source!vars
<1>7. QED
  BY <1>1, <1>2, <1>3, <1>4, <1>5, <1>6 DEF Next, Work

(* The provider of frames.py answers each thread with all the frames of its *)
(* request, in order, or with none, or an exception if the caller insists,  *)
(* for any number of threads and any size of the cache.                     *)
THEOREM SourceRefined == Spec => Implements
BY InitRefines, StepRefines, Invariance, PTL DEF Spec, Implements
=============================================================================
