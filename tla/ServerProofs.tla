---------------------------- MODULE ServerProofs ----------------------------
(***************************************************************************)
(* The search server for any number of requests at once, queries, pages    *)
(* and updates: requests see one version of the index; as long as no       *)
(* update fails, what the cache holds and what users get is out of date by *)
(* one or two updates at most; and without updates, answers are exact.     *)
(***************************************************************************)
EXTENDS SearchServer, TLAPS, FiniteSetTheorems

-----------------------------------------------------------------------------
(* The shape of the state.  The parts are operators of the values they     *)
(* relate.                                                                 *)

\* Functions from some elements of A to B.
Maps(A, B) == UNION {[D -> B] : D \in SUBSET A}

Results == [kind : {"hit", "miss", "not exist"}, index : Nat, version : Nat]

Requests ==
  [pc : Done \cup Reading \cup {"waiting"}, query : Queries, page : Nat, size : Nat,
   guard : Nat, results : Maps(Nat, Results)]

Entries ==
  [query : Queries, raw : [version : Nat, count : Nat], converted : Maps(Nat, Nat)]

Tasks == Handlers \cup {Reindexer}

\* Versions only grow.
VersionsWell(s, h) ==
  /\ s \in Seq(Nat) /\ s # <<>>
  /\ \A i \in DOMAIN s : i <= s[i] /\ s[i] <= h
  /\ \A i, j \in DOMAIN s : i < j => s[i] < s[j]

LockWell(l, hs, w) ==
  /\ l \in Seq(Tasks) /\ IsInjective(l)
  /\ \A r \in Handlers : hs[r].pc = "waiting" <=> r \in Range(l)
  /\ w \in {"receiving", "locking", "evicting", "reporting"}
  /\ w = "locking" <=> Reindexer \in Range(l)

CacheWell(c) ==
  /\ c \in Seq(Entries) /\ Len(c) <= CacheSize
  /\ \A i, j \in DOMAIN c : i # j => c[i].query # c[j].query

\* A request sees one version, and its results are those of its page.
HandlerWell(h, v) ==
  /\ h \in Requests
  /\ h.guard <= v
  /\ h.pc \in Reading => h.guard = v
  /\ h.pc = "converting" => \A k \in DOMAIN h.results : h.results[k].index = Index(h, k)

Shape ==
  /\ head \in 1..MaxVersion /\ VersionsWell(versions, head)
  /\ LockWell(lock, handlers, worker)
  /\ CacheWell(cache)
  /\ handlers \in [Handlers -> Requests]
  /\ \A r \in Handlers : HandlerWell(handlers[r], version)

-----------------------------------------------------------------------------
(* Sequences.                                                              *)

LEMMA MapsElement ==
  ASSUME NEW A, NEW B, NEW f
  PROVE  f \in Maps(A, B) <=> DOMAIN f \subseteq A /\ f \in [DOMAIN f -> B]
BY DEF Maps

LEMMA AppendFacts ==
  ASSUME NEW S, NEW s \in Seq(S), NEW x \in S
  PROVE  /\ Append(s, x) \in Seq(S) /\ Len(Append(s, x)) = Len(s) + 1
         /\ DOMAIN s = 1..Len(s) /\ Len(s) \in Nat
         /\ DOMAIN Append(s, x) = 1..(Len(s) + 1)
         /\ Append(s, x)[Len(s) + 1] = x
         /\ \A i \in 1..Len(s) : Append(s, x)[i] = s[i]
         /\ Append(s, x) # <<>>
OBVIOUS

LEMMA TailFacts ==
  ASSUME NEW S, NEW s \in Seq(S), s # <<>>
  PROVE  /\ Tail(s) \in Seq(S) /\ Len(Tail(s)) = Len(s) - 1
         /\ DOMAIN s = 1..Len(s) /\ Len(s) \in Nat /\ 1 \in DOMAIN s
         /\ DOMAIN Tail(s) = 1..(Len(s) - 1)
         /\ \A i \in 1..(Len(s) - 1) : Tail(s)[i] = s[i + 1]
         /\ Head(s) = s[1] /\ Head(s) \in S
OBVIOUS

LEMMA LastFacts ==
  ASSUME NEW S, NEW s \in Seq(S), s # <<>>
  PROVE  /\ DOMAIN s = 1..Len(s) /\ Len(s) \in Nat /\ Len(s) \in DOMAIN s
         /\ Last(s) = s[Len(s)] /\ Last(s) \in S
BY DEF Last

\* A task that is not in the queue joins it.
LEMMA Joins ==
  ASSUME NEW l \in Seq(Tasks), IsInjective(l), NEW x \in Tasks, x \notin Range(l)
  PROVE  /\ Append(l, x) \in Seq(Tasks) /\ IsInjective(Append(l, x))
         /\ Range(Append(l, x)) = Range(l) \cup {x}
<1>1. /\ Append(l, x) \in Seq(Tasks)
      /\ DOMAIN l = 1..Len(l) /\ Len(l) \in Nat
      /\ DOMAIN Append(l, x) = 1..(Len(l) + 1)
      /\ Append(l, x)[Len(l) + 1] = x
      /\ \A i \in 1..Len(l) : Append(l, x)[i] = l[i]
  BY AppendFacts
<1>2. \A i \in DOMAIN l : l[i] # x
  BY DEF Range
<1> DEFINE m == Append(l, x)
<1> HIDE DEF m
<1>3. \A i \in DOMAIN m : i \in DOMAIN l \/ i = Len(l) + 1
  BY <1>1 DEF m
<1>4. IsInjective(m)
  BY <1>1, <1>2, <1>3 DEF IsInjective, m
<1>5. Range(m) = Range(l) \cup {x}
  <2>1. \A y \in Range(m) : y \in Range(l) \cup {x}
    BY <1>1, <1>3 DEF Range, m
  <2>2. \A y \in Range(l) : y \in Range(m)
    BY <1>1 DEF Range, m
  <2>3. Len(l) + 1 \in DOMAIN m /\ m[Len(l) + 1] = x
    BY <1>1 DEF m
  <2>4. x \in Range(m)
    BY <2>3 DEF Range
  <2> QED BY <2>1, <2>2, <2>4
<1> QED BY <1>1, <1>4, <1>5 DEF m

\* The first task leaves the queue.
LEMMA Leaves ==
  ASSUME NEW l \in Seq(Tasks), l # <<>>, IsInjective(l)
  PROVE  /\ Tail(l) \in Seq(Tasks) /\ IsInjective(Tail(l))
         /\ Head(l) \in Range(l) /\ Head(l) \notin Range(Tail(l))
         /\ \A x : x # Head(l) => (x \in Range(Tail(l)) <=> x \in Range(l))
<1>1. /\ Tail(l) \in Seq(Tasks)
      /\ DOMAIN l = 1..Len(l) /\ Len(l) \in Nat /\ 1 \in DOMAIN l
      /\ DOMAIN Tail(l) = 1..(Len(l) - 1)
      /\ \A i \in 1..(Len(l) - 1) : Tail(l)[i] = l[i + 1]
      /\ Head(l) = l[1]
  BY TailFacts
<1> DEFINE m == Tail(l)
<1> HIDE DEF m
<1>2. \A i \in DOMAIN m : i \in Nat /\ i + 1 \in DOMAIN l /\ i + 1 # 1 /\ m[i] = l[i + 1]
  BY <1>1 DEF m
<1>3. IsInjective(m)
  <2> SUFFICES ASSUME NEW i \in DOMAIN m, NEW j \in DOMAIN m, m[i] = m[j] PROVE i = j
    BY DEF IsInjective
  <2>1. l[i + 1] = l[j + 1]
    BY <1>2
  <2>2. i + 1 = j + 1
    BY <1>2, <2>1 DEF IsInjective
  <2> QED BY <1>2, <2>2
<1>4. Head(l) \notin Range(m)
  <2> SUFFICES ASSUME NEW i \in DOMAIN m, m[i] = l[1] PROVE FALSE
    BY <1>1 DEF Range
  <2> QED BY <1>1, <1>2 DEF IsInjective
<1>5. ASSUME NEW x, x # Head(l) PROVE x \in Range(m) <=> x \in Range(l)
  <2>1. ASSUME NEW i \in DOMAIN l, l[i] = x PROVE x \in Range(m)
    <3>1. i - 1 \in DOMAIN m
      BY <1>1, <1>5, <2>1 DEF m
    <3>2. m[i - 1] = x
      BY <1>1, <1>2, <2>1, <3>1
    <3> QED BY <3>1, <3>2 DEF Range
  <2> QED BY <1>2, <2>1 DEF Range
<1> QED BY <1>1, <1>3, <1>4, <1>5 DEF m, Range

-----------------------------------------------------------------------------
(* Versions.                                                               *)

\* The versions after v up to w.
Since(s, v, w) == {u \in Range(s) : v < u /\ u <= w}

AtMost(n, s, v, w) == Cardinality(Since(s, v, w)) <= n

LEMMA VersionsAreFinite ==
  ASSUME NEW s, NEW h \in Nat, VersionsWell(s, h), NEW v, NEW w
  PROVE  IsFiniteSet(Since(s, v, w)) /\ Cardinality(Since(s, v, w)) \in Nat
<1>1. \A u \in Since(s, v, w) : u \in Nat /\ u <= h
  BY DEF VersionsWell, Since, Range
<1>2. Since(s, v, w) \in SUBSET (0..h)
  BY <1>1
<1>3. IsFiniteSet(0..h)
  BY FS_Interval
<1> QED BY <1>2, <1>3, FS_Subset, FS_CardinalityType

\* Nothing is newer than the last version.
LEMMA LastIsNewest ==
  ASSUME NEW s, NEW h \in Nat, VersionsWell(s, h)
  PROVE  /\ Last(s) \in Nat /\ Last(s) \in Range(s) /\ 1 <= Last(s) /\ Last(s) <= h
         /\ \A u \in Range(s) : u \in Nat /\ u <= Last(s)
         /\ Len(s) <= h
<1>1. /\ DOMAIN s = 1..Len(s) /\ Len(s) \in Nat /\ Len(s) \in DOMAIN s
      /\ Last(s) = s[Len(s)] /\ Last(s) \in Nat
  BY LastFacts DEF VersionsWell
<1>2. \A i \in DOMAIN s : s[i] \in Nat /\ s[i] <= Last(s)
  <2> SUFFICES ASSUME NEW i \in DOMAIN s PROVE s[i] \in Nat /\ s[i] <= Last(s)
    OBVIOUS
  <2>1. s[i] \in Nat
    BY <1>1 DEF VersionsWell
  <2>2. i < Len(s) \/ i = Len(s)
    BY <1>1
  <2> QED BY <1>1, <2>1, <2>2 DEF VersionsWell
<1>3. Len(s) <= Last(s) /\ Last(s) <= h
  BY <1>1 DEF VersionsWell
<1>4. Len(s) # 0
  BY <1>1
<1> QED BY <1>1, <1>2, <1>3, <1>4 DEF Range

\* An update puts one version more after those that were there.
LEMMA Updated ==
  ASSUME NEW s, NEW h \in Nat, VersionsWell(s, h), NEW v \in Nat, Last(s) < v, v <= h
  PROVE  /\ VersionsWell(Append(s, v), h) /\ Last(Append(s, v)) = v
         /\ \A x \in Nat : \A n \in Nat :
              AtMost(n, s, x, Last(s)) => AtMost(n + 1, Append(s, v), x, v)
         /\ \A x \in Nat : \A w \in Nat : \A n \in Nat :
              w <= Last(s) => (AtMost(n, s, x, w) => AtMost(n, Append(s, v), x, w))
<1> DEFINE t == Append(s, v)
<1>1. /\ t \in Seq(Nat) /\ Len(t) = Len(s) + 1 /\ t # <<>>
      /\ DOMAIN s = 1..Len(s) /\ Len(s) \in Nat
      /\ DOMAIN t = 1..(Len(s) + 1)
      /\ t[Len(s) + 1] = v
      /\ \A i \in 1..Len(s) : t[i] = s[i]
  BY AppendFacts DEF VersionsWell
<1>2. /\ Last(s) \in Nat /\ Last(s) = s[Len(s)] /\ Len(s) \in DOMAIN s /\ Len(s) <= Last(s)
      /\ \A i \in DOMAIN s : s[i] \in Nat /\ s[i] <= Last(s)
  <2>1. /\ Last(s) \in Nat /\ \A u \in Range(s) : u \in Nat /\ u <= Last(s)
    BY LastIsNewest
  <2>2. Last(s) = s[Len(s)] /\ Len(s) \in DOMAIN s
    BY LastFacts DEF VersionsWell
  <2> QED BY <2>1, <2>2 DEF VersionsWell, Range
<1> HIDE DEF t
<1>3. Last(t) = v
  BY <1>1 DEF Last
<1>4. \A i \in DOMAIN t : i <= t[i] /\ t[i] <= h
  <2>1. ASSUME NEW i \in DOMAIN s PROVE i <= t[i] /\ t[i] <= h
    BY <1>1 DEF VersionsWell
  <2>2. Len(s) + 1 <= v
    BY <1>1, <1>2
  <2> QED BY <1>1, <2>1, <2>2
<1>5. ASSUME NEW i \in DOMAIN t, NEW j \in DOMAIN t, i < j PROVE t[i] < t[j]
  <2>1. i \in DOMAIN s
    BY <1>1, <1>5
  <2>2. CASE j \in DOMAIN s
    BY <1>1, <1>5, <2>1, <2>2 DEF VersionsWell
  <2>3. CASE j = Len(s) + 1
    BY <1>1, <1>2, <2>1, <2>3
  <2> QED BY <1>1, <2>2, <2>3
<1>6. VersionsWell(t, h)
  BY <1>1, <1>4, <1>5 DEF VersionsWell
<1>7. \A u \in Range(t) : u \in Range(s) \/ u = v
  BY <1>1 DEF Range
<1>8. \A u \in Range(s) : u \in Nat /\ u <= Last(s)
  BY <1>2 DEF Range
<1>9. ASSUME NEW x \in Nat, NEW n \in Nat, AtMost(n, s, x, Last(s)) PROVE AtMost(n + 1, t, x, v)
  <2>1. IsFiniteSet(Since(s, x, Last(s))) /\ Cardinality(Since(s, x, Last(s))) \in Nat
    BY VersionsAreFinite
  <2>2. /\ IsFiniteSet(Since(s, x, Last(s)) \cup {v})
        /\ Cardinality(Since(s, x, Last(s)) \cup {v}) <= Cardinality(Since(s, x, Last(s))) + 1
    BY <2>1, FS_AddElement
  <2>3. Since(t, x, v) \in SUBSET (Since(s, x, Last(s)) \cup {v})
    BY <1>7, <1>8 DEF Since
  <2>4. Cardinality(Since(t, x, v)) <= Cardinality(Since(s, x, Last(s)) \cup {v})
    BY <2>2, <2>3, FS_Subset
  <2>5. /\ Cardinality(Since(t, x, v)) \in Nat
        /\ Cardinality(Since(s, x, Last(s)) \cup {v}) \in Nat
    BY <1>6, <2>2, VersionsAreFinite, FS_CardinalityType
  <2> QED BY <1>9, <2>1, <2>2, <2>4, <2>5 DEF AtMost
<1>10. ASSUME NEW x \in Nat, NEW w \in Nat, NEW n \in Nat, w <= Last(s), AtMost(n, s, x, w)
       PROVE  AtMost(n, t, x, w)
  <2>1. Since(t, x, w) = Since(s, x, w)
    <3>1. v \notin Since(t, x, w)
      BY <1>2, <1>10 DEF Since
    <3>2. \A u \in Range(s) : u \in Range(t)
      BY <1>1 DEF Range
    <3> QED BY <1>7, <3>1, <3>2 DEF Since
  <2> QED BY <1>10, <2>1 DEF AtMost
<1> QED BY <1>3, <1>6, <1>9, <1>10 DEF t

-----------------------------------------------------------------------------
(* The cache.                                                              *)

LEMMA ConcatFacts ==
  ASSUME NEW S, NEW s \in Seq(S), NEW u \in Seq(S)
  PROVE  /\ s \o u \in Seq(S) /\ Len(s \o u) = Len(s) + Len(u)
         /\ \A j \in 1..(Len(s) + Len(u)) : (s \o u)[j] = IF j <= Len(s) THEN s[j] ELSE u[j - Len(s)]
OBVIOUS

LEMMA FrontFacts ==
  ASSUME NEW S, NEW s \in Seq(S), s # <<>>
  PROVE  /\ Front(s) \in Seq(S) /\ Len(Front(s)) = Len(s) - 1
         /\ DOMAIN Front(s) = 1..(Len(s) - 1)
         /\ \A j \in 1..(Len(s) - 1) : Front(s)[j] = s[j]
<1>1. Len(s) \in Nat /\ Len(s) # 0
  OBVIOUS
<1>2. PICK n \in Nat : n + 1 = Len(s)
  BY <1>1
<1>3. Len(s) - 1 = n /\ Front(s) = SubSeq(s, 1, n)
  BY <1>1, <1>2 DEF Front
<1>4. /\ SubSeq(s, 1, n) \in Seq(S) /\ Len(SubSeq(s, 1, n)) = n
      /\ DOMAIN SubSeq(s, 1, n) = 1..n
      /\ \A j \in 1..n : SubSeq(s, 1, n)[j] = s[j]
  BY <1>1, <1>2
<1> QED BY <1>3, <1>4

LEMMA RemoveAtFacts ==
  ASSUME NEW S, NEW s \in Seq(S), NEW i \in DOMAIN s
  PROVE  /\ RemoveAt(s, i) \in Seq(S) /\ Len(RemoveAt(s, i)) = Len(s) - 1
         /\ DOMAIN RemoveAt(s, i) = 1..(Len(s) - 1)
         /\ \A j \in 1..(Len(s) - 1) : RemoveAt(s, i)[j] = IF j < i THEN s[j] ELSE s[j + 1]
<1>1. DOMAIN s = 1..Len(s) /\ Len(s) \in Nat /\ i \in 1..Len(s)
  OBVIOUS
<1> DEFINE before == SubSeq(s, 1, i - 1)
           after == SubSeq(s, i + 1, Len(s))
<1>2. /\ before \in Seq(S) /\ Len(before) = i - 1
      /\ \A j \in 1..(i - 1) : before[j] = s[j]
  BY <1>1
<1>3. /\ after \in Seq(S) /\ Len(after) = Len(s) - i
      /\ \A j \in 1..(Len(s) - i) : after[j] = s[i + j]
  BY <1>1
<1> HIDE DEF before, after
<1>4. /\ before \o after \in Seq(S) /\ Len(before \o after) = Len(s) - 1
      /\ \A j \in 1..(Len(s) - 1) :
           (before \o after)[j] = IF j <= i - 1 THEN before[j] ELSE after[j - (i - 1)]
  <2>1. /\ before \o after \in Seq(S) /\ Len(before \o after) = Len(before) + Len(after)
        /\ \A j \in 1..(Len(before) + Len(after)) :
             (before \o after)[j] = IF j <= Len(before) THEN before[j] ELSE after[j - Len(before)]
    BY <1>2, <1>3, ConcatFacts
  <2>2. Len(before) + Len(after) = Len(s) - 1 /\ Len(before) = i - 1
    BY <1>1, <1>2, <1>3
  <2> QED BY <2>1, <2>2
<1>5. \A j \in 1..(Len(s) - 1) : (before \o after)[j] = IF j < i THEN s[j] ELSE s[j + 1]
  <2> SUFFICES ASSUME NEW j \in 1..(Len(s) - 1)
               PROVE (before \o after)[j] = IF j < i THEN s[j] ELSE s[j + 1]
    OBVIOUS
  <2>1. CASE j < i
    BY <1>1, <1>2, <1>4, <2>1
  <2>2. CASE ~ (j < i)
    <3>1. j - (i - 1) \in 1..(Len(s) - i) /\ i + (j - (i - 1)) = j + 1 /\ ~ (j <= i - 1)
      BY <1>1, <2>2
    <3> QED BY <1>3, <1>4, <2>2, <3>1
  <2> QED BY <2>1, <2>2
<1>6. DOMAIN (before \o after) = 1..Len(before \o after)
  BY <1>4
<1> QED BY <1>4, <1>5, <1>6 DEF RemoveAt, before, after

LEMMA PlaceFacts ==
  ASSUME CacheWell(cache), NEW q, IsCached(q)
  PROVE  /\ PlaceOf(q) \in DOMAIN cache /\ cache[PlaceOf(q)].query = q
         /\ cache[PlaceOf(q)] \in Entries
BY DEF CacheWell, IsCached, PlaceOf, Range

\* The entries that stay behind a new one are fewer than the cache can hold, and for
\* other queries.
LEMMA OthersFacts ==
  ASSUME CacheWell(cache), NEW e \in Entries,
         NEW rest, rest = IF IsCached(e.query) THEN RemoveAt(cache, PlaceOf(e.query)) ELSE Kept
  PROVE  /\ rest \in Seq(Entries) /\ Len(rest) < CacheSize
         /\ \A i \in DOMAIN rest : rest[i] \in Range(cache) /\ rest[i].query # e.query
         /\ \A i, j \in DOMAIN rest : i # j => rest[i].query # rest[j].query
<1>1. /\ cache \in Seq(Entries) /\ DOMAIN cache = 1..Len(cache) /\ Len(cache) \in Nat
      /\ Len(cache) <= CacheSize /\ CacheSize \in Nat \ {0}
  BY ServerAssumption DEF CacheWell
<1>4. \A i, j \in DOMAIN cache : i # j => cache[i].query # cache[j].query
  BY DEF CacheWell
<1>2. CASE IsCached(e.query)
  <2> DEFINE p == PlaceOf(e.query)
  <2>1. p \in DOMAIN cache /\ cache[p].query = e.query
    BY <1>2, PlaceFacts
  <2>2. rest = RemoveAt(cache, p)
    BY <1>2
  <2> HIDE DEF p
  <2>3. /\ rest \in Seq(Entries) /\ Len(rest) = Len(cache) - 1
        /\ DOMAIN rest = 1..(Len(cache) - 1)
        /\ \A i \in 1..(Len(cache) - 1) : rest[i] = IF i < p THEN cache[i] ELSE cache[i + 1]
    <3> HIDE DEF Entries
    <3>1. cache \in Seq(Entries) /\ p \in DOMAIN cache
      BY <1>1, <2>1
    <3> QED BY <2>2, <3>1, RemoveAtFacts
  <2> DEFINE from(i) == IF i < p THEN i ELSE i + 1
  <2>4. \A i \in DOMAIN rest : rest[i] = cache[from(i)]
    BY <2>3
  <2> DEFINE n == Len(cache) - 1
  <2>12. Len(cache) \in Nat /\ Len(cache) # 0
    BY <1>1, <2>1
  <2>10. n \in Nat /\ n + 1 = Len(cache)
    BY <2>12
  <2>13. Len(cache) - 1 = n
    OBVIOUS
  <2> HIDE DEF n
  <2>11. DOMAIN rest = 1..n /\ DOMAIN cache = 1..(n + 1) /\ p \in 1..(n + 1) /\ Len(rest) = n
    BY <1>1, <2>1, <2>3, <2>10, <2>13, Zenon
  <2>5. \A i \in DOMAIN rest : from(i) \in DOMAIN cache /\ from(i) # p
    BY <2>10, <2>11
  <2>6. \A i, j \in DOMAIN rest : i # j => from(i) # from(j)
    BY <2>10, <2>11
  <2> HIDE DEF from
  <2>7. \A i \in DOMAIN rest : rest[i] \in Range(cache) /\ rest[i].query # e.query
    BY <1>4, <2>1, <2>4, <2>5 DEF Range
  <2>8. \A i, j \in DOMAIN rest : i # j => rest[i].query # rest[j].query
    BY <1>4, <2>4, <2>5, <2>6
  <2>9. Len(rest) < CacheSize
    BY <1>1, <2>10, <2>11
  <2> QED BY <2>3, <2>7, <2>8, <2>9
<1>3. CASE ~ IsCached(e.query)
  <2>1. rest = Kept
    BY <1>3
  <2>2. /\ rest \in Seq(Entries) /\ Len(rest) < CacheSize
        /\ DOMAIN rest \subseteq DOMAIN cache
        /\ \A i \in DOMAIN rest : rest[i] = cache[i]
    <3>1. CASE Len(cache) < CacheSize
      BY <1>1, <2>1, <3>1 DEF Kept
    <3>2. CASE ~ (Len(cache) < CacheSize)
      <4>1. rest = Front(cache) /\ cache # <<>>
        BY <1>1, <2>1, <3>2 DEF Kept
      <4>2. /\ rest \in Seq(Entries) /\ Len(rest) = Len(cache) - 1
            /\ DOMAIN rest = 1..(Len(cache) - 1)
            /\ \A i \in 1..(Len(cache) - 1) : rest[i] = cache[i]
        BY <1>1, <4>1, FrontFacts, Zenon
      <4> DEFINE n == Len(cache) - 1
      <4>6. Len(cache) \in Nat /\ Len(cache) # 0
        BY <1>1, <4>1
      <4>3. n \in Nat /\ n + 1 = Len(cache)
        BY <4>6
      <4>7. Len(cache) - 1 = n
        OBVIOUS
      <4> HIDE DEF n
      <4>4. DOMAIN rest = 1..n /\ DOMAIN cache = 1..(n + 1) /\ Len(rest) = n
        BY <1>1, <4>2, <4>3, <4>7, Zenon
      <4>5. DOMAIN rest \subseteq DOMAIN cache /\ Len(rest) < CacheSize
        BY <1>1, <4>3, <4>4
      <4> QED BY <4>2, <4>5
    <3> QED BY <3>1, <3>2
  <2>3. \A i \in DOMAIN cache : cache[i].query # e.query
    BY <1>3 DEF IsCached, Range
  <2> QED BY <1>1, <1>4, <2>2, <2>3 DEF Range
<1> QED BY <1>2, <1>3

LEMMA InFrontFacts ==
  ASSUME CacheWell(cache), NEW e \in Entries
  PROVE  /\ CacheWell(InFront(e))
         /\ \A i \in DOMAIN InFront(e) : InFront(e)[i] = e \/ InFront(e)[i] \in Range(cache)
<1> DEFINE rest == IF IsCached(e.query) THEN RemoveAt(cache, PlaceOf(e.query)) ELSE Kept
           all == <<e>> \o rest
<1>1. /\ rest \in Seq(Entries) /\ Len(rest) < CacheSize
      /\ \A i \in DOMAIN rest : rest[i] \in Range(cache) /\ rest[i].query # e.query
      /\ \A i, j \in DOMAIN rest : i # j => rest[i].query # rest[j].query
  BY OthersFacts
<1>2. InFront(e) = all
  BY DEF InFront
<1> HIDE DEF rest
<1>3. /\ all \in Seq(Entries) /\ Len(all) = Len(rest) + 1
      /\ DOMAIN all = 1..(Len(rest) + 1)
      /\ all[1] = e
      /\ \A i \in 2..(Len(rest) + 1) : all[i] = rest[i - 1]
      /\ DOMAIN rest = 1..Len(rest) /\ Len(rest) \in Nat
  BY <1>1
<1> HIDE DEF all
<1>4. \A i \in DOMAIN all : i = 1 \/ (i \in 2..(Len(rest) + 1) /\ i - 1 \in DOMAIN rest)
  BY <1>3
<1>5. \A i \in DOMAIN all : all[i] = e \/ all[i] \in Range(cache)
  BY <1>1, <1>3, <1>4
<1>6. \A i, j \in DOMAIN all : i # j => all[i].query # all[j].query
  <2> SUFFICES ASSUME NEW i \in DOMAIN all, NEW j \in DOMAIN all, i # j
               PROVE  all[i].query # all[j].query
    OBVIOUS
  <2>1. CASE i = 1
    BY <1>1, <1>3, <1>4, <2>1
  <2>2. CASE j = 1
    BY <1>1, <1>3, <1>4, <2>2
  <2>3. CASE i # 1 /\ j # 1
    <3>1. /\ i - 1 \in DOMAIN rest /\ j - 1 \in DOMAIN rest
          /\ all[i] = rest[i - 1] /\ all[j] = rest[j - 1]
      BY <1>3, <1>4, <2>3
    <3>2. i - 1 # j - 1
      BY <1>3
    <3> QED BY <1>1, <3>1, <3>2
  <2> QED BY <2>1, <2>2, <2>3
<1>7. Len(all) <= CacheSize
  BY <1>1, <1>3, ServerAssumption
<1> QED BY <1>2, <1>3, <1>5, <1>6, <1>7 DEF CacheWell

LEMMA EntryFacts ==
  ASSUME CacheWell(cache), NEW q \in Queries
  PROVE  /\ EntryOrDefault(q) \in Entries /\ EntryOrDefault(q).query = q
         /\ \/ EntryOrDefault(q) \in Range(cache)
            \/ EntryOrDefault(q).raw = NoRaw /\ DOMAIN EntryOrDefault(q).converted = {}
<1>1. CASE IsCached(q)
  BY <1>1, PlaceFacts DEF EntryOrDefault, Range
<1>2. CASE ~ IsCached(q)
  <2> DEFINE none == [i \in {} |-> Nothing]
  <2>1. none \in Maps(Nat, Nat) /\ DOMAIN none = {}
    BY MapsElement
  <2>2. EntryOrDefault(q) = [query |-> q, raw |-> NoRaw, converted |-> none]
    BY <1>2 DEF EntryOrDefault
  <2> HIDE DEF none
  <2> QED BY <2>1, <2>2 DEF Entries, NoRaw
<1> QED BY <1>1, <1>2

-----------------------------------------------------------------------------
(* Pages and their results.                                                *)

LEMMA PageFacts ==
  ASSUME NEW h \in Requests
  PROVE  First(h) \in Nat /\ \A k \in Nat \ {0} : Index(h, k) \in Nat
<1>1. h.page \in Nat /\ h.size \in Nat
  BY DEF Requests
<1>2. \A x, y \in Nat : x * y \in Nat
  OBVIOUS
<1>3. First(h) \in Nat
  BY <1>1, <1>2 DEF First
<1> QED BY <1>3 DEF Index

LEMMA LookupFacts ==
  ASSUME NEW e \in Entries, NEW i \in Nat
  PROVE  /\ Lookup(e, i) \in Results /\ Lookup(e, i).index = i
         /\ Lookup(e, i).kind = "miss" => e.raw # NoRaw /\ Lookup(e, i).version = e.raw.version
         /\ Lookup(e, i).kind = "hit" =>
              /\ i \in DOMAIN e.converted /\ e.converted[i] # Nothing
              /\ Lookup(e, i).version = e.converted[i]
<1>1. /\ e.raw \in [version : Nat, count : Nat]
      /\ \A j \in DOMAIN e.converted : e.converted[j] \in Nat
  BY MapsElement DEF Entries
<1>2. e.raw = NoRaw => i >= e.raw.count
  BY DEF NoRaw
<1> QED BY <1>1, <1>2 DEF Lookup, Hit, Miss, NotExist, Results, Nothing

LEMMA ConvertedFacts ==
  ASSUME NEW q, NEW m \in Results
  PROVE  /\ Converted(q, m) \in Results /\ Converted(q, m).index = m.index
         /\ Converted(q, m).kind = "hit" => Converted(q, m).version = m.version /\ m.kind \in {"hit", "miss"}
         /\ m.kind = "miss" => Converted(q, m).version \in {Nothing, m.version}
BY DEF Converted, Results, Hit, NotExist, Nothing

\* One handler changes, under the same version.
LEMMA OneHandler ==
  ASSUME Shape, NEW r \in Handlers, NEW new,
         HandlerWell(new, version), handlers' = [handlers EXCEPT ![r] = new], versions' = versions
  PROVE  /\ handlers' \in [Handlers -> Requests]
         /\ \A u \in Handlers : HandlerWell(handlers'[u], version')
         /\ handlers'[r] = new /\ \A u \in Handlers : u # r => handlers'[u] = handlers[u]
<1>1. new \in Requests /\ version' = version
  BY DEF HandlerWell, version
<1>2. /\ handlers' \in [Handlers -> Requests]
      /\ handlers'[r] = new /\ \A u \in Handlers : u # r => handlers'[u] = handlers[u]
  BY <1>1 DEF Shape
<1> QED BY <1>1, <1>2 DEF Shape

-----------------------------------------------------------------------------
(* How far behind results are.                                             *)

HandlerRecent(h, s) ==
  /\ h.pc = "converting" => \A k \in DOMAIN h.results :
       /\ h.results[k].kind = "miss" => AtMost(1, s, h.results[k].version, Last(s))
       /\ h.results[k].kind = "hit" => AtMost(2, s, h.results[k].version, Last(s))
  /\ h.pc = "answered" => \A k \in DOMAIN h.results :
       h.results[k].kind = "hit" => AtMost(2, s, h.results[k].version, h.guard)

EntryRecent(e, s, lag) ==
  /\ e.raw = NoRaw \/ AtMost(lag, s, e.raw.version, Last(s))
  /\ \A j \in DOMAIN e.converted :
       e.converted[j] = Nothing \/ AtMost(lag + 1, s, e.converted[j], Last(s))

Recent ==
  /\ \A r \in Handlers : HandlerRecent(handlers[r], versions)
  /\ \A i \in DOMAIN cache : EntryRecent(cache[i], versions, Lag)

LEMMA Weaken ==
  ASSUME NEW s, NEW h \in Nat, VersionsWell(s, h), NEW v, NEW w, NEW m \in Nat, NEW n \in Nat,
         m <= n, AtMost(m, s, v, w)
  PROVE  AtMost(n, s, v, w)
BY VersionsAreFinite DEF AtMost

LEMMA UpToDate ==
  ASSUME Shape
  PROVE  /\ version \in Nat /\ version \in 1..MaxVersion /\ head \in Nat /\ version <= head
         /\ Lag \in {0, 1}
         /\ \A n \in Nat : AtMost(n, versions, version, version)
<1>1. head \in Nat /\ head <= MaxVersion /\ VersionsWell(versions, head)
  BY ServerAssumption DEF Shape
<1>2. Last(versions) \in Nat /\ 1 <= Last(versions) /\ Last(versions) <= head
  BY <1>1, LastIsNewest
<1>3. Since(versions, version, version) = {}
  <2>1. \A u \in Range(versions) : u \in Nat
    BY <1>1, LastIsNewest
  <2> QED BY <1>2, <2>1 DEF Since, version
<1>4. \A n \in Nat : AtMost(n, versions, version, version)
  BY <1>3, FS_EmptySet DEF AtMost
<1> QED BY <1>1, <1>2, <1>4, ServerAssumption DEF version, Lag

-----------------------------------------------------------------------------
(* The steps of a request.                                                 *)

\* A handler's step that leaves the lock and the reindexer alone.
LEMMA HandlerStep ==
  ASSUME Shape, NEW r \in Handlers, NEW new,
         HandlerWell(new, version), handlers' = [handlers EXCEPT ![r] = new],
         handlers[r].pc # "waiting", new.pc # "waiting", CacheWell(cache'),
         UNCHANGED <<head, versions, lock, worker>>
  PROVE  /\ Shape'
         /\ /\ Recent /\ HandlerRecent(new, versions)
            /\ \A i \in DOMAIN cache' : EntryRecent(cache'[i], versions, Lag)
            => Recent'
<1>1. /\ handlers' \in [Handlers -> Requests]
      /\ \A u \in Handlers : HandlerWell(handlers'[u], version')
      /\ handlers'[r] = new /\ \A u \in Handlers : u # r => handlers'[u] = handlers[u]
  BY OneHandler
<1>2. LockWell(lock, handlers', worker)
  BY <1>1 DEF Shape, LockWell
<1>3. Shape'
  BY <1>1, <1>2 DEF Shape
<1>4. ASSUME Recent, HandlerRecent(new, versions),
             \A i \in DOMAIN cache' : EntryRecent(cache'[i], versions, Lag)
      PROVE  Recent'
  BY <1>1, <1>4 DEF Recent, Lag
<1> QED BY <1>3, <1>4

LEMMA ArriveStep ==
  ASSUME Shape, NEW r \in Handlers, Arrive(r)
  PROVE  Shape' /\ (Recent => Recent')
<1>1. PICK q \in Queries, page \in Pages, size \in PageSizes :
        handlers' = [handlers EXCEPT ![r] = Fresh("waiting", q, page, size)]
  BY DEF Arrive
<1> DEFINE new == Fresh("waiting", q, page, size)
<1>2. new \in Requests /\ new.pc = "waiting" /\ new.guard = 0
  <2>1. <<>> \in Maps(Nat, Results)
    <3>1. <<>> \in Seq(Results)
      OBVIOUS
    <3>2. \A s \in Seq(Results) : DOMAIN s \subseteq Nat /\ s \in [DOMAIN s -> Results]
      OBVIOUS
    <3> QED BY <3>1, <3>2, MapsElement
  <2>2. page \in Nat /\ size \in Nat
    BY ServerAssumption
  <2> QED BY <2>1, <2>2 DEF Fresh, Requests
<1> HIDE DEF new
<1>3. HandlerWell(new, version)
  BY <1>2, UpToDate DEF HandlerWell, Reading
<1>4. UNCHANGED <<head, versions, cache, worker>> /\ lock' = Append(lock, r) /\ handlers[r].pc \in Done
  BY DEF Arrive
<1>5. /\ handlers' \in [Handlers -> Requests]
      /\ \A u \in Handlers : HandlerWell(handlers'[u], version')
      /\ handlers'[r] = new /\ \A u \in Handlers : u # r => handlers'[u] = handlers[u]
  BY <1>1, <1>3, <1>4, OneHandler DEF new
<1>6. LockWell(lock', handlers', worker')
  <2>1. lock \in Seq(Tasks) /\ IsInjective(lock) /\ r \in Tasks /\ r \notin Range(lock) /\ r # Reindexer
    BY <1>4, ReindexerIsNoHandler DEF Shape, LockWell, Tasks, Done
  <2>2. /\ lock' \in Seq(Tasks) /\ IsInjective(lock')
        /\ Range(lock') = Range(lock) \cup {r}
    BY <1>4, <2>1, Joins
  <2> QED BY <1>2, <1>4, <1>5, <2>1, <2>2 DEF Shape, LockWell
<1>7. Shape'
  BY <1>4, <1>5, <1>6 DEF Shape
<1>8. ASSUME Recent PROVE Recent'
  <2>1. HandlerRecent(new, versions)
    BY <1>2 DEF HandlerRecent
  <2> QED BY <1>4, <1>5, <1>8, <2>1 DEF Recent, Lag
<1> QED BY <1>7, <1>8

LEMMA AcquireReadStep ==
  ASSUME Shape, NEW r \in Handlers, AcquireRead(r)
  PROVE  Shape' /\ (Recent => Recent')
<1> DEFINE new == [handlers[r] EXCEPT !.pc = "holding", !.guard = version]
<1>1. /\ UNCHANGED <<head, versions, cache, worker>>
      /\ lock # <<>> /\ Head(lock) = r /\ lock' = Tail(lock)
  BY DEF AcquireRead
<1>2. handlers' = [handlers EXCEPT ![r] = new]
  BY DEF AcquireRead, Shape
<1>3. new \in Requests /\ new.pc = "holding" /\ new.guard = version
  BY UpToDate DEF Shape, Requests, Reading
<1> HIDE DEF new
<1>4. HandlerWell(new, version)
  BY <1>3, UpToDate DEF HandlerWell
<1>5. /\ handlers' \in [Handlers -> Requests]
      /\ \A u \in Handlers : HandlerWell(handlers'[u], version')
      /\ handlers'[r] = new /\ \A u \in Handlers : u # r => handlers'[u] = handlers[u]
  BY <1>1, <1>2, <1>4, OneHandler
<1>6. LockWell(lock', handlers', worker')
  <2>1. lock \in Seq(Tasks) /\ IsInjective(lock) /\ r # Reindexer
    BY ReindexerIsNoHandler DEF Shape, LockWell
  <2>2. /\ lock' \in Seq(Tasks) /\ IsInjective(lock') /\ r \notin Range(lock')
        /\ \A x : x # r => (x \in Range(lock') <=> x \in Range(lock))
    BY <1>1, <2>1, Leaves
  <2>3. \A u \in Handlers : u # r => (handlers'[u].pc = "waiting" <=> u \in Range(lock'))
    BY <1>5, <2>2 DEF Shape, LockWell
  <2>4. handlers'[r].pc # "waiting"
    BY <1>3, <1>5
  <2> QED BY <1>1, <2>1, <2>2, <2>3, <2>4 DEF Shape, LockWell
<1>7. Shape'
  BY <1>1, <1>5, <1>6 DEF Shape
<1>8. ASSUME Recent PROVE Recent'
  <2>1. HandlerRecent(new, versions)
    BY <1>3 DEF HandlerRecent
  <2> QED BY <1>1, <1>5, <1>8, <2>1 DEF Recent, Lag
<1> QED BY <1>7, <1>8

LEMMA FindStep ==
  ASSUME Shape, NEW r \in Handlers, Find(r)
  PROVE  Shape' /\ (Recent => Recent')
<1> DEFINE h == handlers[r]
<1>1. /\ h \in Requests /\ HandlerWell(h, version) /\ h.pc = "holding" /\ h.query \in Queries
      /\ h.guard = version
      /\ CacheWell(cache) /\ UNCHANGED <<head, versions, lock, worker>>
  BY DEF Find, Shape, Requests, HandlerWell, Reading
<1>2. CASE IsCached(h.query)
  <2> DEFINE e == cache[PlaceOf(h.query)]
             found == [k \in 1..h.size |-> Lookup(e, Index(h, k))]
             new == [h EXCEPT !.pc = "converting", !.results = found]
  <2>1. e \in Entries /\ PlaceOf(h.query) \in DOMAIN cache
    BY <1>1, <1>2, PlaceFacts
  <2>2. handlers' = [handlers EXCEPT ![r] = new] /\ cache' = InFront(e)
    BY <1>2 DEF Find, Shape
  <2>3. \A k \in 1..h.size : Index(h, k) \in Nat
    BY <1>1, PageFacts DEF Requests
  <2>4. /\ \A k \in 1..h.size : found[k] \in Results /\ found[k].index = Index(h, k)
        /\ DOMAIN found = 1..h.size
    BY <2>1, <2>3, LookupFacts
  <2>5. found \in Maps(Nat, Results)
    <3>1. 1..h.size \subseteq Nat
      OBVIOUS
    <3>2. found \in [1..h.size -> Results]
      <4> DEFINE result(k) == Lookup(e, Index(h, k))
      <4>1. \A k \in 1..h.size : result(k) \in Results
        BY <2>4
      <4>2. found = [k \in 1..h.size |-> result(k)]
        OBVIOUS
      <4> HIDE DEF result
      <4> QED BY <4>1, <4>2
    <3> HIDE DEF found
    <3> QED BY <2>4, <3>1, <3>2, MapsElement
  <2>6. /\ new \in Requests /\ new.pc = "converting" /\ new.guard = version
        /\ new.results = found /\ new.page = h.page /\ new.size = h.size
    BY <1>1, <2>5 DEF Requests, Reading
  <2>7. \A k \in 1..h.size :
          /\ found[k].kind = "miss" => e.raw # NoRaw /\ found[k].version = e.raw.version
          /\ found[k].kind = "hit" => \E i \in DOMAIN e.converted :
               e.converted[i] # Nothing /\ found[k].version = e.converted[i]
    BY <2>1, <2>3, LookupFacts
  <2> HIDE DEF new, found, e
  <2>8. HandlerWell(new, version)
    <3>1. \A k : Index(new, k) = Index(h, k)
      BY <2>6 DEF Index, First
    <3> QED BY <2>4, <2>6, <3>1, UpToDate DEF HandlerWell
  <2>9. /\ CacheWell(cache')
        /\ \A i \in DOMAIN cache' : cache'[i] = e \/ cache'[i] \in Range(cache)
    BY <1>1, <2>1, <2>2, InFrontFacts
  <2>10. ASSUME Recent
         PROVE  /\ HandlerRecent(new, versions)
                /\ \A i \in DOMAIN cache' : EntryRecent(cache'[i], versions, Lag)
    <3>1. EntryRecent(e, versions, Lag)
      BY <2>1, <2>10 DEF Recent, e
    <3>2. ASSUME NEW m \in Nat, NEW n \in Nat, m <= n, NEW v, AtMost(m, versions, v, version)
          PROVE  AtMost(n, versions, v, version)
      BY <3>2, UpToDate, Weaken DEF Shape
    <3>3. Lag \in Nat /\ Lag <= 1 /\ Lag + 1 \in Nat /\ Lag + 1 <= 2
      BY UpToDate
    <3>4. \A k \in 1..h.size :
            /\ found[k].kind = "miss" => AtMost(1, versions, found[k].version, version)
            /\ found[k].kind = "hit" => AtMost(2, versions, found[k].version, version)
      BY <2>7, <3>1, <3>2, <3>3 DEF EntryRecent, version
    <3>5. HandlerRecent(new, versions)
      BY <2>4, <2>6, <3>4 DEF HandlerRecent, version
    <3> QED BY <2>9, <2>10, <3>1, <3>5 DEF Recent, Range
  <2> QED BY <1>1, <2>2, <2>6, <2>8, <2>9, <2>10, HandlerStep
<1>3. CASE ~ IsCached(h.query)
  <2> DEFINE new == [h EXCEPT !.pc = "searching"]
  <2>1. handlers' = [handlers EXCEPT ![r] = new] /\ cache' = cache
    BY <1>3 DEF Find, Shape
  <2>2. /\ new \in Requests /\ new.pc = "searching" /\ new.guard = version
    BY <1>1 DEF Requests, Reading
  <2> HIDE DEF new
  <2>3. HandlerWell(new, version) /\ HandlerRecent(new, versions)
    BY <2>2, UpToDate DEF HandlerWell, HandlerRecent
  <2> QED BY <1>1, <2>1, <2>2, <2>3, HandlerStep DEF Recent
<1> QED BY <1>2, <1>3

\* The cache after one entry of it has been changed.
LEMMA Put ==
  ASSUME Shape, NEW e \in Entries
  PROVE  /\ CacheWell(InFront(e))
         /\ Recent /\ EntryRecent(e, versions, Lag) =>
              \A i \in DOMAIN InFront(e) : EntryRecent(InFront(e)[i], versions, Lag)
<1>1. /\ CacheWell(InFront(e))
      /\ \A i \in DOMAIN InFront(e) : InFront(e)[i] = e \/ InFront(e)[i] \in Range(cache)
  BY InFrontFacts DEF Shape
<1>2. Recent => \A f \in Range(cache) : EntryRecent(f, versions, Lag)
  BY DEF Recent, Range
<1> QED BY <1>1, <1>2

LEMMA EntryIsRecent ==
  ASSUME Shape, Recent, NEW q \in Queries
  PROVE  EntryRecent(EntryOrDefault(q), versions, Lag)
<1>1. CASE EntryOrDefault(q) \in Range(cache)
  BY <1>1 DEF Recent, Range
<1>2. CASE EntryOrDefault(q).raw = NoRaw /\ DOMAIN EntryOrDefault(q).converted = {}
  BY <1>2 DEF EntryRecent
<1> QED BY <1>1, <1>2, EntryFacts DEF Shape

LEMMA SearchStep ==
  ASSUME Shape, NEW r \in Handlers, Search(r)
  PROVE  Shape' /\ (Recent => Recent')
<1> DEFINE h == handlers[r]
           n == RawCount[h.query][version]
<1>1. /\ h \in Requests /\ HandlerWell(h, version) /\ h.pc = "searching" /\ h.query \in Queries
      /\ h.guard = version
      /\ CacheWell(cache) /\ UNCHANGED <<head, versions, lock, worker>>
  BY DEF Search, Shape, Requests, HandlerWell, Reading
<1>2. CASE h.query \in Rejected
  <2> DEFINE new == [h EXCEPT !.pc = "failed"]
  <2>1. handlers' = [handlers EXCEPT ![r] = new] /\ cache' = cache
    BY <1>2 DEF Search, Shape
  <2>2. /\ new \in Requests /\ new.pc = "failed" /\ new.guard = version
    BY <1>1 DEF Requests, Done
  <2> HIDE DEF new
  <2>3. HandlerWell(new, version) /\ HandlerRecent(new, versions)
    BY <2>2, UpToDate DEF HandlerWell, HandlerRecent, Reading
  <2> QED BY <1>1, <2>1, <2>2, <2>3, HandlerStep DEF Recent
<1>3. CASE h.query \notin Rejected
  <2> DEFINE page == {j \in 1..h.size : Index(h, j) < n}
             found == [k \in page |-> Miss(Index(h, k), version)]
             new == [h EXCEPT !.pc = "converting", !.results = found]
             e == [EntryOrDefault(h.query) EXCEPT !.raw = [version |-> version, count |-> n]]
  <2>1. handlers' = [handlers EXCEPT ![r] = new] /\ cache' = InFront(e)
    BY <1>3 DEF Search, Shape, PutRaw
  <2>2. version \in Nat /\ n \in Nat
    BY <1>1, UpToDate, ServerAssumption
  <2>3. \A k \in page : Index(h, k) \in Nat
    BY <1>1, PageFacts
  <2>4. /\ DOMAIN found = page
        /\ \A k \in page : /\ found[k] \in Results /\ found[k].index = Index(h, k)
                           /\ found[k].kind = "miss" /\ found[k].version = version
    BY <2>2, <2>3 DEF Miss, Results
  <2>5. found \in Maps(Nat, Results)
    <3>1. page \subseteq Nat
      OBVIOUS
    <3>2. found \in [page -> Results]
      <4> DEFINE result(k) == Miss(Index(h, k), version)
      <4>1. \A k \in page : result(k) \in Results
        BY <2>4
      <4>2. found = [k \in page |-> result(k)]
        OBVIOUS
      <4> HIDE DEF result, page
      <4> QED BY <4>1, <4>2
    <3> HIDE DEF found, page
    <3> QED BY <2>4, <3>1, <3>2, MapsElement
  <2>6. /\ new \in Requests /\ new.pc = "converting" /\ new.guard = version
        /\ new.results = found /\ new.page = h.page /\ new.size = h.size
    BY <1>1, <2>5 DEF Requests, Reading
  <2>7. /\ e \in Entries /\ e.raw.version = version
        /\ e.converted = EntryOrDefault(h.query).converted
    BY <1>1, <2>2, EntryFacts DEF Entries
  <2> HIDE DEF new, found, page, e
  <2>8. HandlerWell(new, version)
    <3>1. \A k : Index(new, k) = Index(h, k)
      BY <2>6 DEF Index, First
    <3> QED BY <2>4, <2>6, <3>1, UpToDate DEF HandlerWell
  <2>9. CacheWell(cache')
    BY <2>1, <2>7, Put
  <2>10. ASSUME Recent
         PROVE  /\ HandlerRecent(new, versions)
                /\ \A i \in DOMAIN cache' : EntryRecent(cache'[i], versions, Lag)
    <3>1. EntryRecent(EntryOrDefault(h.query), versions, Lag)
      BY <1>1, <2>10, EntryIsRecent
    <3>2. AtMost(1, versions, version, version) /\ AtMost(Lag, versions, version, version)
      BY UpToDate
    <3>3. EntryRecent(e, versions, Lag)
      BY <2>7, <3>1, <3>2 DEF EntryRecent, version
    <3>4. HandlerRecent(new, versions)
      BY <2>4, <2>6, <3>2 DEF HandlerRecent, version
    <3> QED BY <2>1, <2>7, <2>10, <3>3, <3>4, Put
  <2> QED BY <1>1, <2>1, <2>6, <2>8, <2>9, <2>10, HandlerStep
<1> QED BY <1>2, <1>3

LEMMA ConvertStep ==
  ASSUME Shape, NEW r \in Handlers, Convert(r)
  PROVE  Shape' /\ (Recent => Recent')
<1> DEFINE h == handlers[r]
           misses == {k \in DOMAIN h.results : h.results[k].kind = "miss"}
           results == [k \in DOMAIN h.results |-> Converted(h.query, h.results[k])]
           indexes == {h.results[k].index : k \in misses}
           new == [i \in indexes |-> results[i - First(h) + 1].version]
           answer == [h EXCEPT !.pc = "answered", !.results = results]
           failure == [h EXCEPT !.pc = "failed"]
<1>1. /\ h \in Requests /\ HandlerWell(h, version) /\ h.pc = "converting" /\ h.query \in Queries
      /\ h.guard = version
      /\ CacheWell(cache) /\ UNCHANGED <<head, versions, lock, worker>>
  BY DEF Convert, Shape, Requests, HandlerWell, Reading
<1>2. /\ cache' \in {cache, PutConverted(h.query, new)}
      /\ \/ handlers' = [handlers EXCEPT ![r] = answer]
         \/ handlers' = [handlers EXCEPT ![r] = failure]
  BY DEF Convert, Shape
<1>3. /\ DOMAIN h.results \subseteq Nat
      /\ \A k \in DOMAIN h.results : h.results[k] \in Results /\ h.results[k].index = Index(h, k)
  BY <1>1, MapsElement DEF Requests, HandlerWell
<1>4. /\ DOMAIN results = DOMAIN h.results
      /\ \A k \in DOMAIN results :
           /\ results[k] \in Results
           /\ results[k].kind = "hit" =>
                results[k].version = h.results[k].version /\ h.results[k].kind \in {"hit", "miss"}
           /\ k \in misses => results[k].version \in {Nothing, h.results[k].version}
  BY <1>3, ConvertedFacts
<1>5. results \in Maps(Nat, Results)
  <2>1. results \in [DOMAIN results -> Results]
    <3> DEFINE result(k) == Converted(h.query, h.results[k])
    <3>1. \A k \in DOMAIN h.results : result(k) \in Results
      BY <1>3, ConvertedFacts
    <3>2. results = [k \in DOMAIN h.results |-> result(k)]
      OBVIOUS
    <3> HIDE DEF result, results, h
    <3> QED BY <1>4, <3>1, <3>2
  <2> HIDE DEF results
  <2> QED BY <1>3, <1>4, <2>1, MapsElement
<1> HIDE DEF results
<1>6. /\ DOMAIN new = indexes
      /\ \A i \in indexes : /\ i \in Nat /\ new[i] \in Nat
                            /\ \E k \in misses : new[i] \in {Nothing, h.results[k].version}
  <2> SUFFICES ASSUME NEW k \in misses
               PROVE  LET i == h.results[k].index
                      IN  i \in Nat /\ new[i] \in Nat /\ new[i] \in {Nothing, h.results[k].version}
    OBVIOUS
  <2> DEFINE i == h.results[k].index
  <2>1. k \in DOMAIN h.results /\ i = First(h) + k - 1 /\ k \in Nat /\ i \in Nat
    BY <1>3 DEF Index, Results
  <2>2. i - First(h) + 1 = k
    BY <1>1, <2>1, PageFacts
  <2>3. new[i] = results[k].version
    BY <2>2
  <2>4. results[k] \in Results /\ results[k].version \in {Nothing, h.results[k].version}
    BY <1>4, <2>1
  <2>5. results[k].version \in Nat
    BY <2>4 DEF Results
  <2> HIDE DEF new, h, misses
  <2> QED BY <2>1, <2>3, <2>4, <2>5, Zenon
<1> HIDE DEF new, indexes
<1>7. /\ CacheWell(cache')
      /\ Recent => \A i \in DOMAIN cache' : EntryRecent(cache'[i], versions, Lag)
  <2> DEFINE old == EntryOrDefault(h.query)
             all == [i \in DOMAIN old.converted \cup indexes |->
                       IF i \in indexes THEN new[i] ELSE old.converted[i]]
             e == [old EXCEPT !.converted = all]
  <2>1. CASE cache' = cache
    BY <1>1, <2>1 DEF Recent
  <2>2. CASE cache' = InFront(e)
    <3>1. /\ old \in Entries
          /\ DOMAIN old.converted \subseteq Nat
          /\ \A i \in DOMAIN old.converted : old.converted[i] \in Nat
      BY <1>1, EntryFacts, MapsElement DEF Entries
    <3>2. DOMAIN all \subseteq Nat /\ \A i \in DOMAIN all : all[i] \in Nat
      BY <1>6, <3>1
    <3>3. all \in Maps(Nat, Nat)
      <4>1. all \in [DOMAIN all -> Nat]
        BY <3>2
      <4> HIDE DEF all
      <4> QED BY <3>2, <4>1, MapsElement
    <3>4. e \in Entries /\ e.raw = old.raw /\ e.converted = all
      BY <3>1, <3>3 DEF Entries
    <3>5. ASSUME Recent PROVE EntryRecent(e, versions, Lag)
      <4>1. EntryRecent(old, versions, Lag)
        BY <1>1, <3>5, EntryIsRecent
      <4>2. \A k \in misses : AtMost(1, versions, h.results[k].version, Last(versions))
        BY <1>1, <3>5 DEF Recent, HandlerRecent
      <4>3. \A k \in misses : AtMost(Lag + 1, versions, h.results[k].version, Last(versions))
        BY <4>2, UpToDate, Weaken DEF Shape
      <4>4. \A i \in indexes : new[i] = Nothing \/ AtMost(Lag + 1, versions, new[i], Last(versions))
        BY <1>6, <4>3
      <4>5. \A i \in DOMAIN all : all[i] = Nothing \/ AtMost(Lag + 1, versions, all[i], Last(versions))
        BY <4>1, <4>4 DEF EntryRecent
      <4> HIDE DEF all, e, old
      <4> QED BY <3>4, <4>1, <4>5 DEF EntryRecent
    <3> HIDE DEF e
    <3> QED BY <2>2, <3>4, <3>5, Put
  <2> QED BY <1>2, <1>6, <2>1, <2>2 DEF PutConverted
<1>8. CASE handlers' = [handlers EXCEPT ![r] = answer]
  <2>1. /\ answer \in Requests /\ answer.pc = "answered" /\ answer.guard = version
        /\ answer.results = results
    BY <1>1, <1>5 DEF Requests, Done
  <2> HIDE DEF answer
  <2>2. HandlerWell(answer, version)
    BY <2>1, UpToDate DEF HandlerWell, Reading
  <2>3. ASSUME Recent PROVE HandlerRecent(answer, versions)
    <3>1. \A k \in DOMAIN h.results :
            /\ h.results[k].kind = "miss" => AtMost(1, versions, h.results[k].version, version)
            /\ h.results[k].kind = "hit" => AtMost(2, versions, h.results[k].version, version)
      BY <1>1, <2>3 DEF Recent, HandlerRecent, version
    <3>2. \A k \in DOMAIN h.results : h.results[k].kind = "miss" =>
            AtMost(2, versions, h.results[k].version, version)
      BY <3>1, UpToDate, Weaken DEF Shape
    <3>3. \A k \in DOMAIN results : results[k].kind = "hit" =>
            AtMost(2, versions, results[k].version, version)
      BY <1>4, <3>1, <3>2
    <3> QED BY <2>1, <3>3 DEF HandlerRecent
  <2> QED BY <1>1, <1>7, <1>8, <2>1, <2>2, <2>3, HandlerStep
<1>9. CASE handlers' = [handlers EXCEPT ![r] = failure]
  <2>1. /\ failure \in Requests /\ failure.pc = "failed" /\ failure.guard = version
    BY <1>1 DEF Requests, Done
  <2> HIDE DEF failure
  <2>2. HandlerWell(failure, version) /\ HandlerRecent(failure, versions)
    BY <2>1, UpToDate DEF HandlerWell, Reading, HandlerRecent
  <2> QED BY <1>1, <1>7, <1>9, <2>1, <2>2, HandlerStep
<1> QED BY <1>2, <1>8, <1>9

-----------------------------------------------------------------------------
(* The steps of the repository and the reindexer.                          *)

LEMMA Started == Init => Shape /\ Recent
<1> SUFFICES ASSUME Init PROVE Shape /\ Recent
  OBVIOUS
<1>1. head = 1 /\ 1 \in 1..MaxVersion
  BY ServerAssumption DEF Init
<1>2. versions = <<1>> /\ Last(versions) = 1 /\ version = 1
  BY DEF Init, Last, version
<1>3. VersionsWell(versions, head)
  BY <1>1, <1>2 DEF VersionsWell
<1>4. lock = <<>> /\ Range(lock) = {} /\ worker = "receiving"
  BY DEF Init, Range
<1> DEFINE none == Fresh("idle", CHOOSE q \in Queries : TRUE, 0, 0)
<1>5. handlers = [r \in Handlers |-> none] /\ cache = <<>>
  BY DEF Init
<1>6. CacheWell(cache)
  BY <1>5, ServerAssumption DEF CacheWell
<1>7. \A i \in DOMAIN cache : EntryRecent(cache[i], versions, Lag)
  BY <1>5
<1>8. none \in Requests /\ none.pc = "idle" /\ none.guard = 0
  <2>1. <<>> \in Maps(Nat, Results)
    <3>1. <<>> \in Seq(Results)
      OBVIOUS
    <3>2. \A s \in Seq(Results) : DOMAIN s \subseteq Nat /\ s \in [DOMAIN s -> Results]
      OBVIOUS
    <3> QED BY <3>1, <3>2, MapsElement
  <2>2. (CHOOSE q \in Queries : TRUE) \in Queries
    BY ServerAssumption
  <2> QED BY <2>1, <2>2 DEF Fresh, Requests, Done
<1> HIDE DEF none
<1>9. \A r \in Handlers : HandlerWell(handlers[r], version) /\ HandlerRecent(handlers[r], versions)
  BY <1>2, <1>5, <1>8 DEF HandlerWell, HandlerRecent, Reading
<1>10. LockWell(lock, handlers, worker)
  BY <1>4, <1>5, <1>8 DEF LockWell, IsInjective
<1> QED BY <1>1, <1>3, <1>5, <1>6, <1>7, <1>8, <1>9, <1>10 DEF Shape, Recent

\* A step that touches neither the handlers nor the cache nor the versions.
LEMMA Beside ==
  ASSUME Shape, UNCHANGED <<versions, handlers, cache>>,
         head' \in head..MaxVersion, LockWell(lock', handlers, worker'), Lag <= Lag'
  PROVE  Shape' /\ (Recent => Recent')
<1>1. head' \in 1..MaxVersion /\ VersionsWell(versions, head')
  <2>1. head \in Nat /\ head >= 1
    BY ServerAssumption DEF Shape
  <2>2. \A i \in DOMAIN versions : versions[i] \in Nat
    BY LastFacts DEF Shape, VersionsWell
  <2> QED BY <2>1, <2>2, ServerAssumption DEF Shape, VersionsWell
<1>2. Shape'
  BY <1>1 DEF Shape, version
<1>3. ASSUME Recent PROVE Recent'
  <2>1. Lag \in Nat /\ Lag' \in Nat
    BY DEF Lag
  <2>2. \A i \in DOMAIN cache : EntryRecent(cache[i], versions, Lag')
    <3>1. ASSUME NEW m \in Nat, NEW n \in Nat, m <= n, NEW v, AtMost(m, versions, v, Last(versions))
          PROVE  AtMost(n, versions, v, Last(versions))
      BY <3>1, UpToDate, Weaken DEF Shape
    <3>2. ASSUME NEW a \in Nat, NEW b \in Nat, a <= b
          PROVE  a + 1 \in Nat /\ b + 1 \in Nat /\ a + 1 <= b + 1
      BY <3>2
    <3>4. Lag + 1 \in Nat /\ Lag' + 1 \in Nat /\ Lag + 1 <= Lag' + 1
      BY <2>1, <3>2
    <3> QED BY <1>3, <2>1, <3>1, <3>4 DEF Recent, EntryRecent
  <2> QED BY <1>3, <2>2 DEF Recent
<1> QED BY <1>2, <1>3

LEMMA CommitStep ==
  ASSUME Shape, Commit
  PROVE  Shape' /\ (Recent => Recent')
<1>1. /\ UNCHANGED <<versions, lock, handlers, cache, worker>>
      /\ head' \in head..MaxVersion
  BY ServerAssumption DEF Commit, Shape
<1>2. Lag' = Lag /\ Lag \in Nat
  BY <1>1 DEF Lag
<1> QED BY <1>1, <1>2, Beside DEF Shape

LEMMA SignalStep ==
  ASSUME Shape, RequestReindex \/ Report
  PROVE  Shape' /\ (Recent => Recent')
<1>1. /\ UNCHANGED <<head, versions, lock, handlers, cache>>
      /\ \/ worker' = worker
         \/ worker = "reporting" /\ worker' = "receiving"
  BY DEF RequestReindex, Report
<1>2. Lag' = Lag /\ Lag \in Nat /\ LockWell(lock', handlers, worker') /\ head' \in head..MaxVersion
  BY <1>1, ServerAssumption DEF Lag, Shape, LockWell
<1> QED BY <1>1, <1>2, Beside

LEMMA ReceiveStep ==
  ASSUME Shape, Receive
  PROVE  Shape' /\ (Recent => Recent')
<1>1. /\ UNCHANGED <<head, versions, handlers, cache>>
      /\ worker = "receiving" /\ worker' = "locking" /\ lock' = Append(lock, Reindexer)
  BY DEF Receive
<1>2. lock \in Seq(Tasks) /\ IsInjective(lock) /\ Reindexer \in Tasks /\ Reindexer \notin Range(lock)
  BY <1>1 DEF Shape, LockWell, Tasks
<1>3. /\ lock' \in Seq(Tasks) /\ IsInjective(lock')
      /\ Range(lock') = Range(lock) \cup {Reindexer}
  BY <1>1, <1>2, Joins
<1>4. LockWell(lock', handlers, worker')
  BY <1>1, <1>3, ReindexerIsNoHandler DEF Shape, LockWell
<1>5. Lag' = Lag /\ Lag \in Nat /\ head' \in head..MaxVersion
  BY <1>1, ServerAssumption DEF Lag, Shape
<1> QED BY <1>1, <1>4, <1>5, Beside

LEMMA EvictStep ==
  ASSUME Shape, Evict
  PROVE  Shape' /\ (Recent => Recent')
<1>1. /\ UNCHANGED <<head, versions, lock, handlers>>
      /\ worker = "evicting" /\ worker' = "receiving" /\ cache' = <<>>
  BY DEF Evict
<1>2. CacheWell(cache')
  BY <1>1, ServerAssumption DEF CacheWell
<1>3. LockWell(lock', handlers', worker')
  BY <1>1 DEF Shape, LockWell
<1>4. Shape'
  BY <1>1, <1>2, <1>3 DEF Shape, version
<1>5. Recent => Recent'
  BY <1>1 DEF Recent
<1> QED BY <1>4, <1>5

\* Nobody reads while the index changes, and the cache was last evicted for the
\* version before.
LEMMA IndexStep ==
  ASSUME Shape, DoIncrementalIndex
  PROVE  Shape' /\ (Recent /\ ~ MayFail => Recent')
<1>1. /\ UNCHANGED <<head, handlers, cache>>
      /\ worker = "locking" /\ worker' \in {"evicting", "receiving", "reporting"}
      /\ Head(lock) = Reindexer /\ lock' = Tail(lock)
      /\ \A r \in Handlers : handlers[r].pc \notin Reading
      /\ \/ UNCHANGED versions
         \/ \E v \in version..head : Publish(v)
      /\ versions' = versions \/ worker' = "evicting" \/ MayFail
  <2>1. \A r \in Handlers : handlers[r].pc \notin Reading
    BY DEF DoIncrementalIndex, Readers
  <2>2. head \in version..head
    BY UpToDate
  <2> QED BY <2>1, <2>2 DEF DoIncrementalIndex
<1>2. LockWell(lock', handlers, worker')
  <2>1. lock \in Seq(Tasks) /\ IsInjective(lock) /\ lock # <<>>
    BY <1>1 DEF Shape, LockWell, Range
  <2>2. /\ lock' \in Seq(Tasks) /\ IsInjective(lock') /\ Reindexer \notin Range(lock')
        /\ \A x : x # Reindexer => (x \in Range(lock') <=> x \in Range(lock))
    BY <1>1, <2>1, Leaves
  <2> QED BY <1>1, <2>2, ReindexerIsNoHandler DEF Shape, LockWell
<1>3. CASE UNCHANGED versions
  <2>1. head' \in head..MaxVersion /\ Lag <= Lag'
    BY <1>1, ServerAssumption DEF Lag, Shape
  <2> QED BY <1>1, <1>2, <1>3, <2>1, Beside
<1>4. CASE ~ UNCHANGED versions
  <2>1. PICK v \in version..head : v # version /\ versions' = Append(versions, v)
    BY <1>1, <1>4 DEF Publish
  <2>2. v \in Nat /\ version \in Nat /\ version < v /\ v <= head /\ head \in Nat
    BY <2>1, UpToDate
  <2>3. /\ VersionsWell(versions', head) /\ version' = v
        /\ \A x \in Nat : \A n \in Nat :
             AtMost(n, versions, x, version) => AtMost(n + 1, versions', x, version')
        /\ \A x \in Nat : \A w \in Nat : \A n \in Nat :
             w <= version => (AtMost(n, versions, x, w) => AtMost(n, versions', x, w))
    BY <2>1, <2>2, Updated DEF Shape, version
  <2>4. \A r \in Handlers : HandlerWell(handlers[r], version')
    <3> SUFFICES ASSUME NEW r \in Handlers PROVE HandlerWell(handlers[r], version')
      OBVIOUS
    <3>1. HandlerWell(handlers[r], version) /\ handlers[r].pc \notin Reading /\ handlers[r].guard \in Nat
      BY <1>1 DEF Shape, Requests
    <3>2. handlers[r].guard <= version'
      BY <2>2, <2>3, <3>1 DEF HandlerWell
    <3> QED BY <3>1, <3>2 DEF HandlerWell, Reading
  <2>5. Shape'
    BY <1>1, <1>2, <2>3, <2>4 DEF Shape
  <2>6. ASSUME Recent, ~ MayFail PROVE Recent'
    <3>1. Lag = 0 /\ Lag' = 1
      BY <1>1, <1>4, <2>6 DEF Lag
    <3>2. \A i \in DOMAIN cache : EntryRecent(cache[i], versions', 1)
      <4> SUFFICES ASSUME NEW i \in DOMAIN cache PROVE EntryRecent(cache[i], versions', 1)
        OBVIOUS
      <4>1. /\ cache[i].raw.version \in Nat
            /\ \A j \in DOMAIN cache[i].converted : cache[i].converted[j] \in Nat
        <5>1. cache[i] \in Entries
          BY DEF Shape, CacheWell
        <5> QED BY <5>1, MapsElement DEF Entries
      <4>2. EntryRecent(cache[i], versions, 0)
        BY <2>6, <3>1 DEF Recent
      <4>3. cache[i].raw = NoRaw \/ AtMost(1, versions', cache[i].raw.version, version')
        BY <2>3, <4>1, <4>2 DEF EntryRecent, version
      <4>4. \A j \in DOMAIN cache[i].converted :
              cache[i].converted[j] = Nothing \/ AtMost(2, versions', cache[i].converted[j], version')
        BY <2>3, <4>1, <4>2 DEF EntryRecent, version
      <4> QED BY <4>3, <4>4 DEF EntryRecent, version
    <3>3. \A r \in Handlers : HandlerRecent(handlers[r], versions')
      <4> SUFFICES ASSUME NEW r \in Handlers PROVE HandlerRecent(handlers[r], versions')
        OBVIOUS
      <4>1. /\ handlers[r].pc # "converting" /\ handlers[r].guard \in Nat
            /\ handlers[r].guard <= version
            /\ \A k \in DOMAIN handlers[r].results : handlers[r].results[k].version \in Nat
        <5>1. handlers[r] \in Requests /\ handlers[r].pc \notin Reading /\ HandlerWell(handlers[r], version)
          BY <1>1 DEF Shape
        <5>2. handlers[r].pc # "converting" /\ handlers[r].guard \in Nat /\ handlers[r].guard <= version
          BY <5>1 DEF Requests, HandlerWell, Reading
        <5>3. handlers[r].results \in Maps(Nat, Results)
          BY <5>1 DEF Requests
        <5>4. \A k \in DOMAIN handlers[r].results : handlers[r].results[k] \in Results
          BY <5>3, MapsElement
        <5> QED BY <5>2, <5>4 DEF Results
      <4> QED BY <2>3, <2>6, <4>1 DEF Recent, HandlerRecent
    <3> QED BY <1>1, <3>1, <3>2, <3>3 DEF Recent
  <2> QED BY <2>5, <2>6
<1> QED BY <1>3, <1>4

LEMMA EveryStep ==
  ASSUME Shape, [Next]_vars
  PROVE  Shape' /\ (Recent /\ ~ MayFail => Recent')
<1>1. CASE UNCHANGED vars
  BY <1>1 DEF vars, Shape, Recent, version, Lag
<1>2. CASE \E r \in Handlers : Arrive(r) \/ AcquireRead(r) \/ Find(r) \/ Search(r) \/ Convert(r)
  BY <1>2, ArriveStep, AcquireReadStep, FindStep, SearchStep, ConvertStep
<1> QED BY <1>1, <1>2, CommitStep, SignalStep, ReceiveStep, IndexStep, EvictStep DEF Next

-----------------------------------------------------------------------------
(* Without signals the index stays as it is, and with room for every query *)
(* nothing is pushed out of the cache: then answers are exact.             *)

Count(q) == RawCount[q][1]
IsFalse(q, i) == <<q, 1, i>> \in FalsePositives

\* What a result says of its candidate is so; a miss only says that there is one.
Says(q, m) ==
  /\ m.kind = "hit" => m.version = 1 /\ m.index < Count(q) /\ ~ IsFalse(q, m.index)
  /\ m.kind = "miss" => m.version = 1 /\ m.index < Count(q)
  /\ m.kind = "not exist" => ~ (m.index < Count(q)) \/ IsFalse(q, m.index)

\* A page has a true result for each of its candidates.
PageExact(h) ==
  /\ h.guard = 1
  /\ \A k \in DOMAIN h.results :
       k \in 1..h.size /\ h.results[k].index = Index(h, k) /\ Says(h.query, h.results[k])
  /\ \A k \in 1..h.size : Index(h, k) < Count(h.query) => k \in DOMAIN h.results

Holds(c, q) == \E i \in DOMAIN c : c[i].query = q

\* While a page is converted, its query is in the cache.
HandlerExact(h, c) ==
  /\ h.pc = "converting" => h.query \notin Rejected /\ Holds(c, h.query) /\ PageExact(h)
  /\ h.pc = "answered" => PageExact(h) /\ \A k \in DOMAIN h.results : h.results[k].kind # "miss"

EntryExact(e) ==
  /\ e.query \notin Rejected
  /\ e.raw.version = 1 /\ e.raw.count = Count(e.query)
  /\ \A i \in DOMAIN e.converted : e.converted[i] = IF IsFalse(e.query, i) THEN Nothing ELSE 1

CacheExact(c) == \A i \in DOMAIN c : EntryExact(c[i])

Quiet == versions = <<1>> /\ signals = <<>> /\ worker = "receiving"

Exact ==
  /\ Quiet
  /\ CacheExact(cache)
  /\ \A r \in Handlers : HandlerExact(handlers[r], cache)

\* The cache has room for every query that is not refused.
EnoughRoom == IsFiniteSet(Queries \ Rejected) /\ Cardinality(Queries \ Rejected) <= CacheSize

\* A new entry pushes nothing out: those in the cache and the new one are for
\* different queries, and there are no more queries than places.
LEMMA NothingIsPushedOut ==
  ASSUME EnoughRoom, CacheWell(cache), CacheExact(cache),
         NEW e \in Entries, e.query \notin Rejected, ~ IsCached(e.query)
  PROVE  Kept = cache
<1>1. /\ cache \in Seq(Entries) /\ DOMAIN cache = 1..Len(cache) /\ Len(cache) \in Nat
      /\ Len(cache) <= CacheSize /\ CacheSize \in Nat \ {0}
      /\ \A i, j \in DOMAIN cache : i # j => cache[i].query # cache[j].query
  BY ServerAssumption DEF CacheWell
<1> DEFINE S == 1..Len(cache)
           Q == Queries \ Rejected
           T == Q \ {e.query}
           f == [i \in S |-> cache[i].query]
<1>2. \A i \in S : cache[i] \in Entries /\ cache[i].query \in T
  <2> SUFFICES ASSUME NEW i \in S PROVE cache[i] \in Entries /\ cache[i].query \in T
    OBVIOUS
  <2>0. i \in DOMAIN cache /\ cache[i] \in Entries
    BY <1>1
  <2>1. cache[i] \in Entries /\ cache[i].query \in Queries
    BY <2>0 DEF Entries
  <2>2. cache[i].query \notin Rejected
    BY <1>1 DEF CacheExact, EntryExact
  <2>3. cache[i].query # e.query
    BY <1>1 DEF IsCached, Range
  <2> QED BY <2>1, <2>2, <2>3
<1>3. f \in Injection(S, T)
  BY <1>1, <1>2 DEF Injection, IsInjective
<1>4. /\ IsFiniteSet(Q) /\ e.query \in Q /\ Cardinality(Q) <= CacheSize
  BY DEF EnoughRoom, Entries
<1> HIDE DEF S, T, Q, f
<1>5. IsFiniteSet(T) /\ Cardinality(T) = Cardinality(Q) - 1 /\ Cardinality(Q) \in Nat
  <2>1. IsFiniteSet(Q \ {e.query}) /\ Cardinality(Q \ {e.query}) = Cardinality(Q) - 1
    BY <1>4, FS_RemoveElement
  <2>2. Cardinality(Q) \in Nat
    BY <1>4, FS_CardinalityType
  <2> QED BY <2>1, <2>2 DEF T
<1>6. Cardinality(S) <= Cardinality(T)
  BY <1>3, <1>5, FS_Injection
<1>7. Cardinality(S) = Len(cache)
  <2> DEFINE n == Len(cache)
  <2>1. 1 \in Int /\ n \in Int /\ n \in Nat
    BY <1>1
  <2> HIDE DEF n
  <2>2. Cardinality(1..n) = IF 1 > n THEN 0 ELSE n - 1 + 1
    BY ONLY <2>1, FS_Interval
  <2>3. Cardinality(1..n) = n
    BY <2>1, <2>2
  <2> QED BY <2>3 DEF S, n
<1>8. Len(cache) < CacheSize
  BY <1>1, <1>4, <1>5, <1>6, <1>7
<1> QED BY <1>8 DEF Kept

\* So an exact entry that comes to the front leaves an exact cache that holds what
\* it held.
LEMMA PutExact ==
  ASSUME EnoughRoom, CacheWell(cache), CacheExact(cache), NEW e \in Entries, EntryExact(e)
  PROVE  /\ CacheExact(InFront(e))
         /\ Holds(InFront(e), e.query)
         /\ \A q : Holds(cache, q) => Holds(InFront(e), q)
<1> DEFINE rest == IF IsCached(e.query) THEN RemoveAt(cache, PlaceOf(e.query)) ELSE Kept
           c == InFront(e)
<1>1. rest \in Seq(Entries) /\ c = <<e>> \o rest
  BY OthersFacts DEF InFront
<1>2. /\ DOMAIN c = 1..(Len(rest) + 1) /\ Len(rest) \in Nat
      /\ c[1] = e /\ \A i \in 1..Len(rest) : i + 1 \in DOMAIN c /\ c[i + 1] = rest[i]
  <2> HIDE DEF rest, c
  <2>1. <<e>> \in Seq(Entries) /\ Len(<<e>>) = 1 /\ <<e>>[1] = e /\ Len(rest) \in Nat
    BY <1>1
  <2>2. /\ c \in Seq(Entries) /\ Len(c) = 1 + Len(rest)
        /\ \A j \in 1..(1 + Len(rest)) : c[j] = IF j <= 1 THEN <<e>>[j] ELSE rest[j - 1]
    <3> DEFINE s == <<e>>
    <3>1. s \in Seq(Entries) /\ Len(s) = 1
      BY <2>1
    <3> HIDE DEF s
    <3>2. /\ s \o rest \in Seq(Entries) /\ Len(s \o rest) = Len(s) + Len(rest)
          /\ \A j \in 1..(Len(s) + Len(rest)) :
               (s \o rest)[j] = IF j <= Len(s) THEN s[j] ELSE rest[j - Len(s)]
      BY <1>1, <3>1, ConcatFacts
    <3>3. c = s \o rest
      BY <1>1 DEF s
    <3>4. /\ c \in Seq(Entries) /\ Len(c) = 1 + Len(rest)
          /\ \A j \in 1..(1 + Len(rest)) : c[j] = IF j <= 1 THEN s[j] ELSE rest[j - 1]
      BY ONLY <3>1, <3>2, <3>3
    <3> QED BY <3>4 DEF s
  <2>3. DOMAIN c = 1..(Len(rest) + 1) /\ c[1] = e
    BY <2>1, <2>2
  <2>4. ASSUME NEW i \in 1..Len(rest) PROVE i + 1 \in DOMAIN c /\ c[i + 1] = rest[i]
    <3>1. i + 1 \in 1..(1 + Len(rest)) /\ ~ (i + 1 <= 1) /\ (i + 1) - 1 = i
      BY <2>1
    <3> QED BY <2>2, <2>3, <3>1
  <2> QED BY <2>1, <2>3, <2>4
<1>3. CacheExact(c)
  <2>1. \A i \in DOMAIN c : c[i] = e \/ c[i] \in Range(cache)
    BY InFrontFacts
  <2> HIDE DEF c, rest
  <2> QED BY <2>1 DEF CacheExact, Range
<1>4. Holds(c, e.query)
  <2>1. 1 \in DOMAIN c
    BY <1>2
  <2> HIDE DEF c, rest
  <2> QED BY <1>2, <2>1 DEF Holds
<1>5. ASSUME NEW q, Holds(cache, q), q # e.query PROVE Holds(c, q)
  <2>1. PICK j \in DOMAIN cache : cache[j].query = q
    BY <1>5 DEF Holds
  <2>2. cache \in Seq(Entries) /\ DOMAIN cache = 1..Len(cache) /\ Len(cache) \in Nat
    BY DEF CacheWell
  <2>3. \E i \in 1..Len(rest) : rest[i] = cache[j]
    <3>1. CASE IsCached(e.query)
      <4> DEFINE p == PlaceOf(e.query)
      <4>1. p \in DOMAIN cache /\ cache[p].query = e.query /\ p # j
        BY <1>5, <2>1, <3>1, PlaceFacts
      <4>2. rest = RemoveAt(cache, p)
        BY <3>1
      <4> HIDE DEF p, rest, c
      <4>3. /\ Len(rest) = Len(cache) - 1
            /\ \A i \in 1..(Len(cache) - 1) : rest[i] = IF i < p THEN cache[i] ELSE cache[i + 1]
        BY <2>2, <4>1, <4>2, RemoveAtFacts, Zenon
      <4>4. CASE j < p
        BY <2>2, <4>1, <4>3, <4>4
      <4>5. CASE j > p
        <5>1. j - 1 \in 1..Len(rest) /\ ~ (j - 1 < p) /\ (j - 1) + 1 = j
          BY <2>2, <4>1, <4>3, <4>5
        <5> QED BY <4>3, <5>1
      <4> QED BY <2>2, <4>1, <4>4, <4>5
    <3>2. CASE ~ IsCached(e.query)
      <4>1. rest = cache
        BY <3>2, NothingIsPushedOut DEF EntryExact
      <4> HIDE DEF rest
      <4> QED BY <2>2, <4>1
    <3> QED BY <3>1, <3>2
  <2> HIDE DEF rest, c
  <2>4. PICK i \in 1..Len(rest) : rest[i] = cache[j]
    BY <2>3
  <2>5. i + 1 \in DOMAIN c /\ c[i + 1].query = q
    BY <1>2, <2>1, <2>4
  <2> QED BY <2>5 DEF Holds
<1> QED BY <1>3, <1>4, <1>5

\* The three kinds of results.
LEMMA KindsSay ==
  ASSUME NEW q, NEW i
  PROVE  /\ NotExist(i).kind = "not exist" /\ (IsFalse(q, i) => Says(q, NotExist(i)))
         /\ ~ (i < Count(q)) => Says(q, NotExist(i))
         /\ Miss(i, 1).kind = "miss" /\ (i < Count(q) => Says(q, Miss(i, 1)))
         /\ Hit(i, 1).kind = "hit" /\ (i < Count(q) /\ ~ IsFalse(q, i) => Says(q, Hit(i, 1)))
         /\ NotExist(i).version = Nothing /\ Hit(i, 1).version = 1
<1>1. NotExist(i).kind = "not exist" /\ NotExist(i).index = i
  BY DEF NotExist
<1>2. Miss(i, 1).kind = "miss" /\ Miss(i, 1).index = i /\ Miss(i, 1).version = 1
  BY DEF Miss
<1>3. Hit(i, 1).kind = "hit" /\ Hit(i, 1).index = i /\ Hit(i, 1).version = 1
  BY DEF Hit
<1>8. NotExist(i).version = Nothing
  BY DEF NotExist
<1> DEFINE a == NotExist(i)
           b == Miss(i, 1)
           c == Hit(i, 1)
<1> HIDE DEF a, b, c
<1>4. /\ a.kind = "not exist" /\ a.index = i
      /\ b.kind = "miss" /\ b.index = i /\ b.version = 1
      /\ c.kind = "hit" /\ c.index = i /\ c.version = 1
  BY <1>1, <1>2, <1>3 DEF a, b, c
<1>5. (IsFalse(q, i) => Says(q, a)) /\ (~ (i < Count(q)) => Says(q, a))
  BY <1>4 DEF Says
<1>6. i < Count(q) => Says(q, b)
  BY <1>4 DEF Says
<1>7. i < Count(q) /\ ~ IsFalse(q, i) => Says(q, c)
  BY <1>4 DEF Says
<1> QED BY <1>4, <1>5, <1>6, <1>7, <1>8 DEF a, b, c

\* find reads off an exact entry what is so, and the conversion makes it definite.
LEMMA LookupSays ==
  ASSUME NEW e \in Entries, EntryExact(e), NEW i \in Nat
  PROVE  Says(e.query, Lookup(e, i))
<1>1. Count(e.query) \in Nat
  <2>1. e.query \in Queries /\ 1 \in 1..MaxVersion
    BY ServerAssumption DEF Entries
  <2> QED BY <2>1, ServerAssumption DEF Count
<1>2. CASE i >= e.raw.count
  <2>1. Lookup(e, i) = NotExist(i)
    BY <1>2, Zenon DEF Lookup
  <2>2. ~ (i < Count(e.query))
    BY <1>1, <1>2 DEF EntryExact
  <2> QED BY <2>1, <2>2, KindsSay
<1>3. CASE ~ (i >= e.raw.count)
  <2>1. i < Count(e.query)
    BY <1>1, <1>3 DEF EntryExact
  <2>2. CASE i \notin DOMAIN e.converted
    <3>1. Lookup(e, i) = Miss(i, 1)
      <4>1. Lookup(e, i) = Miss(i, e.raw.version)
        BY <1>3, <2>2, Zenon DEF Lookup
      <4> QED BY <4>1 DEF EntryExact
    <3> QED BY <2>1, <3>1, KindsSay
  <2>3. CASE i \in DOMAIN e.converted
    <3>1. e.converted[i] = IF IsFalse(e.query, i) THEN Nothing ELSE 1
      BY <2>3 DEF EntryExact
    <3>2. CASE IsFalse(e.query, i)
      <4>1. e.converted[i] = Nothing
        BY <3>1, <3>2
      <4>2. Lookup(e, i) = NotExist(i)
        BY <1>3, <2>3, <4>1, Zenon DEF Lookup
      <4> QED BY <3>2, <4>2, KindsSay
    <3>3. CASE ~ IsFalse(e.query, i)
      <4>1. e.converted[i] = 1 /\ e.converted[i] # Nothing
        BY <3>1, <3>3 DEF Nothing
      <4>2. Lookup(e, i) = Hit(i, e.converted[i])
        BY <1>3, <2>3, <4>1, Zenon DEF Lookup
      <4> QED BY <2>1, <3>3, <4>1, <4>2, KindsSay
    <3> QED BY <3>2, <3>3
  <2> QED BY <2>2, <2>3
<1> QED BY <1>2, <1>3

LEMMA ConvertedSays ==
  ASSUME NEW q, NEW m \in Results, Says(q, m)
  PROVE  /\ Says(q, Converted(q, m)) /\ Converted(q, m).kind # "miss"
         /\ m.kind = "miss" => Converted(q, m).version = IF IsFalse(q, m.index) THEN Nothing ELSE 1
<1>1. CASE m.kind # "miss"
  BY <1>1 DEF Converted
<1>2. CASE m.kind = "miss"
  <2>1. m.version = 1 /\ m.index < Count(q)
    BY <1>2 DEF Says
  <2>2. CASE IsFalse(q, m.index)
    <3>1. <<q, m.version, m.index>> \in FalsePositives
      BY <2>1, <2>2 DEF IsFalse
    <3>2. Converted(q, m) = NotExist(m.index)
      BY <1>2, <3>1, Zenon DEF Converted
    <3>3. /\ Says(q, Converted(q, m)) /\ Converted(q, m).kind = "not exist"
          /\ Converted(q, m).version = Nothing
      BY <2>2, <3>2, KindsSay
    <3> QED BY <2>2, <3>3
  <2>3. CASE ~ IsFalse(q, m.index)
    <3>1. <<q, m.version, m.index>> \notin FalsePositives
      BY <2>1, <2>3 DEF IsFalse
    <3>2. Converted(q, m) = Hit(m.index, m.version)
      BY <1>2, <3>1, Zenon DEF Converted
    <3>3. Converted(q, m) = Hit(m.index, 1)
      BY <2>1, <3>2
    <3>4. /\ Says(q, Converted(q, m)) /\ Converted(q, m).kind = "hit"
          /\ Converted(q, m).version = 1
      BY <2>1, <2>3, <3>3, KindsSay
    <3> QED BY <2>3, <3>4
  <2> QED BY <2>2, <2>3
<1> QED BY <1>1, <1>2

\* A true page without misses has the hits it should have.
LEMMA ExactPageIsAnswer ==
  ASSUME NEW h \in Requests, PageExact(h), \A k \in DOMAIN h.results : h.results[k].kind # "miss"
  PROVE  HitIndexes(h) = TrueHits(h)
<1> DEFINE a == First(h)
           n == h.size
<1>1. a \in Nat /\ n \in Nat /\ \A k : Index(h, k) = a + k - 1
  BY PageFacts DEF Requests, Index
<1>2. \A k \in DOMAIN h.results : h.results[k] \in Results
  BY MapsElement DEF Requests
<1>3. \A k \in DOMAIN h.results :
        k \in 1..n /\ h.results[k].index = a + k - 1 /\ Says(h.query, h.results[k])
  BY <1>1 DEF PageExact
<1>4. \A i : i \in TrueHits(h) <=> i \in a..(a + n - 1) /\ i < Count(h.query) /\ ~ IsFalse(h.query, i)
  BY DEF PageExact, TrueHits, Count, IsFalse
<1>5. \A k \in 1..n : a + k - 1 < Count(h.query) => k \in DOMAIN h.results
  BY <1>1 DEF PageExact
<1> HIDE DEF a, n
<1>6. ASSUME NEW k \in DOMAIN h.results, h.results[k].kind = "hit"
      PROVE  h.results[k].index \in TrueHits(h)
  <2>1. k \in 1..n /\ h.results[k].index = a + k - 1
    BY <1>3
  <2>2. h.results[k].index \in a..(a + n - 1)
    BY <1>1, <2>1
  <2>3. h.results[k].index < Count(h.query) /\ ~ IsFalse(h.query, h.results[k].index)
    BY <1>3, <1>6 DEF Says
  <2> QED BY <1>4, <2>2, <2>3
<1>7. ASSUME NEW i \in TrueHits(h)
      PROVE  \E k \in DOMAIN h.results : h.results[k].kind = "hit" /\ h.results[k].index = i
  <2> DEFINE k == i - a + 1
  <2>1. i \in a..(a + n - 1) /\ i < Count(h.query) /\ ~ IsFalse(h.query, i)
    BY <1>4
  <2>2. k \in 1..n /\ a + k - 1 = i
    BY <1>1, <2>1
  <2> HIDE DEF k
  <2>3. k \in DOMAIN h.results /\ h.results[k].index = i
    BY <1>3, <1>5, <2>1, <2>2
  <2>4. h.results[k].kind # "not exist" /\ h.results[k].kind # "miss"
    BY <1>3, <2>1, <2>3 DEF Says
  <2>5. h.results[k].kind = "hit"
    BY <1>2, <2>3, <2>4 DEF Results
  <2> QED BY <2>3, <2>5
<1>8. HitIndexes(h) \subseteq TrueHits(h)
  BY <1>6 DEF HitIndexes
<1>9. TrueHits(h) \subseteq HitIndexes(h)
  BY <1>7 DEF HitIndexes
<1> QED BY <1>8, <1>9

-----------------------------------------------------------------------------
(* Each step keeps pages and entries exact.                                *)

\* One handler changes, and the cache holds what it held.
LEMMA OneExact ==
  ASSUME Shape, Exact, NEW r \in Handlers, NEW new,
         handlers' = [handlers EXCEPT ![r] = new], UNCHANGED <<versions, signals, worker>>,
         HandlerExact(new, cache'), CacheExact(cache'), \A q : Holds(cache, q) => Holds(cache', q)
  PROVE  Exact'
<1>1. handlers'[r] = new /\ \A u \in Handlers : u # r => handlers'[u] = handlers[u]
  BY DEF Shape
<1>2. \A u \in Handlers : HandlerExact(handlers'[u], cache')
  <2> SUFFICES ASSUME NEW u \in Handlers, u # r PROVE HandlerExact(handlers'[u], cache')
    BY <1>1
  <2>1. HandlerExact(handlers[u], cache) /\ handlers'[u] = handlers[u]
    BY <1>1 DEF Exact
  <2> QED BY <2>1 DEF HandlerExact
<1>3. Quiet'
  BY DEF Exact, Quiet
<1> QED BY <1>2, <1>3 DEF Exact

\* What a reading handler has to go by.
LEMMA Holding ==
  ASSUME Shape, Exact, NEW r \in Handlers
  PROVE  /\ handlers[r] \in Requests /\ handlers[r].query \in Queries /\ version = 1
         /\ handlers[r].pc \in Reading => handlers[r].guard = 1
         /\ handlers[r].size \in Nat
         /\ CacheWell(cache) /\ CacheExact(cache) /\ HandlerExact(handlers[r], cache)
<1>1. version = 1
  BY DEF Exact, Quiet, version, Last
<1>2. handlers[r] \in Requests /\ HandlerWell(handlers[r], version)
  BY DEF Shape
<1> QED BY <1>1, <1>2 DEF Shape, Exact, HandlerWell, Requests

LEMMA ArriveExact ==
  ASSUME Shape, Exact, NEW r \in Handlers, Arrive(r)
  PROVE  Exact'
<1>1. PICK q \in Queries, page \in Pages, size \in PageSizes :
        handlers' = [handlers EXCEPT ![r] = Fresh("waiting", q, page, size)]
  BY DEF Arrive
<1> DEFINE new == Fresh("waiting", q, page, size)
<1>2. new.pc = "waiting"
  BY DEF Fresh
<1>3. UNCHANGED <<versions, signals, worker, cache>> /\ handlers' = [handlers EXCEPT ![r] = new]
  BY <1>1 DEF Arrive
<1> HIDE DEF new
<1>4. HandlerExact(new, cache') /\ CacheExact(cache')
  BY <1>2, <1>3 DEF HandlerExact, Exact
<1> QED BY <1>3, <1>4, OneExact

LEMMA AcquireReadExact ==
  ASSUME Shape, Exact, NEW r \in Handlers, AcquireRead(r)
  PROVE  Exact'
<1> DEFINE new == [[handlers[r] EXCEPT !.pc = "holding"] EXCEPT !.guard = version]
<1>1. /\ UNCHANGED <<versions, signals, worker, cache>>
      /\ handlers' = [handlers EXCEPT ![r] = new]
  BY DEF AcquireRead, Shape
<1>2. new.pc = "holding"
  BY Holding DEF Requests
<1> HIDE DEF new
<1>3. HandlerExact(new, cache') /\ CacheExact(cache')
  BY <1>1, <1>2 DEF HandlerExact, Exact
<1> QED BY <1>1, <1>3, OneExact

LEMMA FindExact ==
  ASSUME EnoughRoom, Shape, Exact, NEW r \in Handlers, Find(r)
  PROVE  Exact'
<1> DEFINE h == handlers[r]
           q == h.query
<1>1. /\ h \in Requests /\ h.size \in Nat /\ h.pc = "holding" /\ h.guard = 1
      /\ CacheWell(cache) /\ CacheExact(cache)
      /\ UNCHANGED <<versions, signals, worker>>
  BY Holding DEF Find, Reading
<1>2. CASE IsCached(q)
  <2> DEFINE e == cache[PlaceOf(q)]
             found == [k \in 1..h.size |-> Lookup(e, Index(h, k))]
             new == [[h EXCEPT !.pc = "converting"] EXCEPT !.results = found]
  <2>1. cache' = InFront(e) /\ handlers' = [handlers EXCEPT ![r] = new]
    BY <1>2 DEF Find, Shape
  <2>2. e \in Entries /\ e.query = q /\ EntryExact(e)
    BY <1>1, <1>2, PlaceFacts DEF CacheExact
  <2> HIDE DEF e
  <2>3. \A k \in 1..h.size : /\ found[k].index = Index(h, k)
                             /\ Says(q, found[k])
    <3> SUFFICES ASSUME NEW k \in 1..h.size
                 PROVE  found[k].index = Index(h, k) /\ Says(q, found[k])
      OBVIOUS
    <3>1. Index(h, k) \in Nat /\ found[k] = Lookup(e, Index(h, k))
      BY <1>1, PageFacts
    <3> QED BY <2>2, <3>1, LookupFacts, LookupSays
  <2>4. DOMAIN found = 1..h.size
    OBVIOUS
  <2> HIDE DEF found
  <2>5. /\ new.pc = "converting" /\ new.results = found /\ new.guard = 1 /\ new.query = q
        /\ new.page = h.page /\ new.size = h.size
    BY <1>1 DEF Requests
  <2>6. \A k : Index(new, k) = Index(h, k)
    BY <2>5 DEF Index, First
  <2> HIDE DEF new, h
  <2>7. PageExact(new)
    BY <2>3, <2>4, <2>5, <2>6 DEF PageExact
  <2>8. /\ CacheExact(cache') /\ Holds(cache', q)
        /\ \A x : Holds(cache, x) => Holds(cache', x)
    BY <1>1, <2>1, <2>2, PutExact
  <2>9. HandlerExact(new, cache')
    BY <2>2, <2>5, <2>7, <2>8 DEF HandlerExact, EntryExact
  <2> QED BY <1>1, <2>1, <2>8, <2>9, OneExact
<1>3. CASE ~ IsCached(q)
  <2> DEFINE new == [h EXCEPT !.pc = "searching"]
  <2>1. cache' = cache /\ handlers' = [handlers EXCEPT ![r] = new]
    BY <1>3 DEF Find, Shape
  <2>2. new.pc = "searching"
    BY <1>1 DEF Requests
  <2> HIDE DEF new
  <2>3. HandlerExact(new, cache')
    BY <2>2 DEF HandlerExact
  <2> QED BY <1>1, <2>1, <2>3, OneExact
<1> QED BY <1>2, <1>3

LEMMA SearchExact ==
  ASSUME EnoughRoom, Shape, Exact, NEW r \in Handlers, Search(r)
  PROVE  Exact'
<1> DEFINE h == handlers[r]
           q == h.query
           n == RawCount[q][version]
<1>1. /\ h \in Requests /\ q \in Queries /\ h.size \in Nat /\ h.pc = "searching" /\ h.guard = 1
      /\ CacheWell(cache) /\ CacheExact(cache) /\ version = 1
      /\ UNCHANGED <<versions, signals, worker>>
  BY Holding DEF Search, Reading
<1>2. n = Count(q) /\ Count(q) \in Nat
  BY <1>1, ServerAssumption DEF Count
<1>3. CASE q \in Rejected
  <2> DEFINE new == [h EXCEPT !.pc = "failed"]
  <2>1. cache' = cache /\ handlers' = [handlers EXCEPT ![r] = new]
    BY <1>3 DEF Search, Shape
  <2>2. new.pc = "failed"
    BY <1>1 DEF Requests
  <2> HIDE DEF new
  <2>3. HandlerExact(new, cache')
    BY <2>2 DEF HandlerExact
  <2> QED BY <1>1, <2>1, <2>3, OneExact
<1>4. CASE q \notin Rejected
  <2> DEFINE page == {j \in 1..h.size : Index(h, j) < n}
             found == [k \in page |-> Miss(Index(h, k), version)]
             new == [[h EXCEPT !.pc = "converting"] EXCEPT !.results = found]
             old == EntryOrDefault(q)
             e == [old EXCEPT !.raw = [version |-> version, count |-> n]]
  <2>1. handlers' = [handlers EXCEPT ![r] = new] /\ cache' = InFront(e)
    BY <1>4 DEF Search, Shape, PutRaw
  <2>2. /\ old \in Entries /\ old.query = q
        /\ \A i \in DOMAIN old.converted : old.converted[i] = IF IsFalse(q, i) THEN Nothing ELSE 1
    <3>1. /\ old \in Entries /\ old.query = q
          /\ old \in Range(cache) \/ DOMAIN old.converted = {}
      BY <1>1, EntryFacts
    <3>2. old \in Range(cache) => EntryExact(old)
      BY <1>1 DEF CacheExact, Range
    <3> HIDE DEF old
    <3> QED BY <3>1, <3>2 DEF EntryExact
  <2> HIDE DEF old
  <2>3. /\ e \in Entries /\ e.query = q /\ e.converted = old.converted
        /\ e.raw.version = 1 /\ e.raw.count = Count(q)
    BY <1>1, <1>2, <2>2 DEF Entries
  <2> HIDE DEF e
  <2>4. EntryExact(e)
    BY <1>4, <2>2, <2>3 DEF EntryExact
  <2>5. /\ DOMAIN found = page
        /\ \A k \in page : found[k].index = Index(h, k) /\ Says(q, found[k])
    BY <1>1, <1>2 DEF Miss, Says
  <2>6. \A k \in 1..h.size : Index(h, k) < Count(q) => k \in page
    BY <1>2
  <2>7. page \subseteq 1..h.size
    OBVIOUS
  <2> HIDE DEF found, page
  <2>8. /\ new.pc = "converting" /\ new.results = found /\ new.guard = 1 /\ new.query = q
        /\ new.page = h.page /\ new.size = h.size
    BY <1>1 DEF Requests
  <2>9. \A k : Index(new, k) = Index(h, k)
    BY <2>8 DEF Index, First
  <2> HIDE DEF new, h
  <2>10. PageExact(new)
    BY <2>5, <2>6, <2>7, <2>8, <2>9 DEF PageExact
  <2>11. /\ CacheExact(cache') /\ Holds(cache', q)
         /\ \A x : Holds(cache, x) => Holds(cache', x)
    BY <1>1, <2>1, <2>3, <2>4, PutExact
  <2>12. HandlerExact(new, cache')
    BY <1>4, <2>8, <2>10, <2>11 DEF HandlerExact
  <2> QED BY <1>1, <2>1, <2>11, <2>12, OneExact
<1> QED BY <1>3, <1>4

LEMMA ConvertExact ==
  ASSUME EnoughRoom, Shape, Exact, NEW r \in Handlers, Convert(r)
  PROVE  Exact'
<1> DEFINE h == handlers[r]
           q == h.query
           misses == {k \in DOMAIN h.results : h.results[k].kind = "miss"}
           results == [k \in DOMAIN h.results |-> Converted(q, h.results[k])]
           indexes == {h.results[k].index : k \in misses}
           new == [i \in indexes |-> results[i - First(h) + 1].version]
           answer == [[h EXCEPT !.pc = "answered"] EXCEPT !.results = results]
           failure == [h EXCEPT !.pc = "failed"]
<1>1. /\ h \in Requests /\ q \in Queries /\ h.size \in Nat /\ h.pc = "converting" /\ h.guard = 1
      /\ CacheWell(cache) /\ CacheExact(cache)
      /\ q \notin Rejected /\ Holds(cache, q) /\ PageExact(h)
      /\ UNCHANGED <<versions, signals, worker>>
  BY Holding DEF Convert, Reading, HandlerExact
<1>2. /\ cache' \in {cache, PutConverted(q, new)}
      /\ \/ handlers' = [handlers EXCEPT ![r] = answer]
         \/ handlers' = [handlers EXCEPT ![r] = failure]
  BY DEF Convert, Shape
<1>3. \A k \in DOMAIN h.results :
        /\ h.results[k] \in Results /\ Says(q, h.results[k])
        /\ k \in 1..h.size /\ h.results[k].index = Index(h, k)
  BY <1>1, MapsElement DEF Requests, PageExact
<1>4. /\ DOMAIN results = DOMAIN h.results
      /\ \A k \in DOMAIN results :
           /\ results[k].index = Index(h, k) /\ Says(q, results[k]) /\ results[k].kind # "miss"
           /\ k \in misses =>
                results[k].version = IF IsFalse(q, h.results[k].index) THEN Nothing ELSE 1
  BY <1>3, ConvertedFacts, ConvertedSays
<1> HIDE DEF results
<1>5. /\ DOMAIN new = indexes
      /\ \A i \in indexes : i \in Nat /\ new[i] = IF IsFalse(q, i) THEN Nothing ELSE 1
  <2> SUFFICES ASSUME NEW k \in misses
               PROVE  LET i == h.results[k].index
                      IN  i \in Nat /\ new[i] = IF IsFalse(q, i) THEN Nothing ELSE 1
    OBVIOUS
  <2> DEFINE i == h.results[k].index
  <2>1. k \in DOMAIN h.results /\ i = First(h) + k - 1 /\ k \in 1..h.size /\ i \in Nat
    BY <1>3 DEF Index, Results
  <2>2. i - First(h) + 1 = k
    BY <1>1, <2>1, PageFacts
  <2>3. new[i] = results[k].version
    BY <2>2
  <2> QED BY <1>4, <2>1, <2>3
<1> HIDE DEF new, indexes
<1>6. CacheExact(cache') /\ \A x : Holds(cache, x) => Holds(cache', x)
  <2> DEFINE old == EntryOrDefault(q)
             all == [i \in DOMAIN old.converted \cup indexes |->
                       IF i \in indexes THEN new[i] ELSE old.converted[i]]
             e == [old EXCEPT !.converted = all]
  <2>1. CASE cache' = cache
    BY <1>1, <2>1
  <2>2. CASE cache' = InFront(e)
    <3>1. IsCached(q)
      BY <1>1 DEF Holds, IsCached, Range
    <3>2. old \in Entries /\ old.query = q /\ EntryExact(old)
      BY <1>1, <3>1, PlaceFacts DEF EntryOrDefault, CacheExact
    <3>3. DOMAIN old.converted \subseteq Nat /\ \A i \in DOMAIN old.converted : old.converted[i] \in Nat
      BY <3>2, MapsElement DEF Entries
    <3>4. \A i \in DOMAIN old.converted : old.converted[i] = IF IsFalse(q, i) THEN Nothing ELSE 1
      BY <3>2 DEF EntryExact
    <3> HIDE DEF old
    <3>5. /\ DOMAIN all \subseteq Nat
          /\ \A i \in DOMAIN all : all[i] \in Nat /\ all[i] = IF IsFalse(q, i) THEN Nothing ELSE 1
      BY <1>5, <3>3, <3>4 DEF Nothing
    <3>6. all \in Maps(Nat, Nat)
      <4>1. all \in [DOMAIN all -> Nat]
        BY <3>5
      <4> HIDE DEF all
      <4> QED BY <3>5, <4>1, MapsElement
    <3> HIDE DEF all
    <3>7. e \in Entries /\ e.raw = old.raw /\ e.converted = all /\ e.query = q
      BY <3>2, <3>6 DEF Entries
    <3> HIDE DEF e
    <3>8. EntryExact(e)
      BY <3>2, <3>5, <3>7 DEF EntryExact
    <3> QED BY <1>1, <2>2, <3>7, <3>8, PutExact
  <2> QED BY <1>2, <1>5, <2>1, <2>2 DEF PutConverted
<1>7. CASE handlers' = [handlers EXCEPT ![r] = answer]
  <2>1. /\ answer.pc = "answered" /\ answer.results = results /\ answer.guard = 1
        /\ answer.query = q /\ answer.page = h.page /\ answer.size = h.size
    BY <1>1 DEF Requests
  <2>2. \A k : Index(answer, k) = Index(h, k)
    BY <2>1 DEF Index, First
  <2> HIDE DEF answer, h
  <2>3. PageExact(answer)
    BY <1>1, <1>3, <1>4, <2>1, <2>2 DEF PageExact
  <2>4. HandlerExact(answer, cache')
    BY <1>4, <2>1, <2>3 DEF HandlerExact
  <2> QED BY <1>1, <1>6, <1>7, <2>4, OneExact
<1>8. CASE handlers' = [handlers EXCEPT ![r] = failure]
  <2>1. failure.pc = "failed"
    BY <1>1 DEF Requests
  <2> HIDE DEF failure
  <2>2. HandlerExact(failure, cache')
    BY <2>1 DEF HandlerExact
  <2> QED BY <1>1, <1>6, <1>8, <2>2, OneExact
<1> QED BY <1>2, <1>7, <1>8

LEMMA StartedExact ==
  ASSUME Init
  PROVE  Exact
<1>1. versions = <<1>> /\ signals = <<>> /\ worker = "receiving" /\ cache = <<>>
  BY DEF Init
<1>2. \A r \in Handlers : handlers[r].pc = "idle"
  BY DEF Init, Fresh
<1>3. \A r \in Handlers : HandlerExact(handlers[r], cache)
  BY <1>2 DEF HandlerExact
<1>4. CacheExact(cache)
  BY <1>1 DEF CacheExact
<1> QED BY <1>1, <1>3, <1>4 DEF Exact, Quiet

LEMMA EveryExactStep ==
  ASSUME MaxSignals = 0, EnoughRoom, Shape, Exact, [Next]_vars
  PROVE  Exact'
<1>1. signals = <<>> /\ worker = "receiving" /\ Len(signals) = 0
  BY DEF Exact, Quiet
<1>2. ~ RequestReindex /\ ~ Receive /\ ~ DoIncrementalIndex /\ ~ Evict /\ ~ Report
  BY <1>1 DEF RequestReindex, Receive, DoIncrementalIndex, Evict, Report
<1>3. CASE UNCHANGED vars
  BY <1>3 DEF vars, Exact, Quiet
<1>4. CASE \E r \in Handlers : Arrive(r) \/ AcquireRead(r) \/ Find(r) \/ Search(r) \/ Convert(r)
  BY <1>4, ArriveExact, AcquireReadExact, FindExact, SearchExact, ConvertExact
<1>5. CASE Commit
  BY <1>5 DEF Commit, Exact, Quiet
<1> QED BY <1>2, <1>3, <1>4, <1>5 DEF Next

-----------------------------------------------------------------------------
(* What follows.                                                           *)

\* Every reachable state has the shape described above.
THEOREM ShapeIsKept == Spec => []Shape
BY Started, EveryStep, PTL DEF Spec

\* The lock's queue holds each waiting task once, the cache no query twice and no
\* more entries than it may, and versions only grow (search_cache.rs, indexer.rs).
THEOREM TypeCorrect == Spec => []TypeOK
<1>1. ASSUME Shape PROVE TypeOK
  <2>1. /\ head \in Nat /\ head \in 1..MaxVersion /\ VersionsWell(versions, head)
        /\ version <= head /\ version \in Nat /\ MaxVersion \in Nat
    BY <1>1, UpToDate, ServerAssumption DEF Shape
  <2>2. versions \in BoundedSeq(1..head, MaxVersion)
    <3>1. Len(versions) <= head
      BY <2>1, LastIsNewest
    <3>2. DOMAIN versions = 1..Len(versions) /\ Len(versions) \in Nat /\ versions \in [1..Len(versions) -> Nat]
      BY <2>1, LastFacts DEF VersionsWell
    <3>3. \A i \in 1..Len(versions) : versions[i] \in 1..head
      BY <2>1, <3>2 DEF VersionsWell
    <3>4. Len(versions) \in 0..MaxVersion /\ versions \in [1..Len(versions) -> 1..head]
      BY <2>1, <3>1, <3>2, <3>3
    <3> QED BY <3>4 DEF BoundedSeq, SeqOf
  <2>3. IsInjective(lock) /\ Range(lock) \subseteq Handlers \cup {Reindexer}
    BY <1>1 DEF Shape, LockWell, Tasks, Range
  <2>4. ASSUME NEW r \in Handlers
        PROVE  /\ handlers[r].pc \in Done \cup Reading \cup {"waiting"}
               /\ handlers[r].pc = "waiting" <=> r \in Range(lock)
               /\ handlers[r].guard \in Versions
    <3>1. handlers[r] \in Requests /\ handlers[r].guard <= version
      BY <1>1 DEF Shape, HandlerWell
    <3>2. handlers[r].pc \in Done \cup Reading \cup {"waiting"} /\ handlers[r].guard \in Nat
      BY <3>1 DEF Requests
    <3>3. handlers[r].guard \in Versions
      BY <2>1, <3>1, <3>2 DEF Versions
    <3> QED BY <1>1, <3>2, <3>3 DEF Shape, LockWell
  <2>5. /\ worker \in {"receiving", "locking", "evicting", "reporting"}
        /\ worker = "locking" <=> Reindexer \in Range(lock)
        /\ Len(cache) <= CacheSize
        /\ \A i, j \in DOMAIN cache : i # j => cache[i].query # cache[j].query
    BY <1>1 DEF Shape, LockWell, CacheWell
  <2> QED BY <2>1, <2>2, <2>3, <2>4, <2>5 DEF TypeOK
<1> QED BY <1>1, ShapeIsKept, PTL

\* A request looks up, searches and converts against one version of the index
\* (index_guard in api/search.rs, blocking_write in indexer.rs).
THEOREM RequestsSeeOneVersion == Spec => []OneVersionPerRequest
<1>1. Shape => OneVersionPerRequest
  BY DEF Shape, HandlerWell, OneVersionPerRequest
<1> QED BY <1>1, ShapeIsKept, PTL

\* As long as no update fails, candidates in the cache are at most one update old and
\* hits two, and one better once the eviction is over (evict_cache_after_reindex).
THEOREM CacheStaysRecent == ASSUME ~ MayFail PROVE Spec => []CacheIsRecent
<1>1. ASSUME Shape, Recent PROVE CacheIsRecent
  BY <1>1 DEF Recent, EntryRecent, CacheIsRecent, AtMost, Since, Behind, version
<1> QED BY <1>1, Started, EveryStep, PTL DEF Spec

\* As long as no update fails, a hit in an answer is at most two updates older than
\* the index its request held (put_search_results).
THEOREM AnswersStayRecent == ASSUME ~ MayFail PROVE Spec => []AnswersAreRecent
<1>1. ASSUME Shape, Recent PROVE AnswersAreRecent
  BY <1>1 DEF Recent, HandlerRecent, AnswersAreRecent, AtMost, Since, Behind
<1> QED BY <1>1, Started, EveryStep, PTL DEF Spec

\* As long as nobody asks for an update and the cache has room for every query that is
\* not refused, an answer holds the hits of its page and no others, in whatever order
\* requests for the same query fill its entry (put_raw_result, put_search_results).
THEOREM AnswersStayExact ==
  ASSUME MaxSignals = 0, EnoughRoom
  PROVE  Spec => []AnswersAreExact
<1>1. Init => Shape /\ Exact
  BY Started, StartedExact
<1>2. Shape /\ Exact /\ [Next]_vars => Shape' /\ Exact'
  BY EveryStep, EveryExactStep
<1>3. ASSUME Shape, Exact PROVE AnswersAreExact
  <2> SUFFICES ASSUME NEW r \in Handlers, handlers[r].pc = "answered"
               PROVE  HitIndexes(handlers[r]) = TrueHits(handlers[r])
    BY DEF AnswersAreExact
  <2>1. handlers[r] \in Requests /\ HandlerExact(handlers[r], cache)
    BY <1>3, Holding
  <2>2. PageExact(handlers[r]) /\ \A k \in DOMAIN handlers[r].results : handlers[r].results[k].kind # "miss"
    BY <2>1 DEF HandlerExact
  <2> QED BY <2>1, <2>2, ExactPageIsAnswer
<1> QED BY <1>1, <1>2, <1>3, PTL DEF Spec

=============================================================================
