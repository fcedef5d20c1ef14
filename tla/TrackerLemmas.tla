--------------------------- MODULE TrackerLemmas ---------------------------
(***************************************************************************)
(* Facts about the tracker's operators, for trackers of any size: an       *)
(* addition inserts, and a deletion removes, exactly the lines it names.   *)
(***************************************************************************)
EXTENDS FileDiffTracker, LineSequences, TLAPS, WellFoundedInduction

\* A non-empty set of naturals has a least element.
LEMMA LeastNatural ==
  ASSUME NEW S \in SUBSET Nat, S # {}
  PROVE  \E x \in S : \A y \in S : x <= y
<1> DEFINE R == OpToRel(<, Nat)
<1>1. IsWellFoundedOn(R, Nat)
  BY NatLessThanWellFounded
<1>2. \A x, y \in Nat : x < y => <<x, y>> \in R
  BY DEF OpToRel
<1> HIDE DEF R
<1>3. PICK x \in S : \A y \in S : ~ (<<y, x>> \in R)
  BY <1>1, WFMin
<1>4. ASSUME NEW y \in S PROVE x <= y
  <2>1. ~ (y < x)
    BY <1>2, <1>3
  <2> QED BY <2>1
<1> QED BY <1>4

\* Elements of a sequence, and a sequence made of elements.
LEMMA SeqElements ==
  ASSUME NEW S, NEW s \in Seq(S)
  PROVE  Len(s) \in Nat /\ \A j \in 1..Len(s) : s[j] \in S
OBVIOUS

LEMMA MakeSeq ==
  ASSUME NEW S, NEW n \in Nat, NEW s, s = [j \in 1..n |-> s[j]], \A j \in 1..n : s[j] \in S
  PROVE  s \in Seq(S) /\ Len(s) = n
OBVIOUS

LEMMA SeqIsFunction ==
  ASSUME NEW S, NEW s \in Seq(S)
  PROVE  s = [j \in 1..Len(s) |-> s[j]]
OBVIOUS

\* A key some lines further on is a key.
LEMMA KeyPlus ==
  ASSUME NEW C, NEW key \in KeySet(C), NEW n \in Nat
  PROVE  LineKey(key.commit, key.line + n) \in KeySet(C)
BY DEF KeySet, LineKey

\* The shape of a tracker, spelled out.
LEMMA ShapeFacts ==
  ASSUME NEW C, NEW t, TrackerShape(t, C)
  PROVE  LET end == t.commit_line_end
             idx == t.commit_indexes
             N   == ChunkCount(t)
         IN  /\ N \in Nat /\ Len(end) = N /\ Len(idx) = N
             /\ end \in Seq(Nat) /\ idx \in Seq(KeySet(C))
             /\ \A j \in 1..N : end[j] \in Nat
             /\ \A j \in 1..N : idx[j] \in KeySet(C)
             /\ \A i \in 1..N : \A j \in (i + 1)..N : end[i] < end[j]
             /\ TotalLines(t) = IF N = 0 THEN 0 ELSE end[N]
             /\ TotalLines(t) \in Nat
<1> DEFINE end == t.commit_line_end
           idx == t.commit_indexes
           N   == ChunkCount(t)
<1>1. /\ N = Len(end) /\ N = Len(idx) /\ end \in Seq(Nat) /\ idx \in Seq(KeySet(C))
      /\ \A i \in 1..N : \A j \in (i + 1)..N : end[i] < end[j]
  BY DEF TrackerShape, ChunkCount
<1>2. N \in Nat /\ (\A j \in 1..N : end[j] \in Nat) /\ (\A j \in 1..N : idx[j] \in KeySet(C))
  BY <1>1, SeqElements
<1>3. TotalLines(t) = IF N = 0 THEN 0 ELSE end[N]
  BY DEF TotalLines
<1> HIDE DEF N, end, idx
<1>4. TotalLines(t) \in Nat
  BY <1>2, <1>3
<1> QED BY <1>1, <1>2, <1>3, <1>4 DEF N, end, idx

-----------------------------------------------------------------------------
(* The chunk of a line: it exists, and it is the only one that fits.       *)

FitsChunk(t, line, k) ==
  /\ k \in 1..(ChunkCount(t) + 1)
  /\ k <= ChunkCount(t) => line < t.commit_line_end[k]
  /\ \A j \in 1..(k - 1) : t.commit_line_end[j] <= line

\* FindChunk's CHOOSE is never empty-handed: some chunk, or the place after
\* the last one, fits every line number.
LEMMA FindChunkFits ==
  ASSUME NEW C, NEW t, TrackerShape(t, C), NEW line \in Nat
  PROVE  FitsChunk(t, line, FindChunk(t, line))
<1> DEFINE end == t.commit_line_end
           N   == ChunkCount(t)
           S   == {k \in 1..N : line < end[k]}
<1>1. N \in Nat /\ end \in Seq(Nat) /\ N = Len(end) /\ \A k \in 1..N : end[k] \in Nat
  BY DEF TrackerShape, ChunkCount
<1>2. \E k \in 1..(N + 1) : FitsChunk(t, line, k)
  <2>1. CASE S = {}
    <3>1. FitsChunk(t, line, N + 1)
      BY <1>1, <2>1, SMTT(30) DEF FitsChunk
    <3> QED BY <3>1, <1>1
  <2>2. CASE S # {}
    <3>1. S \in SUBSET Nat
      BY <1>1
    <3>2. PICK k \in S : \A j \in S : k <= j
      BY <2>2, <3>1, LeastNatural
    <3>3. k \in 1..N /\ line < end[k]
      BY <3>2
    <3>4. \A j \in 1..(k - 1) : end[j] <= line
      BY <1>1, <3>2, <3>3, SMTT(30)
    <3>5. FitsChunk(t, line, k)
      BY <1>1, <3>3, <3>4 DEF FitsChunk
    <3> QED BY <1>1, <3>3, <3>5
  <2> QED BY <2>1, <2>2
<1> QED
  BY <1>2 DEF FitsChunk, FindChunk

\* Because the ends grow, a chunk that ends after the line and starts at or
\* before it is the one FindChunk returns.
LEMMA FindChunkUnique ==
  ASSUME NEW C, NEW t, TrackerShape(t, C), NEW line \in Nat,
         NEW k \in 1..(ChunkCount(t) + 1),
         k <= ChunkCount(t) => line < t.commit_line_end[k],
         k > 1 => t.commit_line_end[k - 1] <= line
  PROVE  FindChunk(t, line) = k
<1> DEFINE m   == FindChunk(t, line)
           end == t.commit_line_end
           N   == ChunkCount(t)
<1>1. N \in Nat /\ N = Len(end) /\ \A j \in 1..N : end[j] \in Nat
  BY DEF TrackerShape, ChunkCount
<1>2. \A i \in 1..N : \A j \in (i + 1)..N : end[i] < end[j]
  BY <1>1 DEF TrackerShape
<1>3. /\ m \in 1..(N + 1)
      /\ m <= N => line < end[m]
      /\ \A j \in 1..(m - 1) : end[j] <= line
  BY FindChunkFits DEF FitsChunk
<1> HIDE DEF m, N, end
<1>4. CASE m < k
  <2>1. m <= N /\ k - 1 \in 1..N /\ end[k - 1] <= line
    BY <1>1, <1>3, <1>4 DEF N, end
  <2>2. end[m] <= end[k - 1]
    BY <1>1, <1>2, <1>3, <1>4, <2>1
  <2> QED BY <1>1, <1>3, <2>1, <2>2
<1>5. CASE m > k
  <2>1. k \in 1..N /\ line < end[k]
    BY <1>1, <1>3, <1>5 DEF N, end
  <2>2. end[k] <= line
    BY <1>1, <1>3, <1>5, <2>1
  <2> QED BY <1>1, <2>1, <2>2
<1> QED BY <1>3, <1>4, <1>5 DEF m, N

-----------------------------------------------------------------------------
(***************************************************************************)
(* Every operation is a splice: the first K chunks stay, the last of them  *)
(* cut off at line `at`; then come m new chunks (0 or 1) of `add` lines;   *)
(* then the old chunks from L on, less the lines before at + del, which is *)
(* where chunk L takes over.                                               *)
(***************************************************************************)
SpliceCount(t, K, L, m) == K + m + (ChunkCount(t) - L + 1)

SpliceBounds(t, K, L, at, del) ==
  LET end == t.commit_line_end
      N   == ChunkCount(t)
  IN  /\ K \in 0..N /\ L \in 1..(N + 1)
      /\ K = 0 => at = 0
      /\ K >= 1 => at <= end[K]
      /\ K >= 2 => end[K - 1] < at
      /\ L <= N => at + del < end[L]
      /\ L >= 2 => end[L - 1] <= at + del
      /\ L = N + 1 => TotalLines(t) = at + del

SplicePoints(t, u, K, L, at, del, m, add, key) ==
  LET end == t.commit_line_end
      idx == t.commit_indexes
      e2  == u.commit_line_end
      i2  == u.commit_indexes
      N   == ChunkCount(t)
      M   == SpliceCount(t, K, L, m)
  IN  /\ e2 = [j \in 1..M |-> e2[j]] /\ i2 = [j \in 1..M |-> i2[j]]
      /\ \A j \in 1..N : j < K => e2[j] = end[j] /\ i2[j] = idx[j]
      /\ K >= 1 => e2[K] = at /\ i2[K] = idx[K]
      /\ m = 1 => e2[K + 1] = at + add /\ i2[K + 1] = key
      /\ \A l \in L..N :
           /\ e2[K + m + 1 + (l - L)] = end[l] - del + add
           /\ i2[K + m + 1 + (l - L)] =
                IF l = L THEN LineKey(idx[L].commit, idx[L].line + (at + del - ChunkStart(t, L)))
                ELSE idx[l]

IsSplice(t, u, K, L, at, del, m, add, key) ==
  SpliceBounds(t, K, L, at, del) /\ SplicePoints(t, u, K, L, at, del, m, add, key)

\* What a splice is given: a sound tracker, line counts, and a key to insert.
SpliceArguments(t, C, at, del, m, add, key) ==
  /\ TrackerShape(t, C)
  /\ at \in Nat /\ del \in Nat /\ add \in Nat
  /\ m \in {0, 1} /\ (m = 0 => add = 0) /\ (m = 1 => add > 0)
  /\ key \in KeySet(C)

\* A splice keeps the shape and accounts for every line.
LEMMA SpliceShape ==
  ASSUME NEW C, NEW t, NEW u, NEW K, NEW L, NEW at, NEW del, NEW m, NEW add, NEW key,
         SpliceArguments(t, C, at, del, m, add, key),
         IsSplice(t, u, K, L, at, del, m, add, key)
  PROVE  /\ TrackerShape(u, C)
         /\ ChunkCount(u) = SpliceCount(t, K, L, m)
         /\ TotalLines(u) = TotalLines(t) - del + add
         /\ at + del <= TotalLines(t)
<1> DEFINE end == t.commit_line_end
           idx == t.commit_indexes
           N   == Len(end)
           M   == K + m + (N - L + 1)
           e2  == u.commit_line_end
           i2  == u.commit_indexes
<1>0. /\ TrackerShape(t, C) /\ at \in Nat /\ del \in Nat /\ add \in Nat /\ m \in {0, 1}
      /\ (m = 0 => add = 0) /\ (m = 1 => add > 0)
      /\ key \in KeySet(C)
  BY DEF SpliceArguments
<1>1. /\ N \in Nat /\ Len(idx) = N
      /\ \A j \in 1..N : end[j] \in Nat
      /\ \A j \in 1..N : idx[j] \in KeySet(C)
      /\ \A i \in 1..N : \A j \in (i + 1)..N : end[i] < end[j]
  BY <1>0, SeqElements DEF TrackerShape
<1>2. /\ K \in 0..N /\ L \in 1..(N + 1)
      /\ K = 0 => at = 0
      /\ K >= 1 => at <= end[K]
      /\ K >= 2 => end[K - 1] < at
      /\ L <= N => at + del < end[L]
      /\ L >= 2 => end[L - 1] <= at + del
      /\ L = N + 1 => TotalLines(t) = at + del
  BY DEF IsSplice, SpliceBounds, ChunkCount
<1>3. /\ M = K + m + (N - L + 1)
      /\ TotalLines(t) = IF N = 0 THEN 0 ELSE end[N]
      /\ TotalLines(u) = IF Len(e2) = 0 THEN 0 ELSE e2[Len(e2)]
      /\ \A k : ChunkStart(t, k) = IF k = 1 THEN 0 ELSE end[k - 1]
      /\ M = SpliceCount(t, K, L, m)
  BY DEF TotalLines, ChunkCount, ChunkStart, SpliceCount
<1>4. /\ e2 = [j \in 1..M |-> e2[j]] /\ i2 = [j \in 1..M |-> i2[j]]
      /\ \A j \in 1..N : j < K => e2[j] = end[j] /\ i2[j] = idx[j]
      /\ K >= 1 => e2[K] = at /\ i2[K] = idx[K]
      /\ m = 1 => e2[K + 1] = at + add /\ i2[K + 1] = key
      /\ \A l \in L..N :
           /\ e2[K + m + 1 + (l - L)] = end[l] - del + add
           /\ i2[K + m + 1 + (l - L)] =
                IF l = L THEN LineKey(idx[L].commit, idx[L].line + (at + del - ChunkStart(t, L)))
                ELSE idx[l]
  BY DEF IsSplice, SplicePoints, ChunkCount, SpliceCount
<1> HIDE DEF end, idx, N, M, e2, i2
<1> DEFINE Moved(l) == K + m + 1 + (l - L)
<1>5. M \in Nat /\ K \in Int /\ L \in Int /\ m \in Int
  BY <1>0, <1>1, <1>2, <1>3
<1>6. \A j \in 1..M : j < K => j \in 1..N /\ e2[j] = end[j] /\ i2[j] = idx[j] /\ end[j] < at
  <2> SUFFICES ASSUME NEW j \in 1..M, j < K
               PROVE j \in 1..N /\ e2[j] = end[j] /\ i2[j] = idx[j] /\ end[j] < at
    OBVIOUS
  <2>1. j \in 1..N
    BY <1>1, <1>2, <1>5
  <2>2. K >= 2 /\ K - 1 \in 1..N /\ end[j] <= end[K - 1]
    BY <1>1, <1>2, <2>1
  <2>3. end[j] < at
    BY <1>0, <1>1, <1>2, <2>1, <2>2, SMTT(30)
  <2> QED BY <1>4, <2>1, <2>3
<1>7. K >= 1 => K \in 1..M /\ e2[K] = at /\ i2[K] = idx[K]
  BY <1>0, <1>1, <1>2, <1>3, <1>4, <1>5, SMTT(30)
<1>8. m = 1 => K + 1 \in 1..M /\ e2[K + 1] = at + add /\ i2[K + 1] = key
  BY <1>0, <1>1, <1>2, <1>3, <1>4, <1>5, SMTT(30)
<1>9. ASSUME NEW l \in L..N
      PROVE  /\ Moved(l) \in 1..M /\ e2[Moved(l)] = end[l] - del + add
             /\ at + del < end[l]
             /\ i2[Moved(l)] \in KeySet(C)
  <2>1. l \in 1..N /\ l \in Int /\ Moved(l) \in 1..M
    BY <1>0, <1>1, <1>2, <1>3, <1>5
  <2>2. /\ e2[Moved(l)] = end[l] - del + add
        /\ i2[Moved(l)] =
             IF l = L THEN LineKey(idx[L].commit, idx[L].line + (at + del - ChunkStart(t, L)))
             ELSE idx[l]
    BY <1>4
  <2> HIDE DEF Moved
  <2>3. at + del < end[l]
    <3>1. end[L] <= end[l]
      BY <1>1, <1>2, <1>5, <2>1
    <3> QED BY <1>0, <1>1, <1>2, <1>5, <2>1, <3>1, SMTT(30)
  <2>4. CASE l = L
    <3>1. at + del - ChunkStart(t, L) \in Nat
      <4>1. ChunkStart(t, L) = IF L = 1 THEN 0 ELSE end[L - 1]
        BY <1>3
      <4>2. L >= 2 => L - 1 \in 1..N /\ end[L - 1] \in Nat
        BY <1>1, <1>2, <1>5
      <4> QED BY <1>0, <1>2, <1>5, <4>1, <4>2
    <3>2. idx[L] \in KeySet(C)
      BY <1>1, <2>1, <2>4
    <3> QED BY <2>1, <2>2, <2>3, <2>4, <3>1, <3>2, KeyPlus
  <2>5. CASE l # L
    BY <1>1, <2>1, <2>2, <2>3, <2>5
  <2> QED BY <2>4, <2>5
<1>10. ASSUME NEW j \in 1..M
       PROVE  j < K \/ (K >= 1 /\ j = K) \/ (m = 1 /\ j = K + 1) \/ \E l \in L..N : j = Moved(l)
  <2>1. CASE j > K + m
    <3>1. j - K - m - 1 + L \in L..N /\ j = Moved(j - K - m - 1 + L)
      BY <1>0, <1>1, <1>3, <1>5, <2>1
    <3> QED BY <3>1
  <2>2. CASE j <= K + m
    BY <1>0, <1>5, <2>2
  <2> QED BY <1>5, <2>1, <2>2
<1> HIDE DEF Moved
<1>11. ASSUME NEW j \in 1..M
       PROVE e2[j] \in Nat /\ i2[j] \in KeySet(C)
  <2>1. CASE j < K
    BY <1>1, <1>6, <2>1
  <2>2. CASE K >= 1 /\ j = K
    BY <1>0, <1>1, <1>2, <1>7, <2>2
  <2>3. CASE m = 1 /\ j = K + 1
    BY <1>0, <1>8, <2>3
  <2>4. CASE \E l \in L..N : j = Moved(l)
    <3>1. PICK l \in L..N : j = Moved(l)
      BY <2>4
    <3>2. l \in 1..N
      BY <1>1, <1>2
    <3> QED BY <1>0, <1>1, <1>9, <3>1, <3>2, SMTT(30)
  <2> QED BY <1>10, <2>1, <2>2, <2>3, <2>4
<1>12. ASSUME NEW i \in 1..M, NEW j \in 1..M, i < j PROVE e2[i] < e2[j]
  <2>1. CASE j < K
    <3>1. i < K
      BY <1>5, <1>12, <2>1
    <3>2. i \in 1..N /\ j \in 1..N /\ e2[i] = end[i] /\ e2[j] = end[j]
      BY <1>6, <2>1, <3>1
    <3>3. j \in (i + 1)..N
      BY <1>1, <1>5, <1>12, <3>2
    <3> QED BY <1>1, <3>2, <3>3
  <2>2. CASE i < K /\ j >= K
    <3>1. e2[i] < at
      BY <1>6, <2>2
    <3>2. at <= e2[j]
      <4>1. CASE j = K
        BY <1>0, <1>5, <1>7, <2>2, <4>1
      <4>2. CASE m = 1 /\ j = K + 1
        BY <1>0, <1>8, <4>2
      <4>3. CASE \E l \in L..N : j = Moved(l)
        <5>1. PICK l \in L..N : j = Moved(l)
          BY <4>3
        <5>2. l \in 1..N
          BY <1>1, <1>2
        <5> QED BY <1>0, <1>1, <1>9, <5>1, <5>2, SMTT(30)
      <4> QED BY <1>5, <1>10, <2>2, <4>1, <4>2, <4>3
    <3>3. e2[i] \in Nat /\ e2[j] \in Nat
      BY <1>11
    <3> QED BY <1>0, <3>1, <3>2, <3>3
  <2>3. CASE K >= 1 /\ i = K
    <3>1. CASE m = 1 /\ j = K + 1
      BY <1>0, <1>7, <1>8, <2>3, <3>1
    <3>2. CASE \E l \in L..N : j = Moved(l)
      <4>1. PICK l \in L..N : j = Moved(l)
        BY <3>2
      <4>2. l \in 1..N
        BY <1>1, <1>2
      <4> QED BY <1>0, <1>1, <1>7, <1>9, <2>3, <4>1, <4>2, SMTT(30)
    <3> QED BY <1>5, <1>10, <1>12, <2>3, <3>1, <3>2
  <2>4. CASE m = 1 /\ i = K + 1
    <3>1. PICK l \in L..N : j = Moved(l)
      BY <1>5, <1>10, <1>12, <2>4
    <3>2. l \in 1..N
      BY <1>1, <1>2
    <3> QED BY <1>0, <1>1, <1>8, <1>9, <2>4, <3>1, <3>2, SMTT(30)
  <2>5. CASE \E l \in L..N : i = Moved(l)
    <3>1. PICK l \in L..N : i = Moved(l)
      BY <2>5
    <3>a. i > K + m
      BY <1>1, <1>5, <3>1 DEF Moved
    <3>2. PICK k \in L..N : j = Moved(k)
      BY <1>0, <1>5, <1>10, <1>12, <3>a
    <3>3. l \in 1..N /\ k \in 1..N /\ l < k
      BY <1>1, <1>2, <1>5, <1>12, <3>1, <3>2 DEF Moved
    <3>4. end[l] < end[k]
      BY <1>1, <3>3
    <3>5. e2[i] = end[l] - del + add
      BY <1>9, <3>1
    <3>6. e2[j] = end[k] - del + add
      BY <1>9, <3>2
    <3> QED BY <1>0, <1>1, <3>3, <3>4, <3>5, <3>6, SMTT(30)
  <2> QED BY <1>5, <1>10, <2>1, <2>2, <2>3, <2>4, <2>5
<1>13. Len(e2) = M /\ Len(i2) = M /\ e2 \in Seq(Nat) /\ i2 \in Seq(KeySet(C))
  <2>1. e2 = [j \in 1..M |-> e2[j]] /\ i2 = [j \in 1..M |-> i2[j]]
    BY <1>4
  <2> QED BY <1>5, <1>11, <2>1, MakeSeq
<1>14. TrackerShape(u, C)
  <2>1. \A i \in 1..M : \A j \in (i + 1)..M : e2[i] < e2[j]
    BY <1>5, <1>12
  <2> QED BY <1>13, <2>1 DEF TrackerShape, e2, i2
<1>15. TotalLines(u) = TotalLines(t) - del + add /\ at + del <= TotalLines(t)
  <2>1. CASE L <= N
    <3>1. N \in L..N /\ M = Moved(N) /\ M > 0 /\ N > 0
      BY <1>0, <1>1, <1>2, <1>3, <1>5, <2>1 DEF Moved
    <3>2. e2[M] = end[N] - del + add /\ at + del < end[N]
      BY <1>9, <3>1
    <3> QED BY <1>0, <1>1, <1>3, <1>13, <3>1, <3>2, SMTT(30)
  <2>2. CASE L = N + 1
    <3>1. M = K + m /\ TotalLines(t) = at + del
      BY <1>0, <1>1, <1>2, <1>3, <1>5, <2>2
    <3>2. TotalLines(u) = at + add
      <4>1. CASE m = 1
        BY <1>0, <1>3, <1>5, <1>8, <1>13, <3>1, <4>1
      <4>2. CASE m = 0 /\ K = 0
        BY <1>0, <1>2, <1>3, <1>5, <1>13, <3>1, <4>2
      <4>3. CASE m = 0 /\ K >= 1
        BY <1>0, <1>3, <1>5, <1>7, <1>13, <3>1, <4>3
      <4> QED BY <1>0, <1>1, <1>2, <4>1, <4>2, <4>3
    <3> QED BY <1>0, <3>1, <3>2
  <2> QED BY <1>1, <1>2, <2>1, <2>2
<1> QED
  BY <1>3, <1>13, <1>14, <1>15 DEF ChunkCount, e2

\* The key of a line, once its chunk is known.
LEMMA KeyInChunk ==
  ASSUME NEW C, NEW t, TrackerShape(t, C), NEW line \in Nat, NEW k \in 1..ChunkCount(t),
         line < t.commit_line_end[k], ChunkStart(t, k) <= line
  PROVE  /\ FindChunk(t, line) = k
         /\ KeyAt(t, line) = LineKey(t.commit_indexes[k].commit,
                                     t.commit_indexes[k].line + line - ChunkStart(t, k))
<1>1. ChunkCount(t) \in Nat
  BY DEF TrackerShape, ChunkCount
<1>2. k > 1 => t.commit_line_end[k - 1] <= line
  BY <1>1 DEF ChunkStart
<1>3. FindChunk(t, line) = k
  BY <1>1, <1>2, FindChunkUnique
<1> QED BY <1>3 DEF KeyAt

\* And its chunk is known: every line of the file is in one.
LEMMA ChunkOfLine ==
  ASSUME NEW C, NEW t, TrackerShape(t, C), NEW line \in Nat, line < TotalLines(t)
  PROVE  LET k == FindChunk(t, line)
         IN  /\ k \in 1..ChunkCount(t)
             /\ line < t.commit_line_end[k]
             /\ ChunkStart(t, k) <= line
             /\ ChunkStart(t, k) \in Nat
             /\ t.commit_line_end[k] \in Nat
             /\ t.commit_indexes[k] \in KeySet(C)
<1> DEFINE k == FindChunk(t, line)
           N == ChunkCount(t)
<1>1. /\ N \in Nat /\ N = Len(t.commit_line_end)
      /\ \A j \in 1..N : t.commit_line_end[j] \in Nat
      /\ \A j \in 1..N : t.commit_indexes[j] \in KeySet(C)
  BY SeqElements DEF TrackerShape, ChunkCount
<1>2. /\ k \in 1..(N + 1)
      /\ k <= N => line < t.commit_line_end[k]
      /\ \A j \in 1..(k - 1) : t.commit_line_end[j] <= line
  BY FindChunkFits DEF FitsChunk
<1>3. TotalLines(t) = IF N = 0 THEN 0 ELSE t.commit_line_end[N]
  BY DEF TotalLines
<1>4. ChunkStart(t, k) = IF k = 1 THEN 0 ELSE t.commit_line_end[k - 1]
  BY DEF ChunkStart
<1> HIDE DEF k, N
<1>5. k # N + 1
  BY <1>1, <1>2, <1>3
<1>6. k \in 1..N
  BY <1>1, <1>2, <1>5
<1>7. ChunkStart(t, k) \in Nat /\ ChunkStart(t, k) <= line
  BY <1>1, <1>2, <1>4, <1>6
<1> QED BY <1>1, <1>2, <1>6, <1>7 DEF k, N

\* Line by line, a splice inserts `add` keys at `at` and drops the `del` there.
LEMMA SpliceKeys ==
  ASSUME NEW C, NEW t, NEW u, NEW K, NEW L, NEW at, NEW del, NEW m, NEW add, NEW key,
         SpliceArguments(t, C, at, del, m, add, key),
         IsSplice(t, u, K, L, at, del, m, add, key),
         NEW i \in Nat, i < TotalLines(u)
  PROVE  KeyAt(u, i) = IF i < at THEN KeyAt(t, i)
                       ELSE IF i < at + add THEN LineKey(key.commit, key.line + i - at)
                       ELSE KeyAt(t, i - add + del)
<1> DEFINE end == t.commit_line_end
           idx == t.commit_indexes
           e2  == u.commit_line_end
           i2  == u.commit_indexes
           N   == ChunkCount(t)
           M   == ChunkCount(u)
<1>0. /\ TrackerShape(t, C) /\ at \in Nat /\ del \in Nat /\ add \in Nat /\ m \in {0, 1}
      /\ (m = 0 => add = 0) /\ (m = 1 => add > 0)
  BY DEF SpliceArguments
<1>1. /\ N \in Nat
      /\ \A j \in 1..N : end[j] \in Nat /\ idx[j] \in KeySet(C)
      /\ \A a \in 1..N : \A b \in (a + 1)..N : end[a] < end[b]
      /\ TotalLines(t) \in Nat
  BY <1>0, ShapeFacts
<1>2. /\ K \in 0..N /\ L \in 1..(N + 1) /\ K \in Int /\ L \in Int /\ m \in Int
      /\ K = 0 => at = 0
      /\ K >= 1 => at <= end[K]
      /\ L >= 2 => end[L - 1] <= at + del
  BY <1>0, <1>1 DEF IsSplice, SpliceBounds
<1>3. /\ TrackerShape(u, C)
      /\ TotalLines(u) = TotalLines(t) - del + add
      /\ at + del <= TotalLines(t)
      /\ M = SpliceCount(t, K, L, m)
  BY SpliceShape
<1>4. /\ M \in Nat /\ M = K + m + (N - L + 1)
      /\ \A j \in 1..M : e2[j] \in Nat
  BY <1>3, ShapeFacts DEF SpliceCount
<1>5. /\ \A j \in 1..N : j < K => e2[j] = end[j] /\ i2[j] = idx[j]
      /\ K >= 1 => e2[K] = at /\ i2[K] = idx[K]
      /\ m = 1 => e2[K + 1] = at + add /\ i2[K + 1] = key
      /\ \A l \in L..N :
           /\ e2[K + m + 1 + (l - L)] = end[l] - del + add
           /\ i2[K + m + 1 + (l - L)] =
                IF l = L THEN LineKey(idx[L].commit, idx[L].line + (at + del - ChunkStart(t, L)))
                ELSE idx[l]
  BY DEF IsSplice, SplicePoints
<1>7. /\ \A k : ChunkStart(t, k) = IF k = 1 THEN 0 ELSE end[k - 1]
      /\ \A k : ChunkStart(u, k) = IF k = 1 THEN 0 ELSE e2[k - 1]
  BY DEF ChunkStart
<1> HIDE DEF end, idx, e2, i2, N, M
<1>8. CASE i < at
  <2> DEFINE k == FindChunk(t, i)
  <2>1. /\ k \in 1..N /\ i < end[k] /\ ChunkStart(t, k) <= i
        /\ KeyAt(t, i) = LineKey(idx[k].commit, idx[k].line + i - ChunkStart(t, k))
    BY <1>0, <1>1, <1>3, <1>8, ChunkOfLine DEF KeyAt, N, end, idx
  <2> HIDE DEF k
  <2>2. K >= 1 /\ k <= K
    <3>1. K >= 1
      BY <1>0, <1>2, <1>8
    <3>2. k > K => end[K] <= end[k - 1] /\ ChunkStart(t, k) = end[k - 1] /\ end[k - 1] \in Nat
      BY <1>1, <1>2, <1>7, <2>1, <3>1
    <3> QED BY <1>0, <1>1, <1>2, <1>8, <2>1, <3>1, <3>2
  <2>3. k \in 1..M /\ i2[k] = idx[k] /\ i < e2[k]
    BY <1>0, <1>1, <1>2, <1>4, <1>5, <1>8, <2>1, <2>2
  <2>4. ChunkStart(u, k) = ChunkStart(t, k)
    <3>1. k > 1 => k - 1 \in 1..N /\ k - 1 < K
      BY <1>1, <1>2, <2>1, <2>2
    <3>2. k > 1 => e2[k - 1] = end[k - 1]
      BY <1>5, <3>1
    <3> QED BY <1>7, <2>1, <3>2
  <2>5. KeyAt(u, i) = LineKey(i2[k].commit, i2[k].line + i - ChunkStart(u, k))
    BY <1>3, <2>1, <2>3, <2>4, KeyInChunk DEF M, e2, i2
  <2> QED BY <1>8, <2>1, <2>3, <2>4, <2>5
<1>9. CASE ~ (i < at) /\ i < at + add
  <2>1. m = 1 /\ K + 1 \in 1..M /\ e2[K + 1] = at + add /\ i2[K + 1] = key
    BY <1>0, <1>1, <1>2, <1>4, <1>5, <1>9
  <2>2. ChunkStart(u, K + 1) = at
    BY <1>2, <1>5, <1>7
  <2>3. KeyAt(u, i) = LineKey(key.commit, key.line + i - ChunkStart(u, K + 1))
    BY <1>0, <1>3, <1>9, <2>1, <2>2, KeyInChunk DEF M, e2, i2
  <2> QED BY <1>9, <2>2, <2>3
<1>10. CASE ~ (i < at) /\ ~ (i < at + add)
  <2> DEFINE o == i - add + del
             l == FindChunk(t, o)
             j == K + m + 1 + (l - L)
  <2>0. o \in Nat /\ o < TotalLines(t) /\ at + del <= o /\ i = o - del + add
    BY <1>0, <1>1, <1>3, <1>10
  <2> HIDE DEF o
  <2>1. /\ l \in 1..N /\ o < end[l] /\ ChunkStart(t, l) <= o /\ ChunkStart(t, l) \in Nat
        /\ idx[l] \in KeySet(C)
        /\ KeyAt(t, o) = LineKey(idx[l].commit, idx[l].line + o - ChunkStart(t, l))
    BY <1>0, <2>0, ChunkOfLine DEF KeyAt, N, end, idx
  <2> HIDE DEF l
  <2>2. l \in L..N
    <3>1. l < L => end[l] <= end[L - 1] /\ end[L - 1] \in Nat
      BY <1>1, <1>2, <2>1
    <3> QED BY <1>0, <1>1, <1>2, <2>0, <2>1, <3>1
  <2>3. j \in 1..M /\ e2[j] = end[l] - del + add
    BY <1>0, <1>1, <1>2, <1>4, <1>5, <2>2
  <2>4. l # L => ChunkStart(u, j) = ChunkStart(t, l) - del + add /\ i2[j] = idx[l]
    <3>1. ASSUME l # L PROVE l - 1 \in L..N /\ j - 1 = K + m + 1 + ((l - 1) - L) /\ j # 1 /\ l # 1
      BY <1>1, <1>2, <1>0, <2>2, <3>1
    <3>2. l # L => e2[j - 1] = end[l - 1] - del + add
      BY <1>5, <3>1
    <3>3. l # L => i2[j] = idx[l]
      BY <1>5, <2>2
    <3> HIDE DEF j
    <3> QED BY <1>7, <3>1, <3>2, <3>3
  <2>5. l = L => ChunkStart(u, j) = at + add
    <3>1. l = L => j = K + m + 1
      BY <1>2
    <3> HIDE DEF j
    <3>2. CASE m = 1
      BY <1>2, <1>5, <1>7, <3>1, <3>2
    <3>3. CASE m = 0
      BY <1>0, <1>2, <1>5, <1>7, <3>1, <3>3
    <3> QED BY <1>0, <3>2, <3>3
  <2>6. l = L => i2[j] = LineKey(idx[l].commit, idx[l].line + (at + del - ChunkStart(t, l)))
    BY <1>5, <2>2
  <2> HIDE DEF j
  <2>7. i < e2[j] /\ ChunkStart(u, j) <= i
    BY <1>0, <1>1, <2>0, <2>1, <2>3, <2>4, <2>5, <1>10
  <2>8. KeyAt(u, i) = LineKey(i2[j].commit, i2[j].line + i - ChunkStart(u, j))
    BY <1>3, <2>3, <2>7, KeyInChunk DEF M, e2, i2
  <2>9. idx[l].line \in Nat
    BY <2>1 DEF KeySet
  <2>10. i2[j].commit = idx[l].commit /\ i2[j].line + i - ChunkStart(u, j) = idx[l].line + o - ChunkStart(t, l)
    <3>1. CASE l = L
      <4>1. i2[j].commit = idx[l].commit
             /\ i2[j].line = idx[l].line + (at + del - ChunkStart(t, l))
        BY <2>6, <3>1 DEF LineKey
      <4> QED BY <1>0, <2>0, <2>1, <2>5, <2>9, <3>1, <4>1
    <3>2. CASE l # L
      BY <1>0, <2>0, <2>1, <2>4, <2>9, <3>2
    <3> QED BY <3>1, <3>2
  <2> QED BY <1>10, <2>1, <2>8, <2>10 DEF o
<1> QED BY <1>8, <1>9, <1>10

-----------------------------------------------------------------------------
(* add_lines and delete_lines are splices.                                 *)

\* Adding no lines further on leaves a key as it is.
LEMMA KeyPlusZero ==
  ASSUME NEW C, NEW key \in KeySet(C)
  PROVE  LineKey(key.commit, key.line + 0) = key
BY DEF KeySet, LineKey

LEMMA AppendIsSplice ==
  ASSUME NEW C, NEW t, TrackerShape(t, C), NEW n \in Nat, n > 0, NEW key \in KeySet(C)
  PROVE  IsSplice(t, AppendChunk(t, n, key), ChunkCount(t), ChunkCount(t) + 1, TotalLines(t), 0, 1, n, key)
<1> DEFINE end == t.commit_line_end
           idx == t.commit_indexes
           N   == ChunkCount(t)
           at  == TotalLines(t)
           u   == AppendChunk(t, n, key)
<1>1. /\ N \in Nat /\ Len(end) = N /\ Len(idx) = N
      /\ end \in Seq(Nat) /\ idx \in Seq(KeySet(C))
      /\ \A j \in 1..N : end[j] \in Nat
      /\ \A i \in 1..N : \A j \in (i + 1)..N : end[i] < end[j]
      /\ at = IF N = 0 THEN 0 ELSE end[N]
      /\ at \in Nat
  BY ShapeFacts
<1>2. SpliceCount(t, N, N + 1, 1) = N + 1
  BY <1>1 DEF SpliceCount
<1>3. u.commit_line_end = Append(end, at + n) /\ u.commit_indexes = Append(idx, key)
  BY DEF AppendChunk
<1>4. SpliceBounds(t, N, N + 1, at, 0)
  <2> HIDE DEF end, N, at
  <2>1. /\ N \in 0..N /\ N + 1 \in 1..(N + 1)
        /\ N = 0 => at = 0
        /\ N >= 1 => at <= end[N]
        /\ N >= 2 => end[N - 1] < at
        /\ ~ (N + 1 <= N)
        /\ N + 1 >= 2 => end[(N + 1) - 1] <= at + 0
        /\ at = at + 0
    <3>1. N >= 2 => N - 1 \in 1..N /\ N \in ((N - 1) + 1)..N /\ end[N - 1] < end[N]
      BY <1>1
    <3>2. N >= 1 => at = end[N] /\ end[N] \in Nat /\ (N + 1) - 1 = N
      BY <1>1
    <3> QED BY <1>1, <3>1, <3>2
  <2> QED BY <2>1 DEF SpliceBounds, end, N, at
<1>5. SplicePoints(t, u, N, N + 1, at, 0, 1, n, key)
  <2> HIDE DEF end, idx, N, at, u
  <2>1. /\ u.commit_line_end = [j \in 1..(N + 1) |-> u.commit_line_end[j]]
        /\ u.commit_indexes = [j \in 1..(N + 1) |-> u.commit_indexes[j]]
    <3>1. /\ u.commit_line_end \in Seq(Nat) /\ Len(u.commit_line_end) = N + 1
          /\ u.commit_indexes \in Seq(KeySet(C)) /\ Len(u.commit_indexes) = N + 1
      BY <1>1, <1>3
    <3> QED BY <3>1, SeqIsFunction
  <2>2. /\ \A j \in 1..N : u.commit_line_end[j] = end[j] /\ u.commit_indexes[j] = idx[j]
        /\ u.commit_line_end[N + 1] = at + n /\ u.commit_indexes[N + 1] = key
    BY <1>1, <1>3
  <2>3. (N + 1)..N = {} /\ (N >= 1 => N \in 1..N /\ at = end[N])
    BY <1>1
  <2> QED BY <1>2, <2>1, <2>2, <2>3 DEF SplicePoints, end, idx, N
<1> QED BY <1>4, <1>5 DEF IsSplice

LEMMA InsertIsSplice ==
  ASSUME NEW C, NEW t, TrackerShape(t, C), NEW n \in Nat, n > 0, NEW key \in KeySet(C),
         NEW k \in 1..ChunkCount(t), ChunkStart(t, k) < t.commit_line_end[k]
  PROVE  IsSplice(t, InsertChunk(t, k, n, key), k - 1, k, ChunkStart(t, k), 0, 1, n, key)
<1> DEFINE end == t.commit_line_end
           idx == t.commit_indexes
           N   == ChunkCount(t)
           at  == ChunkStart(t, k)
           u   == InsertChunk(t, k, n, key)
<1>1. /\ N \in Nat /\ k \in 1..N
      /\ \A j \in 1..N : end[j] \in Nat
      /\ \A j \in 1..N : idx[j] \in KeySet(C)
      /\ \A i \in 1..N : \A j \in (i + 1)..N : end[i] < end[j]
  BY ShapeFacts
<1>2. at = (IF k = 1 THEN 0 ELSE end[k - 1]) /\ at \in Nat
  BY <1>1 DEF ChunkStart
<1>3. SpliceCount(t, k - 1, k, 1) = N + 1
  BY <1>1 DEF SpliceCount
<1>4. /\ u.commit_line_end = [j \in 1..(N + 1) |->
            IF j < k THEN end[j] ELSE IF j = k THEN at + n ELSE end[j - 1] + n]
      /\ u.commit_indexes = [j \in 1..(N + 1) |->
            IF j < k THEN idx[j] ELSE IF j = k THEN key ELSE idx[j - 1]]
  BY DEF InsertChunk
<1>5. SpliceBounds(t, k - 1, k, at, 0)
  <2> HIDE DEF end, N, at
  <2>1. k >= 2 => k - 1 \in 1..N /\ end[k - 1] < end[k] /\ end[k - 1] \in Nat
    BY <1>1
  <2>2. k >= 3 => end[k - 1 - 1] < end[k - 1]
    BY <1>1
  <2>3. at < end[k]
    BY DEF at, end
  <2> QED BY <1>1, <1>2, <2>1, <2>2, <2>3 DEF SpliceBounds, end, N
<1>6. SplicePoints(t, u, k - 1, k, at, 0, 1, n, key)
  <2> HIDE DEF end, idx, N, at, u
  <2>1. /\ u.commit_line_end = [j \in 1..(N + 1) |-> u.commit_line_end[j]]
        /\ u.commit_indexes = [j \in 1..(N + 1) |-> u.commit_indexes[j]]
    BY <1>4
  <2>2. \A j \in 1..N : j < k => u.commit_line_end[j] = end[j] /\ u.commit_indexes[j] = idx[j]
    BY <1>1, <1>4
  <2>3. u.commit_line_end[k] = at + n /\ u.commit_indexes[k] = key
    BY <1>1, <1>4
  <2>4. ASSUME NEW l \in k..N
        PROVE  /\ u.commit_line_end[k - 1 + 1 + 1 + (l - k)] = end[l] - 0 + n
               /\ u.commit_indexes[k - 1 + 1 + 1 + (l - k)] = idx[l]
    <3>1. k - 1 + 1 + 1 + (l - k) = l + 1 /\ l + 1 \in 1..(N + 1) /\ l + 1 - 1 = l /\ l + 1 > k
      BY <1>1
    <3>2. u.commit_line_end[l + 1] = end[l] + n /\ u.commit_indexes[l + 1] = idx[l]
      BY <1>1, <1>4, <3>1
    <3>3. end[l] + n = end[l] - 0 + n
      BY <1>1
    <3> QED BY <3>1, <3>2, <3>3
  <2>5. LineKey(idx[k].commit, idx[k].line + (at + 0 - at)) = idx[k]
    <3>1. at + 0 - at = 0
      BY <1>2
    <3> QED BY <1>1, <3>1, KeyPlusZero
  <2>6. k >= 2 => at = end[k - 1] /\ k - 1 \in 1..N
    BY <1>1, <1>2
  <2>7. /\ \A j \in 1..N : j < k - 1 => u.commit_line_end[j] = end[j] /\ u.commit_indexes[j] = idx[j]
        /\ k - 1 >= 1 => u.commit_line_end[k - 1] = at /\ u.commit_indexes[k - 1] = idx[k - 1]
        /\ u.commit_line_end[k - 1 + 1] = at + n /\ u.commit_indexes[k - 1 + 1] = key
    BY <1>1, <2>2, <2>3, <2>6
  <2>8. \A l \in k..N :
           /\ u.commit_line_end[k - 1 + 1 + 1 + (l - k)] = end[l] - 0 + n
           /\ u.commit_indexes[k - 1 + 1 + 1 + (l - k)] =
                IF l = k THEN LineKey(idx[k].commit, idx[k].line + (at + 0 - ChunkStart(t, k)))
                ELSE idx[l]
    BY <2>4, <2>5 DEF at
  <2> QED BY <1>3, <2>1, <2>7, <2>8 DEF SplicePoints, end, idx, N
<1> QED BY <1>5, <1>6 DEF IsSplice

LEMMA SplitIsSplice ==
  ASSUME NEW C, NEW t, TrackerShape(t, C), NEW n \in Nat, n > 0, NEW key \in KeySet(C),
         NEW k \in 1..ChunkCount(t), NEW at \in Nat,
         ChunkStart(t, k) < at, at < t.commit_line_end[k]
  PROVE  IsSplice(t, SplitChunk(t, k, at, n, key), k, k, at, 0, 1, n, key)
<1> DEFINE end == t.commit_line_end
           idx == t.commit_indexes
           N   == ChunkCount(t)
           u   == SplitChunk(t, k, at, n, key)
           start == ChunkStart(t, k)
<1>1. /\ N \in Nat /\ k \in 1..N
      /\ \A j \in 1..N : end[j] \in Nat
      /\ \A i \in 1..N : \A j \in (i + 1)..N : end[i] < end[j]
  BY ShapeFacts
<1>2. start = (IF k = 1 THEN 0 ELSE end[k - 1]) /\ start \in Nat
  BY <1>1 DEF ChunkStart
<1>3. SpliceCount(t, k, k, 1) = N + 2
  BY <1>1 DEF SpliceCount
<1>4. /\ u.commit_line_end = [j \in 1..(N + 2) |->
            IF j < k THEN end[j] ELSE IF j = k THEN at ELSE IF j = k + 1 THEN at + n
            ELSE end[j - 2] + n]
      /\ u.commit_indexes = [j \in 1..(N + 2) |->
            IF j <= k THEN idx[j] ELSE IF j = k + 1 THEN key
            ELSE IF j = k + 2 THEN LineKey(idx[k].commit, idx[k].line + (at - start))
            ELSE idx[j - 2]]
  BY DEF SplitChunk
<1>5. start < at /\ at < end[k]
  OBVIOUS
<1> HIDE DEF end, idx, N, u, start
<1>6. SpliceBounds(t, k, k, at, 0)
  <2>1. k >= 2 => end[k - 1] < at /\ end[k - 1] \in Nat
    BY <1>1, <1>2, <1>5
  <2>2. at <= end[k] /\ at + 0 < end[k] /\ (k >= 2 => end[k - 1] <= at + 0)
    BY <1>1, <1>5, <2>1
  <2>3. k \in 0..N /\ k \in 1..(N + 1) /\ k # 0 /\ k # N + 1
    BY <1>1
  <2> QED BY <2>1, <2>2, <2>3 DEF SpliceBounds, end, N
<1>7. SplicePoints(t, u, k, k, at, 0, 1, n, key)
  <2>1. /\ u.commit_line_end = [j \in 1..(N + 2) |-> u.commit_line_end[j]]
        /\ u.commit_indexes = [j \in 1..(N + 2) |-> u.commit_indexes[j]]
    BY <1>4
  <2>2. /\ \A j \in 1..N : j < k => u.commit_line_end[j] = end[j] /\ u.commit_indexes[j] = idx[j]
        /\ u.commit_line_end[k] = at /\ u.commit_indexes[k] = idx[k]
        /\ u.commit_line_end[k + 1] = at + n /\ u.commit_indexes[k + 1] = key
    <3>1. k \in 1..(N + 2) /\ k + 1 \in 1..(N + 2) /\ ~ (k < k) /\ ~ (k + 1 < k)
          /\ ~ (k + 1 <= k) /\ k <= k /\ k + 1 # k
      BY <1>1
    <3>2. /\ u.commit_line_end[k] = at /\ u.commit_indexes[k] = idx[k]
          /\ u.commit_line_end[k + 1] = at + n /\ u.commit_indexes[k + 1] = key
      BY <1>4, <3>1
    <3>3. ASSUME NEW j \in 1..N, j < k
          PROVE  u.commit_line_end[j] = end[j] /\ u.commit_indexes[j] = idx[j]
      <4>1. j \in 1..(N + 2) /\ j <= k
        BY <1>1, <3>3
      <4> QED BY <1>4, <3>3, <4>1
    <3> QED BY <3>2, <3>3
  <2>3. ASSUME NEW l \in k..N
        PROVE  /\ u.commit_line_end[k + 1 + 1 + (l - k)] = end[l] - 0 + n
               /\ u.commit_indexes[k + 1 + 1 + (l - k)] =
                    IF l = k THEN LineKey(idx[k].commit, idx[k].line + (at + 0 - start))
                    ELSE idx[l]
    <3>1. /\ k + 1 + 1 + (l - k) = l + 2 /\ l + 2 \in 1..(N + 2) /\ l + 2 - 2 = l /\ l + 2 > k + 1
          /\ (l + 2 = k + 2 <=> l = k) /\ at + 0 - start = at - start
      BY <1>1, <1>2
    <3>2. /\ u.commit_line_end[l + 2] = end[l] + n
          /\ u.commit_indexes[l + 2] =
               IF l + 2 = k + 2 THEN LineKey(idx[k].commit, idx[k].line + (at - start))
               ELSE idx[l]
      BY <1>1, <1>4, <3>1
    <3>3. end[l] + n = end[l] - 0 + n
      BY <1>1
    <3> QED BY <3>1, <3>2, <3>3
  <2> QED BY <1>3, <2>1, <2>2, <2>3 DEF SplicePoints, end, idx, N, start
<1> QED BY <1>6, <1>7 DEF IsSplice, u

\* add_lines inserts, at its place, the keys of the lines it adds.
LEMMA AddIsSplice ==
  ASSUME NEW C, NEW t, TrackerShape(t, C), NEW at \in 0..TotalLines(t),
         NEW n \in Nat, n > 0, NEW key \in KeySet(C)
  PROVE  \E K, L : IsSplice(t, AddLines(t, at, n, key), K, L, at, 0, 1, n, key)
<1> DEFINE k == FindChunk(t, at)
           N == ChunkCount(t)
<1>1. /\ N \in Nat /\ at \in Nat
      /\ TotalLines(t) = IF N = 0 THEN 0 ELSE t.commit_line_end[N]
      /\ TotalLines(t) \in Nat
      /\ \A j \in 1..N : t.commit_line_end[j] \in Nat
  BY ShapeFacts
<1>2. /\ k \in 1..(N + 1)
      /\ k <= N => at < t.commit_line_end[k]
      /\ \A j \in 1..(k - 1) : t.commit_line_end[j] <= at
  BY <1>1, FindChunkFits DEF FitsChunk
<1>3. ChunkStart(t, k) = IF k = 1 THEN 0 ELSE t.commit_line_end[k - 1]
  BY DEF ChunkStart
<1>4. CASE k > N
  <2>1. AddLines(t, at, n, key) = AppendChunk(t, n, key)
    BY <1>4 DEF AddLines
  <2> HIDE DEF k, N
  <2>2. at = TotalLines(t)
    BY <1>1, <1>2, <1>4
  <2> QED BY <2>1, <2>2, AppendIsSplice
<1>5. CASE k <= N /\ ChunkStart(t, k) = at
  <2>1. AddLines(t, at, n, key) = InsertChunk(t, k, n, key)
    BY <1>1, <1>2, <1>5 DEF AddLines
  <2>2. k \in 1..N /\ ChunkStart(t, k) < t.commit_line_end[k]
    BY <1>1, <1>2, <1>5
  <2> HIDE DEF k
  <2> QED BY <1>5, <2>1, <2>2, InsertIsSplice
<1>6. CASE k <= N /\ ChunkStart(t, k) # at
  <2>1. AddLines(t, at, n, key) = SplitChunk(t, k, at, n, key)
    BY <1>1, <1>2, <1>6 DEF AddLines
  <2>2. k \in 1..N /\ at < t.commit_line_end[k]
    BY <1>1, <1>2, <1>6
  <2> HIDE DEF k
  <2>3. ChunkStart(t, k) < at
    BY <1>1, <1>2, <1>3, <1>6
  <2> QED BY <1>1, <2>1, <2>2, <2>3, SplitIsSplice
<1> QED BY <1>1, <1>2, <1>4, <1>5, <1>6

LEMMA CutIsSplice ==
  ASSUME NEW C, NEW t, TrackerShape(t, C), NEW key \in KeySet(C),
         NEW k \in 1..ChunkCount(t), NEW from \in Nat, NEW n \in Nat, n > 0,
         ChunkStart(t, k) < from, from + n < t.commit_line_end[k]
  PROVE  IsSplice(t, CutChunk(t, k, from, n), k, k, from, n, 0, 0, key)
<1> DEFINE end == t.commit_line_end
           idx == t.commit_indexes
           N   == ChunkCount(t)
           u   == CutChunk(t, k, from, n)
           start == ChunkStart(t, k)
<1>1. /\ N \in Nat /\ k \in 1..N
      /\ \A j \in 1..N : end[j] \in Nat
      /\ \A i \in 1..N : \A j \in (i + 1)..N : end[i] < end[j]
      /\ \A j \in 1..N : idx[j] \in KeySet(C)
  BY ShapeFacts
<1>2. start = (IF k = 1 THEN 0 ELSE end[k - 1]) /\ start \in Nat
  BY <1>1 DEF ChunkStart
<1>3. SpliceCount(t, k, k, 0) = N + 1
  BY <1>1 DEF SpliceCount
<1>4. /\ u.commit_line_end = [j \in 1..(N + 1) |->
            IF j < k THEN end[j] ELSE IF j = k THEN from ELSE SaturatingSub(end[j - 1], n)]
      /\ u.commit_indexes = [j \in 1..(N + 1) |->
            IF j <= k THEN idx[j]
            ELSE IF j = k + 1 THEN LineKey(idx[k].commit, idx[k].line + from + n - start)
            ELSE idx[j - 1]]
  BY DEF CutChunk
<1>5. start < from /\ from + n < end[k]
  OBVIOUS
<1> HIDE DEF end, idx, N, u, start
<1>6. SpliceBounds(t, k, k, from, n)
  <2>1. k >= 2 => end[k - 1] < from /\ end[k - 1] \in Nat
    BY <1>1, <1>2, <1>5
  <2>2. from <= end[k] /\ (k >= 2 => end[k - 1] <= from + n)
    BY <1>1, <1>5, <2>1
  <2>3. k \in 0..N /\ k \in 1..(N + 1) /\ k # 0 /\ k # N + 1
    BY <1>1
  <2> QED BY <1>5, <2>1, <2>2, <2>3 DEF SpliceBounds, end, N
<1>7. SplicePoints(t, u, k, k, from, n, 0, 0, key)
  <2>1. /\ u.commit_line_end = [j \in 1..(N + 1) |-> u.commit_line_end[j]]
        /\ u.commit_indexes = [j \in 1..(N + 1) |-> u.commit_indexes[j]]
    BY <1>4
  <2>2. /\ \A j \in 1..N : j < k => u.commit_line_end[j] = end[j] /\ u.commit_indexes[j] = idx[j]
        /\ u.commit_line_end[k] = from /\ u.commit_indexes[k] = idx[k]
    <3>1. k \in 1..(N + 1) /\ ~ (k < k) /\ k <= k
      BY <1>1
    <3>2. u.commit_line_end[k] = from /\ u.commit_indexes[k] = idx[k]
      BY <1>4, <3>1
    <3>3. ASSUME NEW j \in 1..N, j < k
          PROVE  u.commit_line_end[j] = end[j] /\ u.commit_indexes[j] = idx[j]
      <4>1. j \in 1..(N + 1) /\ j <= k
        BY <1>1, <3>3
      <4> QED BY <1>4, <3>3, <4>1
    <3> QED BY <3>2, <3>3
  <2>3. ASSUME NEW l \in k..N
        PROVE  /\ u.commit_line_end[k + 0 + 1 + (l - k)] = end[l] - n + 0
               /\ u.commit_indexes[k + 0 + 1 + (l - k)] =
                    IF l = k THEN LineKey(idx[k].commit, idx[k].line + (from + n - start))
                    ELSE idx[l]
    <3>1. /\ k + 0 + 1 + (l - k) = l + 1 /\ l + 1 \in 1..(N + 1) /\ l + 1 - 1 = l /\ l + 1 > k
          /\ (l + 1 = k + 1 <=> l = k)
      BY <1>1
    <3>2. /\ u.commit_line_end[l + 1] = SaturatingSub(end[l], n)
          /\ u.commit_indexes[l + 1] =
               IF l + 1 = k + 1 THEN LineKey(idx[k].commit, idx[k].line + from + n - start)
               ELSE idx[l]
      <4>1. ~ (l + 1 < k) /\ l + 1 # k /\ ~ (l + 1 <= k)
        BY <1>1, <3>1
      <4>2. u.commit_line_end[l + 1] = SaturatingSub(end[l], n)
        BY <1>4, <3>1, <4>1
      <4>3. u.commit_indexes[l + 1] =
              IF l + 1 = k + 1 THEN LineKey(idx[k].commit, idx[k].line + from + n - start)
              ELSE idx[l]
        BY <1>4, <3>1, <4>1
      <4> QED BY <4>2, <4>3
    <3>3. SaturatingSub(end[l], n) = end[l] - n + 0
      <4>1. l \in 1..N /\ end[k] <= end[l]
        BY <1>1
      <4> QED BY <1>1, <1>5, <4>1 DEF SaturatingSub
    <3>4. idx[k].line + from + n - start = idx[k].line + (from + n - start)
      <4>1. idx[k].line \in Nat
        BY <1>1 DEF KeySet
      <4> QED BY <1>2, <4>1
    <3> QED BY <3>1, <3>2, <3>3, <3>4
  <2>4. \A l \in k..N :
           /\ u.commit_line_end[k + 0 + 1 + (l - k)] = end[l] - n + 0
           /\ u.commit_indexes[k + 0 + 1 + (l - k)] =
                IF l = k THEN LineKey(idx[k].commit, idx[k].line + (from + n - start))
                ELSE idx[l]
    BY <2>3
  <2>5. /\ k >= 1 => u.commit_line_end[k] = from /\ u.commit_indexes[k] = idx[k]
        /\ 0 = 1 => u.commit_line_end[k + 1] = from + 0 /\ u.commit_indexes[k + 1] = key
    BY <2>2
  <2> QED BY <1>3, <2>1, <2>2, <2>4, <2>5 DEF SplicePoints, end, idx, N, start
<1> QED BY <1>6, <1>7 DEF IsSplice, u

LEMMA ShrinkIsSplice ==
  ASSUME NEW C, NEW t, TrackerShape(t, C), NEW key \in KeySet(C),
         NEW from \in Nat, NEW n \in Nat, n > 0, from + n <= TotalLines(t),
         ~ StrictlyInside(t, from, n)
  PROVE  LET f == FindChunk(t, from)
             l == FindChunk(t, from + n - 1)
         IN  \E K, L : IsSplice(t, ShrinkChunks(t, f, l, from, n), K, L, from, n, 0, 0, key)
<1> DEFINE end == t.commit_line_end
           idx == t.commit_indexes
           N   == ChunkCount(t)
           f   == FindChunk(t, from)
           l   == FindChunk(t, from + n - 1)
           u   == ShrinkChunks(t, f, l, from, n)
           startF == ChunkStart(t, f)
           startL == ChunkStart(t, l)
           dropFirst == end[f] - startF <= n /\ startF = from
           dropLast  == end[l] = from + n
           purgeFrom == IF dropFirst THEN f ELSE f + 1
           purgeTo   == IF dropLast THEN l ELSE SaturatingSub(l - 1, 1) + 1
           fromFirst == (IF end[f] < from + n THEN end[f] ELSE from + n) - from
           shrunk == [j \in 1..N |->
                       IF j < f THEN end[j]
                       ELSE IF j = f THEN end[j] - fromFirst
                       ELSE SaturatingSub(end[j], n)]
           moved  == [j \in 1..N |->
                       IF j = l /\ startL >= from
                         THEN LineKey(idx[j].commit, idx[j].line + (from + n - startL))
                         ELSE idx[j]]
           K == IF startF = from THEN f - 1 ELSE f
           L == IF dropLast THEN l + 1 ELSE l
<1>1. /\ N \in Nat
      /\ \A j \in 1..N : end[j] \in Nat
      /\ \A i \in 1..N : \A j \in (i + 1)..N : end[i] < end[j]
      /\ \A j \in 1..N : idx[j] \in KeySet(C)
      /\ TotalLines(t) = IF N = 0 THEN 0 ELSE end[N]
  BY ShapeFacts
<1>2. /\ f \in 1..N /\ from < end[f] /\ startF <= from /\ startF \in Nat
      /\ startF = IF f = 1 THEN 0 ELSE end[f - 1]
  <2>1. from < TotalLines(t)
    BY <1>1
  <2> QED BY <2>1, ChunkOfLine DEF ChunkStart
<1>3. /\ l \in 1..N /\ from + n - 1 < end[l] /\ startL <= from + n - 1 /\ startL \in Nat
      /\ startL = IF l = 1 THEN 0 ELSE end[l - 1]
  <2>1. from + n - 1 < TotalLines(t) /\ from + n - 1 \in Nat
    BY <1>1
  <2> QED BY <2>1, ChunkOfLine DEF ChunkStart
<1>4. f = l => startF = from \/ end[f] <= from + n
  BY <1>1, <1>2 DEF StrictlyInside
<1>5. /\ u.commit_line_end = Drain(shrunk, purgeFrom, purgeTo)
      /\ u.commit_indexes = Drain(moved, purgeFrom, purgeTo)
  BY DEF ShrinkChunks
<1>6. \A k : ChunkStart(t, k) = IF k = 1 THEN 0 ELSE end[k - 1]
  BY DEF ChunkStart
<1>6a. startL = ChunkStart(t, l)
  OBVIOUS
<1> HIDE DEF end, idx, N, f, l, u, startF, startL
<1>7. f <= l
  <2>1. l < f => end[l] <= end[f - 1] /\ f # 1 /\ end[f - 1] \in Nat
    BY <1>1, <1>2, <1>3
  <2> QED BY <1>1, <1>2, <1>3, <2>1
<1>8. f < l => end[f] <= startL
  BY <1>1, <1>2, <1>3
<1>9. /\ end[f] \in Nat /\ end[l] \in Nat
      /\ (f = l => end[f] = end[l] /\ startF = startL)
  BY <1>1, <1>2, <1>3, <1>6, <1>6a
\* The chunks that go are those between the first K and the last N - L + 1.
<1>10. /\ (startF = from /\ K = f - 1) \/ (startF # from /\ K = f)
       /\ (end[l] = from + n /\ L = l + 1) \/ (end[l] > from + n /\ L = l)
  BY <1>1, <1>3, <1>9
<1>11. /\ K \in 0..N /\ L \in (K + 1)..(N + 1)
       /\ \A s : Drain(s, purgeFrom, purgeTo) = Drain(s, K + 1, L - 1)
  <2>1. CASE startF = from /\ end[f] > from + n
    <3>1. f = l /\ ~ dropLast /\ ~ dropFirst
      BY <1>1, <1>2, <1>3, <1>7, <1>8, <1>9, <2>1
    <3>2. K = f - 1 /\ L = f /\ purgeFrom = f + 1 /\ purgeTo = SaturatingSub(l - 1, 1) + 1
      BY <2>1, <3>1
    <3>3. purgeTo < purgeFrom
      BY <1>2, <1>3, <3>1, <3>2 DEF SaturatingSub
    <3>4. K \in 0..N /\ L \in (K + 1)..(N + 1) /\ L - 1 < K + 1
      BY <1>1, <1>2, <3>2
    <3> HIDE DEF K, L, purgeFrom, purgeTo, shrunk, moved
    <3>5. \A s : Drain(s, purgeFrom, purgeTo) = Drain(s, K + 1, L - 1)
      BY <3>3, <3>4 DEF Drain
    <3> QED BY <3>4, <3>5
  <2>2. CASE ~ (startF = from /\ end[f] > from + n)
    <3>1. purgeFrom = K + 1
      <4>1. CASE startF = from
        <5>1. dropFirst
          BY <1>2, <1>9, <2>2, <4>1
        <5> QED BY <1>2, <4>1, <5>1
      <4>2. CASE startF # from
        BY <4>2
      <4> QED BY <4>1, <4>2
    <3>2. f = l => dropLast
      BY <1>2, <1>3, <1>4, <1>9, <2>2
    <3>3. purgeTo = L - 1
      <4>1. CASE dropLast
        BY <1>3, <4>1
      <4>2. CASE ~ dropLast
        <5>1. l >= 2
          BY <1>2, <1>3, <1>7, <3>2, <4>2
        <5>2. SaturatingSub(l - 1, 1) + 1 = l - 1
          BY <1>3, <5>1 DEF SaturatingSub
        <5> QED BY <4>2, <5>2
      <4> QED BY <4>1, <4>2
    <3>4. K \in 0..N /\ L \in (K + 1)..(N + 1)
      BY <1>1, <1>2, <1>3, <1>7, <3>2
    <3> HIDE DEF K, L, purgeFrom, purgeTo, shrunk, moved
    <3> QED BY <3>1, <3>3, <3>4
  <2> QED BY <2>1, <2>2
\* What happens to the chunks that stay.
<1>12. /\ \A j \in 1..N : j < K => shrunk[j] = end[j]
       /\ K >= 1 => shrunk[K] = from
       /\ \A j \in L..N : shrunk[j] = end[j] - n + 0
  <2> HIDE DEF K, L
  <2>1. ASSUME NEW j \in 1..N, j < K PROVE shrunk[j] = end[j]
    BY <1>2, <1>10, <2>1
  <2>2. ASSUME K >= 1 PROVE shrunk[K] = from
    <3>1. CASE startF = from /\ K = f - 1
      <4>1. K \in 1..N /\ K < f /\ end[K] = from
        BY <1>2, <1>11, <2>2, <3>1
      <4> QED BY <4>1
    <3>2. CASE startF # from /\ K = f
      <4>1. end[f] - fromFirst = from
        BY <1>1, <1>2, <1>3, <1>4, <1>7, <1>8, <1>9, <3>2
      <4> QED BY <1>2, <3>2, <4>1
    <3> QED BY <1>10, <3>1, <3>2
  <2>3. ASSUME NEW j \in L..N PROVE shrunk[j] = end[j] - n + 0
    <3>1. j \in 1..N /\ j >= f
      BY <1>1, <1>2, <1>3, <1>7, <1>10
    <3>2. end[j] > from + n
      <4>1. j > l => end[j] > end[l]
        BY <1>1, <1>3, <3>1
      <4> QED BY <1>1, <1>3, <1>9, <1>10, <3>1, <4>1
    <3>3. CASE j = f
      <4>1. fromFirst = n
        BY <1>9, <3>2, <3>3
      <4> QED BY <1>9, <3>1, <3>3, <4>1
    <3>4. CASE j > f
      <4>1. shrunk[j] = SaturatingSub(end[j], n)
        BY <1>2, <3>1, <3>4
      <4> QED BY <1>1, <3>1, <3>2, <4>1 DEF SaturatingSub
    <3> QED BY <1>2, <3>1, <3>3, <3>4
  <2> QED BY <2>1, <2>2, <2>3
<1>13. /\ \A j \in 1..N : j <= K => moved[j] = idx[j]
       /\ \A j \in L..N :
            moved[j] = IF j = L THEN LineKey(idx[L].commit, idx[L].line + (from + n - ChunkStart(t, L)))
                       ELSE idx[j]
  <2> HIDE DEF K, L
  <2>1. ASSUME NEW j \in 1..N, j <= K PROVE moved[j] = idx[j]
    <3>1. ~ (j = l /\ startL >= from)
      BY <1>2, <1>3, <1>7, <1>9, <1>10, <2>1
    <3> QED BY <3>1
  <2>2. CASE end[l] > from + n /\ L = l
    <3>1. startL >= from
      <4>1. f < l => startL > from
        BY <1>2, <1>3, <1>8, <1>9
      <4>2. f = l => startL = from
        BY <1>4, <1>9, <2>2
      <4> QED BY <1>2, <1>3, <1>7, <4>1, <4>2
    <3>2. \A j \in L..N : j \in 1..N
      BY <1>1, <1>3, <2>2
    <3> QED BY <1>6a, <2>1, <2>2, <3>1, <3>2
  <2>3. CASE end[l] = from + n /\ L = l + 1
    <3>1. ASSUME NEW j \in L..N PROVE moved[j] = idx[j] /\ idx[j] \in KeySet(C)
      <4>1. j \in 1..N /\ j # l
        BY <1>1, <1>3, <2>3
      <4> QED BY <1>1, <4>1
    <3>2. L <= N => LineKey(idx[L].commit, idx[L].line + (from + n - ChunkStart(t, L))) = idx[L]
      <4>1. ChunkStart(t, L) = from + n /\ from + n - ChunkStart(t, L) = 0
        <5>1. L # 1 /\ L - 1 = l
          BY <1>3, <2>3
        <5> QED BY <1>6, <2>3, <5>1
      <4>2. L <= N => L \in L..N
        BY <1>1, <1>3, <2>3
      <4> QED BY <3>1, <4>1, <4>2, KeyPlusZero
    <3>3. \A j \in L..N : L <= N
      BY <1>1, <1>3, <2>3
    <3> HIDE DEF moved
    <3>4. \A j \in L..N :
            moved[j] = IF j = L THEN LineKey(idx[L].commit, idx[L].line + (from + n - ChunkStart(t, L)))
                       ELSE idx[j]
      BY <3>1, <3>2, <3>3
    <3> QED BY <2>1, <3>4
  <2> QED BY <1>10, <2>2, <2>3
<1>14. SpliceBounds(t, K, L, from, n)
  <2> HIDE DEF K, L
  <2>1. L \in 1..(N + 1) /\ K \in 0..N
    BY <1>1, <1>11
  <2>2. /\ K = 0 => from = 0
        /\ K >= 1 => from <= end[K]
        /\ K >= 2 => end[K - 1] < from
    <3>1. CASE startF = from /\ K = f - 1
      <4>1. K >= 2 => end[K - 1] < end[K]
        BY <1>1, <1>2, <3>1
      <4> QED BY <1>2, <3>1, <4>1
    <3>2. CASE startF # from /\ K = f
      BY <1>1, <1>2, <3>2
    <3> QED BY <1>10, <3>1, <3>2
  <2>3. /\ L <= N => from + n < end[L]
        /\ L >= 2 => end[L - 1] <= from + n
        /\ L = N + 1 => TotalLines(t) = from + n
    <3>1. CASE end[l] = from + n /\ L = l + 1
      <4>1. L <= N => end[l] < end[L]
        BY <1>1, <1>3, <3>1
      <4> QED BY <1>1, <1>3, <3>1, <4>1
    <3>2. CASE end[l] > from + n /\ L = l
      BY <1>1, <1>3, <3>2
    <3> QED BY <1>10, <3>1, <3>2
  <2> QED BY <2>1, <2>2, <2>3 DEF SpliceBounds, end, N
<1>15. SplicePoints(t, u, K, L, from, n, 0, 0, key)
  <2>1. /\ shrunk = [j \in 1..N |-> shrunk[j]] /\ Len(shrunk) = N
        /\ moved = [j \in 1..N |-> moved[j]] /\ Len(moved) = N
    BY <1>1
  <2> HIDE DEF K, L, shrunk, moved, purgeFrom, purgeTo
  <2>a. ASSUME NEW s, s = [j \in 1..N |-> s[j]], Len(s) = N, NEW r, r = Drain(s, K + 1, L - 1)
        PROVE  /\ r = [j \in 1..(K + 0 + (N - L + 1)) |-> r[j]]
               /\ \A j \in 1..K : r[j] = s[j]
               /\ \A j \in L..N : r[K + 0 + 1 + (j - L)] = s[j]
    <3>1. N \in Nat /\ K \in 0..N /\ L \in (K + 1)..(N + 1)
      BY <1>1, <1>11
    <3> HIDE DEF N, K, L
    <3>2. CASE L = K + 1
      <4>1. r = s
        BY <2>a, <3>1, <3>2 DEF Drain
      <4>2. K + 0 + (N - L + 1) = N /\ \A j \in L..N : K + 0 + 1 + (j - L) = j
        BY <3>1, <3>2
      <4>3. \A j \in L..N : r[K + 0 + 1 + (j - L)] = s[j]
        BY <4>1, <4>2
      <4> QED BY <2>a, <4>1, <4>2, <4>3
    <3>3. CASE L > K + 1
      <4>1. r = [j \in 1..(N - (L - 1 - (K + 1) + 1)) |->
                   IF j < K + 1 THEN s[j] ELSE s[j + (L - 1 - (K + 1) + 1)]]
        BY <2>a, <3>1, <3>3 DEF Drain
      <4>2. N - (L - 1 - (K + 1) + 1) = K + 0 + (N - L + 1)
        BY <3>1
      <4>3. ASSUME NEW j \in 1..K PROVE r[j] = s[j]
        <5>1. j \in 1..(N - (L - 1 - (K + 1) + 1)) /\ j < K + 1
          BY <3>1
        <5> QED BY <4>1, <5>1
      <4>4. ASSUME NEW j \in L..N PROVE r[K + 0 + 1 + (j - L)] = s[j]
        <5>1. /\ K + 0 + 1 + (j - L) \in 1..(N - (L - 1 - (K + 1) + 1))
              /\ ~ (K + 0 + 1 + (j - L) < K + 1)
              /\ K + 0 + 1 + (j - L) + (L - 1 - (K + 1) + 1) = j
          BY <3>1
        <5>2. r[K + 0 + 1 + (j - L)] = s[K + 0 + 1 + (j - L) + (L - 1 - (K + 1) + 1)]
          BY <4>1, <5>1
        <5> QED BY <5>1, <5>2
      <4>5. r = [j \in 1..(N - (L - 1 - (K + 1) + 1)) |-> r[j]]
        BY <4>1
      <4> QED BY <4>2, <4>3, <4>4, <4>5
    <3> QED BY <3>1, <3>2, <3>3
  <2>2. /\ u.commit_line_end = Drain(shrunk, K + 1, L - 1)
        /\ u.commit_indexes = Drain(moved, K + 1, L - 1)
    BY <1>5, <1>11
  <2>3. /\ u.commit_line_end = [j \in 1..(K + 0 + (N - L + 1)) |-> u.commit_line_end[j]]
        /\ \A j \in 1..K : u.commit_line_end[j] = shrunk[j]
        /\ \A j \in L..N : u.commit_line_end[K + 0 + 1 + (j - L)] = shrunk[j]
    BY <2>1, <2>2, <2>a
  <2>4. /\ u.commit_indexes = [j \in 1..(K + 0 + (N - L + 1)) |-> u.commit_indexes[j]]
        /\ \A j \in 1..K : u.commit_indexes[j] = moved[j]
        /\ \A j \in L..N : u.commit_indexes[K + 0 + 1 + (j - L)] = moved[j]
    BY <2>1, <2>2, <2>a
  <2>5. /\ \A j \in 1..N : j < K => u.commit_line_end[j] = end[j] /\ u.commit_indexes[j] = idx[j]
        /\ K >= 1 => u.commit_line_end[K] = from /\ u.commit_indexes[K] = idx[K]
    <3>1. /\ \A j \in 1..N : j < K => j \in 1..K /\ j <= K
          /\ K >= 1 => K \in 1..K /\ K \in 1..N /\ K <= K
      BY <1>11
    <3> QED BY <1>12, <1>13, <2>3, <2>4, <3>1
  <2>6. \A j \in L..N :
           /\ u.commit_line_end[K + 0 + 1 + (j - L)] = end[j] - n + 0
           /\ u.commit_indexes[K + 0 + 1 + (j - L)] =
                IF j = L THEN LineKey(idx[L].commit, idx[L].line + (from + n - ChunkStart(t, L)))
                ELSE idx[j]
    BY <1>12, <1>13, <2>3, <2>4
  <2>7. 0 = 1 => u.commit_line_end[K + 1] = from + 0 /\ u.commit_indexes[K + 1] = key
    OBVIOUS
  <2> QED BY <2>3, <2>4, <2>5, <2>6, <2>7 DEF SplicePoints, SpliceCount, end, idx, N
<1> HIDE DEF K, L
<1>16. IsSplice(t, u, K, L, from, n, 0, 0, key)
  BY <1>14, <1>15 DEF IsSplice
<1> QED BY <1>16 DEF u, f, l

\* delete_lines removes, at its place, the keys of the lines it deletes.
LEMMA DeleteIsSplice ==
  ASSUME NEW C, NEW t, TrackerShape(t, C), NEW key \in KeySet(C),
         NEW from \in Nat, NEW n \in Nat, n > 0, from + n <= TotalLines(t)
  PROVE  \E K, L : IsSplice(t, DeleteLines(t, from, n), K, L, from, n, 0, 0, key)
<1>1. CASE StrictlyInside(t, from, n)
  <2> DEFINE k == FindChunk(t, from)
  <2>1. DeleteLines(t, from, n) = CutChunk(t, k, from, n)
    BY <1>1 DEF DeleteLines
  <2>2. from < TotalLines(t)
    BY ShapeFacts
  <2>3. k \in 1..ChunkCount(t) /\ ChunkStart(t, k) < from /\ from + n < t.commit_line_end[k]
    BY <1>1, <2>2, ChunkOfLine DEF StrictlyInside
  <2> HIDE DEF k
  <2>4. IsSplice(t, CutChunk(t, k, from, n), k, k, from, n, 0, 0, key)
    BY <2>3, CutIsSplice
  <2> QED BY <2>1, <2>4
<1>2. CASE ~ StrictlyInside(t, from, n)
  <2>1. DeleteLines(t, from, n) =
          ShrinkChunks(t, FindChunk(t, from), FindChunk(t, from + n - 1), from, n)
    BY <1>2 DEF DeleteLines
  <2> QED BY <1>2, <2>1, ShrinkIsSplice
<1> QED BY <1>1, <1>2

-----------------------------------------------------------------------------
(* Read line by line, the operations are those of the plain file.          *)

LEMMA BlameIsSequence ==
  ASSUME NEW C, NEW t, TrackerShape(t, C)
  PROVE  /\ Len(Blame(t)) = TotalLines(t) /\ TotalLines(t) \in Nat
         /\ \A i \in 1..TotalLines(t) : Blame(t)[i] = KeyAt(t, i - 1)
<1>1. TotalLines(t) \in Nat
  BY ShapeFacts
<1> QED BY <1>1 DEF Blame

LEMMA AddBlame ==
  ASSUME NEW C, NEW t, TrackerShape(t, C), NEW at \in 0..TotalLines(t),
         NEW n \in Nat, NEW c \in C, NEW from \in Nat
  PROVE  LET u == AddLines(t, at, n, LineKey(c, from))
         IN  /\ TrackerShape(u, C)
             /\ Blame(u) = Insert(Blame(t), at, NewKeys(n, c, from))
<1> DEFINE key == LineKey(c, from)
           u   == AddLines(t, at, n, key)
           new == NewKeys(n, c, from)
<1>1. /\ Len(Blame(t)) = TotalLines(t) /\ TotalLines(t) \in Nat
      /\ \A i \in 1..TotalLines(t) : Blame(t)[i] = KeyAt(t, i - 1)
  BY BlameIsSequence
<1>2. Len(new) = n /\ \A i \in 1..n : new[i] = LineKey(c, from + i - 1)
  BY DEF NewKeys, LineKey
<1>3. key \in KeySet(C) /\ key.commit = c /\ key.line = from
  BY DEF LineKey, KeySet
<1>4. CASE n = 0
  <2>1. u = t
    BY <1>4 DEF AddLines
  <2>2. Blame(t) = [i \in 1..TotalLines(t) |-> Blame(t)[i]]
    BY DEF Blame
  <2>3. Insert(Blame(t), at, new) = [i \in 1..(TotalLines(t) + 0) |->
          IF i <= at THEN Blame(t)[i] ELSE IF i <= at + 0 THEN new[i - at] ELSE Blame(t)[i - 0]]
    BY <1>1, <1>2, <1>4 DEF Insert
  <2> HIDE DEF new
  <2>4. Insert(Blame(t), at, new) = [i \in 1..TotalLines(t) |-> Blame(t)[i]]
    BY <1>1, <2>3
  <2> QED BY <2>1, <2>2, <2>4 DEF new
<1>5. CASE n > 0
  <2>1. PICK K, L : IsSplice(t, u, K, L, at, 0, 1, n, key)
    BY <1>3, <1>5, AddIsSplice
  <2>2. SpliceArguments(t, C, at, 0, 1, n, key)
    BY <1>1, <1>3, <1>5 DEF SpliceArguments
  <2>3. TrackerShape(u, C) /\ TotalLines(u) = TotalLines(t) + n
    BY <1>1, <2>1, <2>2, SpliceShape
  <2>4. Blame(u) = [i \in 1..(TotalLines(t) + n) |-> KeyAt(u, i - 1)]
    BY <2>3 DEF Blame
  <2>5. Insert(Blame(t), at, new) = [i \in 1..(TotalLines(t) + n) |->
          IF i <= at THEN Blame(t)[i] ELSE IF i <= at + n THEN new[i - at] ELSE Blame(t)[i - n]]
    BY <1>1, <1>2 DEF Insert
  <2> HIDE DEF u, key, new
  <2>6. ASSUME NEW i \in 1..(TotalLines(t) + n)
        PROVE KeyAt(u, i - 1) =
          IF i <= at THEN Blame(t)[i] ELSE IF i <= at + n THEN new[i - at] ELSE Blame(t)[i - n]
    <3>1. i - 1 \in Nat /\ i - 1 < TotalLines(u)
      BY <1>1, <2>3
    <3>2. KeyAt(u, i - 1) = IF i - 1 < at THEN KeyAt(t, i - 1)
                            ELSE IF i - 1 < at + n THEN LineKey(key.commit, key.line + (i - 1) - at)
                            ELSE KeyAt(t, i - 1 - n + 0)
      BY <2>1, <2>2, <3>1, SpliceKeys
    <3>3. CASE i <= at
      BY <1>1, <3>2, <3>3
    <3>4. CASE ~ (i <= at) /\ i <= at + n
      <4>1. i - at \in 1..n /\ from + (i - at) - 1 = from + (i - 1) - at
        BY <1>1, <3>4
      <4> QED BY <1>1, <1>2, <1>3, <3>2, <3>4, <4>1, SMTT(30)
    <3>5. CASE ~ (i <= at) /\ ~ (i <= at + n)
      <4>1. i - n \in 1..TotalLines(t) /\ i - n - 1 = i - 1 - n + 0
        BY <1>1, <3>5
      <4> QED BY <1>1, <3>2, <3>5, <4>1
    <3> QED BY <3>3, <3>4, <3>5
  <2> QED BY <2>3, <2>4, <2>5, <2>6 DEF u, key, new
<1> QED BY <1>4, <1>5

LEMMA DeleteBlame ==
  ASSUME NEW C, NEW t, TrackerShape(t, C),
         NEW from \in Nat, NEW n \in Nat, from + n <= TotalLines(t)
  PROVE  LET u == DeleteLines(t, from, n)
         IN  /\ TrackerShape(u, C)
             /\ Blame(u) = Cut(Blame(t), from, n)
<1> DEFINE u == DeleteLines(t, from, n)
<1>1. /\ Len(Blame(t)) = TotalLines(t) /\ TotalLines(t) \in Nat
      /\ \A i \in 1..TotalLines(t) : Blame(t)[i] = KeyAt(t, i - 1)
  BY BlameIsSequence
<1>2. Cut(Blame(t), from, n) = [i \in 1..(TotalLines(t) - n) |->
         IF i <= from THEN Blame(t)[i] ELSE Blame(t)[i + n]]
  BY <1>1 DEF Cut
<1>3. CASE n = 0
  <2>1. u = t
    BY <1>3 DEF DeleteLines
  <2>2. Blame(t) = [i \in 1..TotalLines(t) |-> Blame(t)[i]]
    BY DEF Blame
  <2>3. Cut(Blame(t), from, n) = [i \in 1..TotalLines(t) |-> Blame(t)[i]]
    BY <1>1, <1>2, <1>3
  <2> QED BY <2>1, <2>2, <2>3
<1>4. CASE n > 0
  <2>1. PICK key : key \in KeySet(C)
    <3>1. ChunkCount(t) # 0
      BY <1>1, <1>4, ShapeFacts
    <3> QED BY <3>1, ShapeFacts
  <2>2. PICK K, L : IsSplice(t, u, K, L, from, n, 0, 0, key)
    BY <1>4, <2>1, DeleteIsSplice
  <2>3. SpliceArguments(t, C, from, n, 0, 0, key)
    BY <2>1 DEF SpliceArguments
  <2>4. TrackerShape(u, C) /\ TotalLines(u) = TotalLines(t) - n
    BY <1>1, <2>2, <2>3, SpliceShape
  <2>5. Blame(u) = [i \in 1..(TotalLines(t) - n) |-> KeyAt(u, i - 1)]
    BY <2>4 DEF Blame
  <2> HIDE DEF u
  <2>6. ASSUME NEW i \in 1..(TotalLines(t) - n)
        PROVE KeyAt(u, i - 1) = IF i <= from THEN Blame(t)[i] ELSE Blame(t)[i + n]
    <3>1. i - 1 \in Nat /\ i - 1 < TotalLines(u)
      BY <1>1, <2>4
    <3>2. KeyAt(u, i - 1) = IF i - 1 < from THEN KeyAt(t, i - 1)
                            ELSE IF i - 1 < from + 0 THEN LineKey(key.commit, key.line + (i - 1) - from)
                            ELSE KeyAt(t, i - 1 - 0 + n)
      BY <2>2, <2>3, <3>1, SpliceKeys
    <3>3. CASE i <= from
      BY <1>1, <3>2, <3>3
    <3>4. CASE ~ (i <= from)
      <4>1. i + n \in 1..TotalLines(t) /\ i + n - 1 = i - 1 - 0 + n
        BY <1>1
      <4> QED BY <1>1, <3>2, <3>4, <4>1
    <3> QED BY <3>3, <3>4
  <2> QED BY <1>2, <2>4, <2>5, <2>6 DEF u
<1> QED BY <1>3, <1>4

\* The chunks a deletion hits: the first holds its first line, the last its
\* last line, and those between lie within.
LEMMA HitChunks ==
  ASSUME NEW C, NEW t, TrackerShape(t, C),
         NEW from \in Nat, NEW n \in Nat, n > 0, from + n <= TotalLines(t)
  PROVE  LET end == t.commit_line_end
             idx == t.commit_indexes
             f   == FindChunk(t, from)
             l   == FindChunk(t, from + n - 1)
         IN  /\ f \in 1..ChunkCount(t) /\ l \in 1..ChunkCount(t) /\ f <= l
             /\ ChunkStart(t, f) <= from /\ from + n <= end[l]
             /\ \A k \in f..l :
                  /\ k \in 1..ChunkCount(t) /\ end[k] \in Nat
                  /\ idx[k] \in KeySet(C) /\ idx[k].commit \in C /\ idx[k].line \in Nat
                  /\ ChunkStart(t, k) \in Nat /\ ChunkStart(t, k) <= from + n - 1 /\ from < end[k]
                  /\ k # f => ChunkStart(t, k) = end[k - 1]
                  /\ k # l => end[k] <= from + n - 1
<1> DEFINE end == t.commit_line_end
           idx == t.commit_indexes
           N   == ChunkCount(t)
           f   == FindChunk(t, from)
           l   == FindChunk(t, from + n - 1)
<1>1. /\ N \in Nat
      /\ \A j \in 1..N : end[j] \in Nat
      /\ \A i \in 1..N : \A j \in (i + 1)..N : end[i] < end[j]
      /\ \A j \in 1..N : idx[j] \in KeySet(C)
      /\ TotalLines(t) \in Nat
  BY ShapeFacts
<1>2. /\ f \in 1..N /\ from < end[f] /\ ChunkStart(t, f) <= from
      /\ ChunkStart(t, f) = IF f = 1 THEN 0 ELSE end[f - 1]
  <2>1. from < TotalLines(t)
    BY <1>1
  <2> QED BY <2>1, ChunkOfLine DEF ChunkStart
<1>3. /\ l \in 1..N /\ from + n - 1 < end[l] /\ ChunkStart(t, l) <= from + n - 1
      /\ ChunkStart(t, l) = IF l = 1 THEN 0 ELSE end[l - 1]
  <2>1. from + n - 1 < TotalLines(t) /\ from + n - 1 \in Nat
    BY <1>1
  <2> QED BY <2>1, ChunkOfLine DEF ChunkStart
<1>4. \A k : ChunkStart(t, k) = IF k = 1 THEN 0 ELSE end[k - 1]
  BY DEF ChunkStart
<1> HIDE DEF end, idx, N, f, l
<1>5. f <= l
  <2>1. l < f => end[l] <= end[f - 1] /\ f # 1
    BY <1>1, <1>2, <1>3
  <2> QED BY <1>1, <1>2, <1>3, <2>1
<1>6. ASSUME NEW k \in f..l
      PROVE  /\ k \in 1..N /\ end[k] \in Nat
             /\ idx[k] \in KeySet(C) /\ idx[k].commit \in C /\ idx[k].line \in Nat
             /\ ChunkStart(t, k) \in Nat /\ ChunkStart(t, k) <= from + n - 1 /\ from < end[k]
             /\ k # f => ChunkStart(t, k) = end[k - 1]
             /\ k # l => end[k] <= from + n - 1
  <2>1. k \in 1..N /\ end[k] \in Nat /\ idx[k] \in KeySet(C)
    BY <1>1, <1>2, <1>3
  <2>2. from < end[k]
    <3>1. end[f] <= end[k]
      BY <1>1, <1>2, <2>1
    <3> QED BY <1>1, <1>2, <2>1, <3>1
  <2>3. k # 1 => k - 1 \in 1..N /\ end[k - 1] \in Nat
    BY <1>1, <2>1
  <2>4. k # l => end[k] <= end[l - 1] /\ l # 1 /\ l - 1 \in 1..N /\ end[l - 1] \in Nat
    BY <1>1, <1>3, <2>1
  <2>5. k # l => end[k] <= from + n - 1
    BY <1>3, <2>1, <2>4
  <2>6. k # 1 => end[k - 1] <= end[l - 1] /\ l # 1 /\ l - 1 \in 1..N /\ end[l - 1] \in Nat
    BY <1>1, <1>3, <2>1
  <2>7. ChunkStart(t, k) \in Nat /\ ChunkStart(t, k) <= from + n - 1
    BY <1>3, <1>4, <2>3, <2>6
  <2>8. k # f => ChunkStart(t, k) = end[k - 1]
    BY <1>2, <1>4
  <2>9. idx[k].commit \in C /\ idx[k].line \in Nat
    BY <2>1 DEF KeySet
  <2> QED BY <2>1, <2>2, <2>5, <2>7, <2>8, <2>9
<1>7. from + n <= end[l]
  BY <1>1, <1>3
<1> QED BY <1>2, <1>3, <1>5, <1>6, <1>7 DEF end, idx, N, f, l

\* A new tracker is well-formed, and blames every line on its commit.
LEMMA NewBlame ==
  ASSUME NEW C, NEW c \in C, NEW total \in Nat
  PROVE  /\ TrackerShape(NewTracker(c, total), C)
         /\ Blame(NewTracker(c, total)) = NewKeys(total, c, 0)
<1> DEFINE t == NewTracker(c, total)
<1>1. /\ t.commit_line_end = <<total>> /\ t.commit_indexes = <<LineKey(c, 0)>>
      /\ ChunkCount(t) = 1 /\ TotalLines(t) = total /\ ChunkStart(t, 1) = 0
  BY DEF NewTracker, ChunkCount, TotalLines, ChunkStart
<1>2. TrackerShape(t, C)
  BY <1>1 DEF TrackerShape, KeySet, LineKey
<1>3. Blame(t) = [i \in 1..total |-> KeyAt(t, i - 1)]
  BY <1>1 DEF Blame
<1>4. NewKeys(total, c, 0) = [i \in 1..total |-> LineKey(c, 0 + i - 1)]
  BY DEF NewKeys, LineKey
<1> HIDE DEF t
<1>5. ASSUME NEW i \in 1..total PROVE KeyAt(t, i - 1) = LineKey(c, 0 + i - 1)
  <2>1. i - 1 \in Nat /\ i - 1 < total /\ 1 \in 1..ChunkCount(t)
    BY <1>1
  <2>2. t.commit_indexes[1].commit = c /\ t.commit_indexes[1].line = 0 /\ t.commit_line_end[1] = total
    BY <1>1 DEF LineKey
  <2>3. KeyAt(t, i - 1) = LineKey(c, 0 + (i - 1) - 0)
    BY <1>1, <1>2, <2>1, <2>2, KeyInChunk
  <2>4. 0 + (i - 1) - 0 = 0 + i - 1
    OBVIOUS
  <2> QED BY <2>3, <2>4
<1> QED BY <1>2, <1>3, <1>4, <1>5 DEF t
=============================================================================
