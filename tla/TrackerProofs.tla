--------------------------- MODULE TrackerProofs ---------------------------
(***************************************************************************)
(* Every sequence of legal calls on a tracker keeps its shape              *)
(* (TypeCorrect) and acts as the same calls on a plain file                *)
(* (TrackerImplementsPlainFile).                                           *)
(***************************************************************************)
EXTENDS TrackedFile, TrackerLemmas

RangeSet(C) == [commit : C, start : Nat, stop : Nat]
BlameBetween(t, from, n) == {Blame(t)[i] : i \in (from + 1)..(from + n)}

\* The ranges delete_lines returns are well-formed, and hold the keys of the
\* deleted lines and no others.
LEMMA DeletedKeys ==
  ASSUME NEW C, NEW t, TrackerShape(t, C),
         NEW from \in Nat, NEW n \in Nat, from + n <= TotalLines(t)
  PROVE  /\ DeletedRanges(t, from, n) \in Seq(RangeSet(C))
         /\ KeysIn(DeletedRanges(t, from, n)) = BlameBetween(t, from, n)
<1> DEFINE end == t.commit_line_end
           idx == t.commit_indexes
           N   == ChunkCount(t)
           f   == FindChunk(t, from)
           l   == FindChunk(t, from + n - 1)
           R   == DeletedRanges(t, from, n)
           range(k) == DeletedRange(t, k, from, n)
<1>1. /\ N \in Nat
      /\ \A j \in 1..N : end[j] \in Nat
      /\ \A i \in 1..N : \A j \in (i + 1)..N : end[i] < end[j]
      /\ \A j \in 1..N : idx[j] \in KeySet(C)
      /\ TotalLines(t) \in Nat
  BY ShapeFacts
<1>2. \A i \in 1..TotalLines(t) : Blame(t)[i] = KeyAt(t, i - 1)
  BY BlameIsSequence
<1>3. CASE n = 0
  <2>1. R = <<>>
    BY <1>3 DEF DeletedRanges
  <2>2. (from + 1)..(from + n) = {}
    BY <1>3
  <2> QED BY <2>1, <2>2 DEF KeysIn, BlameBetween, RangeSet
<1>4. CASE n > 0
  <2>1. /\ f \in 1..N /\ from < end[f] /\ ChunkStart(t, f) <= from
        /\ ChunkStart(t, f) = IF f = 1 THEN 0 ELSE end[f - 1]
    <3>1. from < TotalLines(t)
      BY <1>1, <1>4
    <3> QED BY <3>1, ChunkOfLine DEF ChunkStart
  <2>2. /\ l \in 1..N /\ from + n - 1 < end[l] /\ ChunkStart(t, l) <= from + n - 1
        /\ ChunkStart(t, l) = IF l = 1 THEN 0 ELSE end[l - 1]
    <3>1. from + n - 1 < TotalLines(t) /\ from + n - 1 \in Nat
      BY <1>1, <1>4
    <3> QED BY <3>1, ChunkOfLine DEF ChunkStart
  <2>3. R = [j \in 1..(l - f + 1) |-> range(f + j - 1)]
    BY <1>4 DEF DeletedRanges
  <2>4. \A k : /\ ChunkStart(t, k) = IF k = 1 THEN 0 ELSE end[k - 1]
               /\ range(k).commit = idx[k].commit
               /\ range(k).start = idx[k].line + (IF ChunkStart(t, k) < from THEN from - ChunkStart(t, k) ELSE 0)
               /\ range(k).stop = idx[k].line + (IF end[k] < from + n THEN end[k] - ChunkStart(t, k)
                                                 ELSE from + n - ChunkStart(t, k))
               /\ range(k) = [commit |-> range(k).commit, start |-> range(k).start, stop |-> range(k).stop]
    BY DEF DeletedRange, ChunkStart
  <2> HIDE DEF end, idx, N, f, l, R, range
  <2>5. f <= l
    <3>1. l < f => end[l] <= end[f - 1] /\ f # 1
      BY <1>1, <2>1, <2>2
    <3> QED BY <1>1, <1>4, <2>1, <2>2, <3>1
  \* A chunk that is hit is one of f..l, and holds a deleted line.
  <2>6. ASSUME NEW k \in f..l
        PROVE  /\ k \in 1..N /\ end[k] \in Nat /\ idx[k] \in KeySet(C)
               /\ idx[k].commit \in C /\ idx[k].line \in Nat
               /\ ChunkStart(t, k) \in Nat /\ ChunkStart(t, k) <= from + n - 1 /\ from < end[k]
               /\ ChunkStart(t, k) < end[k] \/ ChunkStart(t, k) = 0
    <3>1. k \in 1..N /\ end[k] \in Nat /\ idx[k] \in KeySet(C)
      BY <1>1, <2>1, <2>2
    <3>2. from < end[k]
      <4>1. end[f] <= end[k]
        BY <1>1, <2>1, <3>1
      <4> QED BY <1>1, <2>1, <3>1, <4>1
    <3>3. ChunkStart(t, k) = IF k = 1 THEN 0 ELSE end[k - 1]
      BY <2>4
    <3>4. k # 1 => k - 1 \in 1..N /\ end[k - 1] \in Nat /\ end[k - 1] < end[k]
      BY <1>1, <3>1
    <3>5. k # 1 => end[k - 1] <= end[l - 1] /\ l # 1 /\ l - 1 \in 1..N /\ end[l - 1] \in Nat
      BY <1>1, <2>2, <3>1
    <3>6. ChunkStart(t, k) <= from + n - 1
      BY <1>4, <2>2, <3>3, <3>4, <3>5
    <3>7. idx[k].commit \in C /\ idx[k].line \in Nat
      BY <3>1 DEF KeySet
    <3> QED BY <3>1, <3>2, <3>3, <3>4, <3>6, <3>7
  <2>7. R \in Seq([commit : C, start : Nat, stop : Nat])
    <3>1. ASSUME NEW j \in 1..(l - f + 1)
          PROVE R[j] \in [commit : C, start : Nat, stop : Nat]
      <4>1. f + j - 1 \in f..l
        BY <2>1, <2>2
      <4>2. R[j] = range(f + j - 1)
        BY <2>3
      <4> DEFINE k == f + j - 1
      <4>3. k \in f..l /\ R[j] = range(k)
        BY <4>1, <4>2
      <4> HIDE DEF k
      <4>4. range(k).commit \in C /\ range(k).start \in Nat /\ range(k).stop \in Nat
        BY <2>4, <2>6, <4>3
      <4> QED BY <2>4, <4>3, <4>4
    <3>2. l - f + 1 \in Nat /\ R = [j \in 1..(l - f + 1) |-> R[j]]
      BY <2>1, <2>2, <2>3, <2>5
    <3> QED BY <3>1, <3>2, MakeSeq
  <2>8. KeysIn(R) = UNION {{LineKey(range(k).commit, x) : x \in range(k).start..(range(k).stop - 1)} : k \in f..l}
    <3>1. DOMAIN R = 1..(l - f + 1)
      BY <2>3
    <3>2. ASSUME NEW j \in DOMAIN R PROVE f + j - 1 \in f..l /\ R[j] = range(f + j - 1)
      BY <2>1, <2>2, <2>3, <3>1
    <3>3. ASSUME NEW k \in f..l PROVE k - f + 1 \in DOMAIN R /\ R[k - f + 1] = range(k)
      <4>1. k - f + 1 \in 1..(l - f + 1) /\ f + (k - f + 1) - 1 = k
        BY <2>1, <2>2
      <4> QED BY <2>3, <3>1, <4>1
    <3> QED BY <3>2, <3>3 DEF KeysIn
  \* Lines f..l's ranges cover are the deleted ones.
  <2>9. ASSUME NEW k \in f..l, NEW x \in range(k).start..(range(k).stop - 1)
        PROVE  \E i \in (from + 1)..(from + n) : LineKey(range(k).commit, x) = Blame(t)[i]
    <3> DEFINE line == x - idx[k].line + ChunkStart(t, k)
    <3>1. /\ x \in Int /\ line \in Nat /\ from <= line /\ line < from + n
          /\ ChunkStart(t, k) <= line /\ line < end[k]
          /\ idx[k].line + line - ChunkStart(t, k) = x
      <4>1. range(k).start \in Int /\ range(k).stop \in Int
        BY <2>4, <2>6
      <4> QED BY <2>4, <2>6, <4>1
    <3> HIDE DEF line
    <3>2. KeyAt(t, line) = LineKey(idx[k].commit, idx[k].line + line - ChunkStart(t, k))
      BY <2>6, <3>1, KeyInChunk DEF N, end, idx
    <3>3. line + 1 \in (from + 1)..(from + n) /\ line + 1 \in 1..TotalLines(t) /\ line + 1 - 1 = line
      BY <1>1, <3>1
    <3>4. Blame(t)[line + 1] = LineKey(range(k).commit, x)
      BY <1>2, <2>4, <3>1, <3>2, <3>3
    <3> QED BY <3>3, <3>4
  <2>10. ASSUME NEW i \in (from + 1)..(from + n)
         PROVE  \E k \in f..l : \E x \in range(k).start..(range(k).stop - 1) :
                  LineKey(range(k).commit, x) = Blame(t)[i]
    <3> DEFINE line == i - 1
               k == FindChunk(t, line)
               x == idx[k].line + line - ChunkStart(t, k)
    <3>1. line \in Nat /\ from <= line /\ line < from + n /\ line < TotalLines(t) /\ i \in 1..TotalLines(t)
      BY <1>1, <1>4
    <3> HIDE DEF line
    <3>2. /\ k \in 1..N /\ line < end[k] /\ ChunkStart(t, k) <= line
          /\ ChunkStart(t, k) \in Nat /\ end[k] \in Nat /\ idx[k] \in KeySet(C)
          /\ KeyAt(t, line) = LineKey(idx[k].commit, x)
      BY <3>1, ChunkOfLine DEF KeyAt, N, end, idx
    <3> HIDE DEF k
    <3>3. k \in f..l
      <4>1. k < f => end[k] <= end[f - 1] /\ f # 1
        BY <1>1, <2>1, <3>2
      <4>2. k > l => end[l] <= end[k - 1] /\ ChunkStart(t, k) = end[k - 1]
        BY <1>1, <2>2, <2>4, <3>2, SMTT(30)
      <4>3. ~ (k < f)
        BY <1>1, <2>1, <3>1, <3>2, <4>1
      <4>4. ~ (k > l)
        BY <1>1, <1>4, <2>2, <3>1, <3>2, <4>2
      <4> QED BY <2>1, <2>2, <3>2, <4>3, <4>4
    <3>4. x \in range(k).start..(range(k).stop - 1)
      <4>1. idx[k].line \in Nat
        BY <2>6, <3>3
      <4> QED BY <2>4, <3>1, <3>2, <4>1
    <3>5. LineKey(range(k).commit, x) = Blame(t)[i]
      BY <1>2, <2>4, <3>1, <3>2 DEF line
    <3> QED BY <3>3, <3>4, <3>5
  <2>11. KeysIn(R) = {Blame(t)[i] : i \in (from + 1)..(from + n)}
    BY <2>8, <2>9, <2>10
  <2> QED BY <2>7, <2>11 DEF R, RangeSet, BlameBetween
<1> QED BY <1>3, <1>4

-----------------------------------------------------------------------------
(* The theorems about the machine.                                         *)

\* The plain file puts lines in and takes them out as the lemmas say.
LEMMA SamePlainFile ==
  /\ \A n, c, from : Plain!NewKeys(n, c, from) = NewKeys(n, c, from)
  /\ \A s, at, new : Plain!Insert(s, at, new) = Insert(s, at, new)
  /\ \A s, at, n : Plain!Cut(s, at, n) = Cut(s, at, n)
BY DEF Plain!NewKeys, Plain!Insert, Plain!Cut, NewKeys, Insert, Cut

LEMMA InitStep ==
  ASSUME Init
  PROVE  TypeOK /\ Plain!Init
<1>1. PICK c \in Commits, total \in 0..MaxTotal : tracker = NewTracker(c, total)
  BY DEF Init
<1>2. total \in Nat
  BY BoundsAssumption
<1>3. removed = <<>> /\ KeysIn(removed) = {}
  BY DEF Init, KeysIn
<1>4. removed \in Seq([commit : Commits, start : Nat, stop : Nat])
  BY <1>3
<1> QED BY <1>1, <1>2, <1>3, <1>4, NewBlame, SamePlainFile DEF TypeOK, Plain!Init

LEMMA AddStep ==
  ASSUME TypeOK,
         NEW at \in 0..TotalLines(tracker), NEW n \in 0..(MaxTotal - TotalLines(tracker)),
         NEW c \in Commits, NEW from \in 0..MaxFrom, Add(at, n, c, from)
  PROVE  TypeOK' /\ Plain!Next
<1>1. TrackerShape(tracker, Commits)
  BY DEF TypeOK
<1>2. n \in Nat /\ from \in Nat /\ Len(Blame(tracker)) = TotalLines(tracker)
  BY <1>1, BlameIsSequence, BoundsAssumption
<1>3. removed' = <<>> /\ KeysIn(removed') = {} /\ tracker' = AddLines(tracker, at, n, LineKey(c, from))
  BY DEF Add, KeysIn
<1>4. TrackerShape(tracker', Commits)
      /\ Blame(tracker') = Plain!Insert(Blame(tracker), at, Plain!NewKeys(n, c, from))
  BY <1>1, <1>2, <1>3, AddBlame, SamePlainFile
<1>5. Plain!Add(at, n, c, from)
  BY <1>3, <1>4 DEF Plain!Add
<1>6. Plain!Next
  BY <1>2, <1>5 DEF Plain!Next
<1>7. removed' \in Seq([commit : Commits, start : Nat, stop : Nat])
  BY <1>3
<1> QED BY <1>4, <1>6, <1>7 DEF TypeOK

LEMMA DeleteStep ==
  ASSUME TypeOK,
         NEW from \in 0..TotalLines(tracker), NEW n \in 0..(TotalLines(tracker) - from),
         Delete(from, n)
  PROVE  TypeOK' /\ Plain!Next
<1>1. TrackerShape(tracker, Commits)
  BY DEF TypeOK
<1>2. /\ TotalLines(tracker) \in Nat /\ Len(Blame(tracker)) = TotalLines(tracker)
      /\ from \in Nat /\ n \in Nat /\ from + n <= TotalLines(tracker)
  BY <1>1, BlameIsSequence
<1>3. tracker' = DeleteLines(tracker, from, n) /\ removed' = DeletedRanges(tracker, from, n)
  BY DEF Delete
<1>4. TrackerShape(tracker', Commits) /\ Blame(tracker') = Plain!Cut(Blame(tracker), from, n)
  BY <1>1, <1>2, <1>3, DeleteBlame, SamePlainFile
<1>5. /\ removed' \in Seq([commit : Commits, start : Nat, stop : Nat])
      /\ KeysIn(removed') = {Blame(tracker)[i] : i \in (from + 1)..(from + n)}
  <2>1. /\ DeletedRanges(tracker, from, n) \in Seq(RangeSet(Commits))
        /\ KeysIn(DeletedRanges(tracker, from, n)) = BlameBetween(tracker, from, n)
    BY <1>1, <1>2, DeletedKeys
  <2> QED BY <1>3, <2>1 DEF RangeSet, BlameBetween
<1>6. Plain!Delete(from, n)
  BY <1>4, <1>5 DEF Plain!Delete
<1>7. Plain!Next
  BY <1>2, <1>6 DEF Plain!Next
<1> QED BY <1>4, <1>5, <1>7 DEF TypeOK

LEMMA DeleteFileStep ==
  ASSUME TypeOK, DeleteFile
  PROVE  TypeOK' /\ Plain!Next
<1>1. tracker' = DeleteAll /\ removed' = <<>> /\ KeysIn(removed') = {}
  BY DEF DeleteFile, KeysIn
<1>2. TrackerShape(DeleteAll, Commits)
  BY DEF TrackerShape, DeleteAll
<1>3. Blame(DeleteAll) = <<>>
  <2>1. TotalLines(DeleteAll) = 0
    BY DEF TotalLines, ChunkCount, DeleteAll
  <2> QED BY <2>1 DEF Blame
<1>4. Plain!DeleteAll
  BY <1>1, <1>3 DEF Plain!DeleteAll
<1>5. removed' \in Seq([commit : Commits, start : Nat, stop : Nat])
  BY <1>1
<1> QED BY <1>1, <1>2, <1>4, <1>5 DEF TypeOK, Plain!Next

\* Every step keeps the tracker well-formed and is a step of the plain file.
LEMMA StepLemma ==
  ASSUME TypeOK, [Next]_vars
  PROVE  TypeOK' /\ [Plain!Next]_<<Blame(tracker), KeysIn(removed)>>
<1>1. CASE Next
  <2>1. ASSUME NEW at \in 0..TotalLines(tracker), NEW n \in 0..(MaxTotal - TotalLines(tracker)),
               NEW c \in Commits, NEW from \in 0..MaxFrom, Add(at, n, c, from)
        PROVE  TypeOK' /\ Plain!Next
    BY <2>1, AddStep
  <2>2. ASSUME NEW from \in 0..TotalLines(tracker), NEW n \in 0..(TotalLines(tracker) - from),
               Delete(from, n)
        PROVE  TypeOK' /\ Plain!Next
    BY <2>2, DeleteStep
  <2>3. ASSUME DeleteFile PROVE TypeOK' /\ Plain!Next
    BY <2>3, DeleteFileStep
  <2> QED BY <1>1, <2>1, <2>2, <2>3 DEF Next
<1>2. CASE UNCHANGED vars
  BY <1>2 DEF vars, TypeOK, Blame, TotalLines, ChunkCount, KeyAt, FindChunk, ChunkStart, KeysIn
<1> QED BY <1>1, <1>2

(***************************************************************************)
(* Type correctness: whatever lines are added and deleted, in whatever     *)
(* order, the two vectors of the tracker stay parallel and its chunk ends  *)
(* strictly increase, which the binary search and the unsigned             *)
(* subtractions of diff.rs rely on; every returned range is made of        *)
(* commits and line numbers.                                               *)
(***************************************************************************)
THEOREM TypeCorrect == Spec => []TypeOK
<1>1. Init => TypeOK
  BY InitStep
<1>2. TypeOK /\ [Next]_vars => TypeOK'
  BY StepLemma
<1> QED BY <1>1, <1>2, PTL DEF Spec

(***************************************************************************)
(* The tracker implements the plain file, for every file size, number of   *)
(* chunks and set of commits: add_lines inserts exactly the lines it is    *)
(* given, delete_lines removes and reports exactly the lines it names.     *)
(* The invariant needed is TypeOK: the argument is that every branch of    *)
(* both operations is a splice of the chunk sequence (AddIsSplice,         *)
(* DeleteIsSplice), whose effect on the lines is known (SpliceKeys).       *)
(***************************************************************************)
THEOREM TrackerImplementsPlainFile == Spec => ImplementsPlainFile
<1>1. Init => Plain!Init
  BY InitStep
<1>2. TypeOK /\ [Next]_vars => [Plain!Next]_<<Blame(tracker), KeysIn(removed)>>
  BY StepLemma
<1> QED BY <1>1, <1>2, TypeCorrect, PTL DEF Spec, ImplementsPlainFile, Plain!Spec
=============================================================================
