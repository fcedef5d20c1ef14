---------------------------- MODULE IndexerLemmas ---------------------------
(***************************************************************************)
(* What the operations on one file's index do, for every file: documents,  *)
(* read with IndexOf, the keys of deleted lines, and the two together with *)
(* the tracker.  Last, what a file looks like between two hunks.           *)
(***************************************************************************)
EXTENDS GitIndexer, TrackerLemmas

-----------------------------------------------------------------------------
(* flatten_delete_result: the keys of deleted lines, in the order of lines. *)

\* The recursive function inside FlattenSeq: its defining equation.
Flattening(seqs, g) ==
  g = [j \in 1..Len(seqs) |-> IF j = 1 THEN seqs[j] ELSE g[j - 1] \o seqs[j]]

\* FlattenSeq, by the last value of its recursive function.
LEMMA FlattenBy ==
  ASSUME NEW seqs, NEW m \in Nat, m = Len(seqs), m # 0,
         NEW g, Flattening(seqs, g)
  PROVE  FlattenSeq(seqs) = g[m]
<1> DEFINE h == CHOOSE x : x = [j \in 1..Len(seqs) |-> IF j = 1 THEN seqs[j] ELSE x[j - 1] \o seqs[j]]
<1>1. FlattenSeq(seqs) = h[m]
  BY Zenon DEF FlattenSeq
<1>2. Flattening(seqs, h)
  BY Zenon DEF Flattening
<1> HIDE DEF h
<1> DEFINE D == {j \in 1..m : h[j] # g[j]}
<1>3. CASE D # {}
  <2>1. D \in SUBSET Nat
    OBVIOUS
  <2>2. PICK j \in D : \A k \in D : j <= k
    BY <1>3, <2>1, LeastNatural
  <2>3. j \in 1..m /\ h[j] # g[j]
    OBVIOUS
  <2>4. j # 1 => j - 1 \in 1..m /\ ~ (j <= j - 1)
    BY <2>3
  <2>5. j # 1 => h[j - 1] = g[j - 1]
    BY <2>2, <2>4
  <2>6. h[j] = IF j = 1 THEN seqs[j] ELSE h[j - 1] \o seqs[j]
    BY <1>2, <2>3 DEF Flattening
  <2>7. g[j] = IF j = 1 THEN seqs[j] ELSE g[j - 1] \o seqs[j]
    BY <2>3 DEF Flattening
  <2> QED BY <2>3, <2>5, <2>6, <2>7
<1>4. CASE D = {}
  <2>1. m \in 1..m
    OBVIOUS
  <2> QED BY <1>1, <1>4, <2>1
<1> QED BY <1>3, <1>4

\* The n elements of b that follow its first x.
Part(b, x, n) == [i \in 1..n |-> b[x + i]]

\* The m sequences seqs are what b holds up to ends[1], ends[2] and so on.
InBlocks(seqs, m, ends, b, S) ==
  /\ m \in Nat /\ m = Len(seqs) /\ m # 0
  /\ ends[0] = 0 /\ \A j \in 0..m : ends[j] \in Nat
  /\ \A j \in 1..m : ends[j - 1] <= ends[j] /\ ends[j] <= ends[m]
  /\ \A i \in 1..ends[m] : b[i] \in S
  /\ \A j \in 1..m : seqs[j] = Part(b, ends[j - 1], ends[j] - ends[j - 1])

\* Flattened, they are the beginning of b.
LEMMA FlattenBlocks ==
  ASSUME NEW S, NEW seqs, NEW m, NEW ends, NEW b, InBlocks(seqs, m, ends, b, S)
  PROVE  FlattenSeq(seqs) = Part(b, 0, ends[m])
<1> USE DEF InBlocks
<1> DEFINE upTo(n) == [i \in 1..n |-> b[i]]
           part(x, y) == [i \in 1..(y - x) |-> b[x + i]]
           g == [j \in 1..m |-> upTo(ends[j])]
<1>1. ASSUME NEW x \in Nat, NEW y \in Nat, x <= y, y <= ends[m]
      PROVE  upTo(x) \o part(x, y) = upTo(y)
  <2> DEFINE tail == part(x, y)
  <2>1. ends[m] \in Nat
    OBVIOUS
  <2>2. upTo(x) \in Seq(S) /\ Len(upTo(x)) = x
    <3>1. \A i \in 1..x : upTo(x)[i] \in S
      BY <1>1, <2>1
    <3> QED BY <3>1, MakeSeq
  <2>3. tail \in Seq(S) /\ Len(tail) = y - x
    <3>1. ASSUME NEW i \in 1..(y - x) PROVE tail[i] \in S
      <4>1. x + i \in 1..ends[m] /\ tail[i] = b[x + i]
        BY <1>1, <2>1
      <4> QED BY <4>1
    <3>2. y - x \in Nat /\ tail = [i \in 1..(y - x) |-> tail[i]]
      BY <1>1
    <3> HIDE DEF tail
    <3> QED BY <3>1, <3>2, MakeSeq
  <2>4. upTo(x) \o tail \in Seq(S) /\ Len(upTo(x) \o tail) = y
    BY <1>1, <2>2, <2>3
  <2>5. ASSUME NEW i \in 1..y PROVE (upTo(x) \o tail)[i] = b[i]
    <3>1. CASE i <= x
      <4>1. (upTo(x) \o tail)[i] = upTo(x)[i] /\ i \in 1..x
        BY <1>1, <2>2, <2>3, <3>1
      <4> QED BY <4>1
    <3>2. CASE i > x
      <4>1. (upTo(x) \o tail)[i] = tail[i - x] /\ i - x \in 1..(y - x) /\ x + (i - x) = i
        BY <1>1, <2>2, <2>3, <3>2
      <4> QED BY <4>1
    <3> QED BY <1>1, <3>1, <3>2
  <2>6. upTo(x) \o tail = [i \in 1..y |-> (upTo(x) \o tail)[i]]
    BY <2>4, SeqIsFunction
  <2> QED BY <2>5, <2>6
<1>2. ASSUME NEW j \in 1..m
      PROVE  upTo(ends[j]) = IF j = 1 THEN seqs[j] ELSE upTo(ends[j - 1]) \o seqs[j]
  <2>1. ends[j] \in Nat /\ ends[j - 1] \in Nat /\ ends[j - 1] <= ends[j] /\ ends[j] <= ends[m]
    <3>1. j \in 0..m /\ j - 1 \in 0..m
      OBVIOUS
    <3> QED BY <3>1
  <2>2. seqs[j] = part(ends[j - 1], ends[j])
    BY DEF Part
  <2>3. CASE j = 1
    <3>1. ends[j - 1] = 0
      BY <2>3
    <3>2. ASSUME NEW n \in Nat PROVE part(0, n) = upTo(n)
      OBVIOUS
    <3> HIDE DEF upTo, part
    <3> QED BY <2>1, <2>2, <2>3, <3>1, <3>2
  <2>4. CASE j # 1
    <3> HIDE DEF upTo, part
    <3> QED BY <1>1, <2>1, <2>2, <2>4
  <2> QED BY <2>3, <2>4
<1>3. Flattening(seqs, g)
  <2>1. ASSUME NEW j \in 1..m
        PROVE  upTo(ends[j]) = IF j = 1 THEN seqs[j] ELSE g[j - 1] \o seqs[j]
    <3>1. j # 1 => j - 1 \in 1..m /\ g[j - 1] = upTo(ends[j - 1])
      OBVIOUS
    <3> HIDE DEF g, upTo
    <3> QED BY <1>2, <3>1
  <2> HIDE DEF upTo
  <2> QED BY <2>1 DEF Flattening
<1>4. FlattenSeq(seqs) = g[m]
  <2> HIDE DEF g
  <2> QED BY <1>3, FlattenBy
<1>5. g[m] = upTo(ends[m])
  OBVIOUS
<1>6. upTo(ends[m]) = Part(b, 0, ends[m])
  BY DEF Part
<1> QED BY <1>4, <1>5, <1>6

\* flatten_delete_result turns what delete_lines returns into the keys of the
\* deleted lines, in the order of the lines.
LEMMA DeletedLines ==
  ASSUME NEW C, NEW t, TrackerShape(t, C),
         NEW from \in Nat, NEW n \in Nat, from + n <= TotalLines(t)
  PROVE  FlattenDeleteResult(DeletedRanges(t, from, n)) = Part(Blame(t), from, n)
<1> DEFINE end == t.commit_line_end
           idx == t.commit_indexes
           N   == ChunkCount(t)
           f   == FindChunk(t, from)
           l   == FindChunk(t, from + n - 1)
           R   == DeletedRanges(t, from, n)
           m   == l - f + 1
           b   == Part(Blame(t), from, n)
           keysOf(r) == [i \in 1..(r.stop - r.start) |-> LineKey(r.commit, r.start + i - 1)]
           seqs == [j \in DOMAIN R |-> keysOf(R[j])]
<1>1. FlattenDeleteResult(R) = FlattenSeq(seqs)
  BY DEF FlattenDeleteResult
<1>2. CASE n = 0
  <2>1. R = <<>> /\ seqs = <<>>
    BY <1>2 DEF DeletedRanges
  <2>2. FlattenSeq(seqs) = <<>>
    BY <2>1 DEF FlattenSeq
  <2>3. b = <<>>
    BY <1>2 DEF Part
  <2> QED BY <1>1, <2>2, <2>3
<1>3. CASE n > 0
  <2> DEFINE before(k) == (IF end[k] < from + n THEN end[k] ELSE from + n) - from
             ends == [j \in 0..m |-> IF j = 0 THEN 0 ELSE before(f + j - 1)]
             range(k) == DeletedRange(t, k, from, n)
  <2>1. /\ f \in 1..N /\ l \in 1..N /\ f <= l /\ N \in Nat
        /\ ChunkStart(t, f) <= from /\ from + n <= end[l]
        /\ \A k \in f..l :
             /\ k \in 1..N /\ end[k] \in Nat
             /\ idx[k] \in KeySet(C) /\ idx[k].commit \in C /\ idx[k].line \in Nat
             /\ ChunkStart(t, k) \in Nat /\ ChunkStart(t, k) <= from + n - 1 /\ from < end[k]
             /\ k # f => ChunkStart(t, k) = end[k - 1]
             /\ k # l => end[k] <= from + n - 1
    BY <1>3, HitChunks, ShapeFacts
  <2>2. R = [j \in 1..m |-> range(f + j - 1)]
    BY <1>3 DEF DeletedRanges
  <2>3. \A k : /\ range(k).commit = idx[k].commit
               /\ range(k).start = idx[k].line + (IF ChunkStart(t, k) < from THEN from - ChunkStart(t, k) ELSE 0)
               /\ range(k).stop = idx[k].line + (IF end[k] < from + n THEN end[k] - ChunkStart(t, k)
                                                 ELSE from + n - ChunkStart(t, k))
    BY DEF DeletedRange
  <2>4. /\ TotalLines(t) \in Nat
        /\ \A i \in 1..TotalLines(t) : Blame(t)[i] = KeyAt(t, i - 1)
    BY BlameIsSequence
  <2>5. \A k \in f..l : range(k).start \in Int /\ range(k).stop \in Int
    BY <2>1, <2>3
  <2>0. \A i \in 1..N : \A j \in (i + 1)..N : end[i] < end[j]
    BY ShapeFacts
  <2> HIDE DEF end, idx, N, f, l, R, range, seqs
  <2>6. m \in Nat /\ m # 0 /\ Len(seqs) = m /\ \A j \in 1..m : seqs[j] = keysOf(range(f + j - 1))
    <3>1. m \in Nat /\ m # 0
      BY <2>1
    <3>2. R = [j \in 1..m |-> R[j]] /\ DOMAIN R = 1..m
      BY <2>2
    <3> HIDE DEF keysOf
    <3> QED BY <2>2, <3>1, <3>2 DEF seqs
  \* Chunk k holds, of the deleted lines, those up to before(k).
  <2>7. ASSUME NEW k \in f..l
        PROVE  /\ before(k) \in Nat /\ before(k) <= n /\ before(k) > 0
               /\ k = l => before(k) = n
    <3>1. end[k] \in Nat /\ from < end[k] /\ (k = l => from + n <= end[k])
      BY <2>1
    <3> QED BY <1>3, <3>1
  <2>8. ASSUME NEW k \in f..l
        PROVE  /\ range(k).stop - range(k).start
                    = before(k) - (IF k = f THEN 0 ELSE before(k - 1))
               /\ range(k).start = idx[k].line - ChunkStart(t, k)
                                     + from + (IF k = f THEN 0 ELSE before(k - 1))
               /\ k # f => k - 1 \in f..l /\ before(k - 1) = ChunkStart(t, k) - from
               /\ (IF k = f THEN 0 ELSE before(k - 1)) <= before(k)
    <3>1. /\ end[k] \in Nat /\ from < end[k] /\ idx[k].line \in Nat
          /\ ChunkStart(t, k) \in Nat /\ ChunkStart(t, k) <= from + n - 1
          /\ k = f => ChunkStart(t, k) <= from
      BY <2>1
    <3>2. CASE k = f
      BY <2>3, <2>7, <3>1, <3>2
    <3>3. CASE k # f
      <4>1. /\ k - 1 \in f..l /\ k - 1 # l /\ ChunkStart(t, k) = end[k - 1]
            /\ end[k - 1] \in Nat /\ from < end[k - 1] /\ end[k - 1] <= from + n - 1
        <5>1. k - 1 \in f..l /\ k - 1 # l
          BY <2>1, <3>3
        <5> QED BY <2>1, <3>3, <5>1
      <4>2. before(k - 1) = ChunkStart(t, k) - from
        BY <4>1
      <4>3. ChunkStart(t, k) <= end[k]
        <5>1. k - 1 \in 1..N /\ k \in (k - 1 + 1)..N
          BY <2>1, <4>1
        <5>2. end[k - 1] < end[k]
          BY <2>0, <5>1
        <5> QED BY <3>1, <4>1, <5>2
      <4> HIDE DEF before
      <4>4. before(k) = (IF end[k] < from + n THEN end[k] ELSE from + n) - from
        BY DEF before
      <4>5. ChunkStart(t, k) - from <= before(k)
        BY <3>1, <4>3, <4>4
      <4> QED BY <2>3, <3>1, <3>3, <4>1, <4>2, <4>4, <4>5
    <3> QED BY <3>2, <3>3
  <2>9. ASSUME NEW k \in f..l, NEW i \in 1..(range(k).stop - range(k).start)
        PROVE  LineKey(range(k).commit, range(k).start + i - 1)
                 = b[(IF k = f THEN 0 ELSE before(k - 1)) + i]
    <3> DEFINE x == IF k = f THEN 0 ELSE before(k - 1)
               line == from + x + i - 1
    <3>1. x \in Nat /\ x + i \in 1..before(k) /\ before(k) <= n
      BY <2>7, <2>8
    <3>2. /\ line \in Nat /\ line < from + before(k) /\ ChunkStart(t, k) <= line
          /\ from + (x + i) \in 1..TotalLines(t) /\ line = from + (x + i) - 1
      <4>1. ChunkStart(t, k) <= from + x
        BY <2>1, <2>8
      <4>2. ChunkStart(t, k) \in Nat /\ before(k) \in Nat
        BY <2>1, <2>7
      <4> HIDE DEF x, before
      <4> QED BY <2>4, <3>1, <4>1, <4>2
    <3>3. line < end[k]
      <4>1. end[k] \in Nat /\ from + before(k) <= end[k]
        BY <2>1
      <4> QED BY <2>7, <3>2, <4>1
    <3>4. k \in 1..N /\ ChunkStart(t, k) \in Nat /\ idx[k].line \in Nat
      BY <2>1
    <3>5. KeyAt(t, line) = LineKey(idx[k].commit, idx[k].line + line - ChunkStart(t, k))
      BY <3>2, <3>3, <3>4, KeyInChunk DEF end, idx, N
    <3>6. b[x + i] = Blame(t)[from + (x + i)]
      <4> HIDE DEF x, before
      <4>1. x + i \in 1..n
        BY <2>7, <3>1
      <4> QED BY <4>1 DEF b, Part
    <3>7. range(k).start + i - 1 = idx[k].line + line - ChunkStart(t, k)
      <4>1. range(k).start = idx[k].line - ChunkStart(t, k) + from + x
        BY <2>8
      <4> HIDE DEF x
      <4> QED BY <3>1, <3>4, <4>1
    <3> HIDE DEF line, x
    <3>8. b[x + i] = LineKey(idx[k].commit, idx[k].line + line - ChunkStart(t, k))
      <4> DEFINE j == from + (x + i)
      <4>1. Blame(t)[j] = KeyAt(t, j - 1)
        <5>1. j \in 1..TotalLines(t)
          BY <3>2
        <5> HIDE DEF j
        <5> QED BY <2>4, <5>1
      <4>2. j - 1 = line
        <5> HIDE DEF before, b, ends
        <5> QED BY <3>1, <3>2
      <4>3. b[x + i] = Blame(t)[j]
        BY <3>6
      <4> HIDE DEF j
      <4> QED BY <3>5, <4>1, <4>2, <4>3
    <3> QED BY <2>3, <3>7, <3>8 DEF x
  <2> HIDE DEF before, b
  <2>10. /\ \A j \in 0..m : ends[j] \in Nat /\ ends[j] <= n
         /\ ends[0] = 0 /\ ends[m] = n
    <3>1. \A j \in 1..m : f + j - 1 \in f..l
      BY <2>1
    <3>2. f + m - 1 = l
      BY <2>1
    <3> QED BY <2>6, <2>7, <3>1, <3>2
  <2>11. ASSUME NEW j \in 1..m
         PROVE  seqs[j] = Part(b, ends[j - 1], ends[j] - ends[j - 1]) /\ ends[j - 1] <= ends[j]
    <3> DEFINE k == f + j - 1
               x == ends[j - 1]
    <3>1. /\ k \in f..l /\ j - 1 \in 0..m /\ j \in 0..m /\ j # 0 /\ f \in Int
          /\ j - 1 = 0 <=> k = f
          /\ f + (j - 1) - 1 = k - 1
      BY <2>1
    <3>2. ends[j] = before(k) /\ x = IF k = f THEN 0 ELSE before(k - 1)
      <4> HIDE DEF k
      <4> QED BY <3>1 DEF k
    <3>3. seqs[j] = keysOf(range(k))
      BY <2>6
    <3> HIDE DEF k, x, ends, keysOf
    <3>4. range(k).stop - range(k).start = ends[j] - x /\ x <= ends[j]
      BY <2>8, <3>1, <3>2
    <3>5. \A i \in 1..(range(k).stop - range(k).start) :
             LineKey(range(k).commit, range(k).start + i - 1) = b[x + i]
      BY <2>9, <3>1, <3>2
    <3>6. keysOf(range(k)) = [i \in 1..(ends[j] - x) |-> b[x + i]]
      BY <3>4, <3>5 DEF keysOf
    <3> QED BY <3>3, <3>4, <3>6 DEF x, Part
  <2> HIDE DEF ends, keysOf
  <2>13. FlattenSeq(seqs) = [i \in 1..n |-> b[i]]
    <3> DEFINE S == {b[i] : i \in 1..n}
    <3>1. \A i \in 1..ends[m] : b[i] \in S
      BY <2>10
    <3>2. FlattenSeq(seqs) = Part(b, 0, ends[m])
      <4> HIDE DEF S, m
      <4>1. \A j \in 0..m : ends[j] \in Nat
        BY <2>10
      <4>2. \A j \in 1..m : ends[j - 1] <= ends[j] /\ ends[j] <= ends[m]
        BY <2>6, <2>10, <2>11
      <4>3. \A j \in 1..m : seqs[j] = Part(b, ends[j - 1], ends[j] - ends[j - 1])
        BY <2>11
      <4>4. m \in Nat /\ m = Len(seqs) /\ m # 0 /\ ends[0] = 0
        BY <2>6, <2>10
      <4> HIDE DEF S
      <4>5. InBlocks(seqs, m, ends, b, S)
        BY ONLY <3>1, <4>1, <4>2, <4>3, <4>4 DEF InBlocks
      <4> QED BY <4>5, FlattenBlocks
    <3>3. Part(b, 0, n) = [i \in 1..n |-> b[i]]
      BY DEF Part
    <3> QED BY <2>10, <3>2, <3>3
  <2>14. [i \in 1..n |-> b[i]] = b
    BY DEF b, Part
  <2> QED BY <1>1, <2>13, <2>14 DEF R, b
<1> QED BY <1>2, <1>3

-----------------------------------------------------------------------------
(* Documents: what each operation does to the words, read with IndexOf.    *)

IsIndex(i) ==
  i = [word_history |-> i.word_history, commit_inclutivity |-> i.commit_inclutivity]

IsDocument(d) ==
  /\ d = [words |-> d.words, all_words |-> d.all_words,
          doc_modified_commits |-> d.doc_modified_commits, is_deleted |-> d.is_deleted]
  /\ d.words = [w \in DOMAIN d.words |-> d.words[w]]
  /\ \A w \in DOMAIN d.words : IsIndex(d.words[w])

History(d, w) == IndexOf(d, w).word_history
Bitmap(d, w) == IndexOf(d, w).commit_inclutivity

\* The record that an EXCEPT of a document makes.
Record(words, all, modified, deleted) ==
  [words |-> words, all_words |-> all, doc_modified_commits |-> modified, is_deleted |-> deleted]

\* An EXCEPT of a document that changes words and the commits, as a record.
LEMMA ModifiedDocument ==
  ASSUME NEW d, IsDocument(d), NEW x, NEW c
  PROVE  [d EXCEPT !.words = x, !.doc_modified_commits = @ \cup {c}]
           = Record(x, d.all_words, d.doc_modified_commits \cup {c}, d.is_deleted)
<1> DEFINE e == [d EXCEPT !.words = x]
<1>1. [d EXCEPT !.words = x, !.doc_modified_commits = @ \cup {c}]
        = [e EXCEPT !.doc_modified_commits = @ \cup {c}]
  BY Zenon
<1>2. e = Record(x, d.all_words, d.doc_modified_commits, d.is_deleted)
  BY DEF IsDocument, Record
<1> HIDE DEF e
<1>3. [e EXCEPT !.doc_modified_commits = @ \cup {c}]
        = Record(x, d.all_words, d.doc_modified_commits \cup {c}, d.is_deleted)
  BY <1>2 DEF Record
<1> QED BY <1>1, <1>3

\* An EXCEPT of a document that changes words and all_words, as a record.
LEMMA FinalizedDocument ==
  ASSUME NEW d, IsDocument(d), NEW x, NEW all
  PROVE  [d EXCEPT !.words = x, !.all_words = all]
           = Record(x, all, d.doc_modified_commits, d.is_deleted)
<1> DEFINE e == [d EXCEPT !.words = x]
<1>1. [d EXCEPT !.words = x, !.all_words = all] = [e EXCEPT !.all_words = all]
  BY Zenon
<1>2. e = Record(x, d.all_words, d.doc_modified_commits, d.is_deleted)
  BY DEF IsDocument, Record
<1> HIDE DEF e
<1>3. [e EXCEPT !.all_words = all] = Record(x, all, d.doc_modified_commits, d.is_deleted)
  BY <1>2 DEF Record
<1> QED BY <1>1, <1>3

\* A record with a map of word indexes is a document.
LEMMA MakeDocument ==
  ASSUME NEW words, NEW all, NEW modified, NEW deleted, NEW D,
         words = [w \in D |-> words[w]], \A w \in D : IsIndex(words[w])
  PROVE  LET u == Record(words, all, modified, deleted)
         IN  /\ IsDocument(u) /\ DOMAIN u.words = D
             /\ u.words = words /\ u.doc_modified_commits = modified
<1> DEFINE u == Record(words, all, modified, deleted)
<1>1. /\ u.words = words /\ u.doc_modified_commits = modified
      /\ u = [words |-> u.words, all_words |-> u.all_words,
              doc_modified_commits |-> u.doc_modified_commits, is_deleted |-> u.is_deleted]
  BY DEF Record
<1>2. DOMAIN words = D
  OBVIOUS
<1> HIDE DEF u
<1> QED BY <1>1, <1>2 DEF IsDocument, u

\* add_words: the words of the lines get keys and the bit of the commit.
LEMMA AddWordsResult ==
  ASSUME NEW d, IsDocument(d), NEW c, NEW tokens
  PROVE  LET u == AddWords(d, c, tokens)
         IN  /\ IsDocument(u)
             /\ DOMAIN u.words = DOMAIN d.words \cup DOMAIN tokens
             /\ u.doc_modified_commits = d.doc_modified_commits \cup {c}
             /\ \A w \in DOMAIN tokens :
                  /\ History(u, w) = History(d, w) \cup tokens[w]
                  /\ Bitmap(u, w) = Bitmap(d, w) \cup {c}
             /\ \A w : w \notin DOMAIN tokens =>
                  History(u, w) = History(d, w) /\ Bitmap(u, w) = Bitmap(d, w)
<1> DEFINE touched(w) ==
             [word_history       |-> IndexOf(d, w).word_history \cup tokens[w],
              commit_inclutivity |-> IndexOf(d, w).commit_inclutivity \cup {c}]
           D == DOMAIN d.words \cup DOMAIN tokens
           words == [w \in D |-> IF w \in DOMAIN tokens THEN touched(w) ELSE d.words[w]]
           u == AddWords(d, c, tokens)
<1>1. u = Record(words, d.all_words, d.doc_modified_commits \cup {c}, d.is_deleted)
  <2>1. u = [d EXCEPT !.words = words, !.doc_modified_commits = @ \cup {c}]
    BY DEF AddWords
  <2> HIDE DEF u, words
  <2> QED BY <2>1, ModifiedDocument
<1>2. \A w : IsIndex(touched(w)) /\ touched(w).word_history = History(d, w) \cup tokens[w]
                /\ touched(w).commit_inclutivity = Bitmap(d, w) \cup {c}
  BY DEF IsIndex, History, Bitmap
<1>3. /\ \A w \in DOMAIN tokens : words[w] = touched(w)
      /\ \A w \in DOMAIN d.words : w \notin DOMAIN tokens => words[w] = d.words[w]
      /\ words = [w \in D |-> words[w]]
  <2> HIDE DEF touched
  <2> QED OBVIOUS
<1> HIDE DEF words, u, touched
<1>4. \A w \in D : IsIndex(words[w])
  BY <1>2, <1>3 DEF IsDocument
<1>5. /\ IsDocument(u) /\ DOMAIN u.words = D /\ u.words = words
      /\ u.doc_modified_commits = d.doc_modified_commits \cup {c}
  <2> HIDE DEF D
  <2> QED BY <1>1, <1>3, <1>4, MakeDocument
<1>6. ASSUME NEW w \in DOMAIN tokens
      PROVE  History(u, w) = History(d, w) \cup tokens[w] /\ Bitmap(u, w) = Bitmap(d, w) \cup {c}
  <2>1. IndexOf(u, w) = touched(w)
    BY <1>3, <1>5 DEF IndexOf
  <2> QED BY <1>2, <2>1 DEF History, Bitmap
<1>7. ASSUME NEW w, w \notin DOMAIN tokens
      PROVE  History(u, w) = History(d, w) /\ Bitmap(u, w) = Bitmap(d, w)
  <2>1. IndexOf(u, w) = IndexOf(d, w)
    BY <1>3, <1>5, <1>7 DEF IndexOf
  <2> QED BY <2>1 DEF History, Bitmap
<1> QED BY <1>5, <1>6, <1>7 DEF u

\* The last bit of a bitmap, given one that no other bit exceeds.
IsLast(m, bits) == m \in bits /\ \A b \in bits : b <= m

\* RoaringBitmap::max of bits that have a last one.
LEMMA LastBitIs ==
  ASSUME NEW bits \in SUBSET Int, NEW m, IsLast(m, bits)
  PROVE  LastBit(bits) = m
<1> DEFINE x == CHOOSE x \in bits : \A y \in bits : x >= y
<1>1. m \in bits /\ \A y \in bits : m >= y
  BY DEF IsLast
<1>2. x \in bits /\ \A y \in bits : x >= y
  BY <1>1
<1> HIDE DEF x
<1>3. x = m
  BY <1>1, <1>2
<1> QED BY <1>3 DEF LastBit, Max, x

\* What is left of a word that may have lost lines: its bitmap changes only when
\* no line has it any more.
LEMMA AfterRemovalResult ==
  ASSUME NEW i, IsIndex(i), NEW c
  PROVE  LET u == AfterRemoval(i, c)
         IN  /\ IsIndex(u) /\ u.word_history = i.word_history
             /\ u.commit_inclutivity =
                  IF i.word_history # {} THEN i.commit_inclutivity
                  ELSE IF i.commit_inclutivity = {} THEN {c - 1}
                  ELSE InsertRange(i.commit_inclutivity, LastBit(i.commit_inclutivity), c - 1)
<1> DEFINE last == LastBit(i.commit_inclutivity)
           range(m) == InsertRange(i.commit_inclutivity, m, c - 1)
<1>1. AfterRemoval(i, c) =
        IF i.word_history # {} THEN i
        ELSE IF i.commit_inclutivity # {} THEN [i EXCEPT !.commit_inclutivity = range(last)]
        ELSE [i EXCEPT !.commit_inclutivity = {c - 1}]
  BY DEF AfterRemoval, IsIndex
<1> HIDE DEF last, range
<1>2. \A x : [i EXCEPT !.commit_inclutivity = x]
               = [word_history |-> i.word_history, commit_inclutivity |-> x]
  BY DEF IsIndex
<1>3. \A x : IsIndex([word_history |-> i.word_history, commit_inclutivity |-> x])
  BY DEF IsIndex
<1> QED BY <1>1, <1>2, <1>3 DEF last, range

\* The bitmap of a word that commit c has removed.
Filled(bits, c) ==
  IF bits = {} THEN {c - 1} ELSE InsertRange(bits, LastBit(bits), c - 1)

\* Words that lose the keys of deleted lines.
LEMMA RemoveWordsResult ==
  ASSUME NEW d, IsDocument(d), NEW c, NEW keys
  PROVE  LET u == RemoveWords(d, c, keys)
         IN  /\ IsDocument(u)
             /\ DOMAIN u.words = DOMAIN d.words
             /\ u.doc_modified_commits = d.doc_modified_commits \cup {c}
             /\ \A w \in DOMAIN keys :
                  /\ History(u, w) = History(d, w) \ keys[w]
                  /\ History(u, w) # {} \/ w \notin DOMAIN d.words => Bitmap(u, w) = Bitmap(d, w)
                  /\ History(u, w) = {} /\ w \in DOMAIN d.words =>
                       Bitmap(u, w) = Filled(Bitmap(d, w), c)
             /\ \A w : w \notin DOMAIN keys =>
                  History(u, w) = History(d, w) /\ Bitmap(u, w) = Bitmap(d, w)
<1> DEFINE cut(w) == [d.words[w] EXCEPT !.word_history = @ \ keys[w]]
           removed(w) == AfterRemoval(cut(w), c)
           D == DOMAIN d.words
           words == [w \in D |-> IF w \in DOMAIN keys THEN removed(w) ELSE d.words[w]]
           u == RemoveWords(d, c, keys)
<1>1. u = Record(words, d.all_words, d.doc_modified_commits \cup {c}, d.is_deleted)
  <2>1. u = [d EXCEPT !.words = words, !.doc_modified_commits = @ \cup {c}]
    BY DEF RemoveWords
  <2> HIDE DEF u, words
  <2> QED BY <2>1, ModifiedDocument
<1>2. ASSUME NEW w \in D
      PROVE  /\ IsIndex(cut(w)) /\ cut(w).word_history = History(d, w) \ keys[w]
             /\ cut(w).commit_inclutivity = Bitmap(d, w)
  <2>1. cut(w) = [word_history       |-> History(d, w) \ keys[w],
                  commit_inclutivity |-> Bitmap(d, w)]
    <3>1. IsIndex(d.words[w]) /\ IndexOf(d, w) = d.words[w]
      BY DEF IsDocument, IndexOf
    <3> QED BY <3>1 DEF IsIndex, History, Bitmap
  <2> HIDE DEF cut
  <2> QED BY <2>1 DEF IsIndex
<1>3. /\ \A w \in D : w \in DOMAIN keys => words[w] = removed(w)
      /\ \A w \in D : w \notin DOMAIN keys => words[w] = d.words[w]
      /\ words = [w \in D |-> words[w]]
  <2> HIDE DEF removed
  <2> QED OBVIOUS
<1> HIDE DEF cut
<1>4. ASSUME NEW w \in D
      PROVE  /\ IsIndex(removed(w)) /\ removed(w).word_history = History(d, w) \ keys[w]
             /\ removed(w).commit_inclutivity =
                  IF History(d, w) \ keys[w] # {} THEN Bitmap(d, w) ELSE Filled(Bitmap(d, w), c)
  <2>1. /\ IsIndex(cut(w)) /\ cut(w).word_history = History(d, w) \ keys[w]
        /\ cut(w).commit_inclutivity = Bitmap(d, w)
    BY <1>2
  <2> QED BY <2>1, AfterRemovalResult DEF Filled
<1> HIDE DEF words, u, removed
<1>5. \A w \in D : IsIndex(words[w])
  BY <1>3, <1>4 DEF IsDocument
<1>6. /\ IsDocument(u) /\ DOMAIN u.words = D /\ u.words = words
      /\ u.doc_modified_commits = d.doc_modified_commits \cup {c}
  <2> HIDE DEF D
  <2> QED BY <1>1, <1>3, <1>5, MakeDocument
<1>7. ASSUME NEW w \in DOMAIN keys
      PROVE  /\ History(u, w) = History(d, w) \ keys[w]
             /\ History(u, w) # {} \/ w \notin D => Bitmap(u, w) = Bitmap(d, w)
             /\ History(u, w) = {} /\ w \in D =>
                  Bitmap(u, w) = Filled(Bitmap(d, w), c)
  <2>1. CASE w \in D
    <3>1. IndexOf(u, w) = removed(w)
      BY <1>3, <1>6, <2>1 DEF IndexOf
    <3> QED BY <1>4, <2>1, <3>1 DEF History, Bitmap
  <2>2. CASE w \notin D
    <3>1. IndexOf(u, w) = DefaultWordIndex /\ IndexOf(d, w) = DefaultWordIndex
      BY <1>6, <2>2 DEF IndexOf
    <3> QED BY <2>2, <3>1 DEF History, Bitmap, DefaultWordIndex
  <2> QED BY <2>1, <2>2
<1>8. ASSUME NEW w, w \notin DOMAIN keys
      PROVE  History(u, w) = History(d, w) /\ Bitmap(u, w) = Bitmap(d, w)
  <2>1. IndexOf(u, w) = IndexOf(d, w)
    BY <1>3, <1>6, <1>8 DEF IndexOf
  <2> QED BY <2>1 DEF History, Bitmap
<1> QED BY <1>6, <1>7, <1>8 DEF u

\* The words of a file that is deleted.
LEMMA RemoveDocumentResult ==
  ASSUME NEW d, IsDocument(d), NEW c
  PROVE  LET u == RemoveDocument(d, c)
         IN  /\ IsDocument(u)
             /\ DOMAIN u.words = DOMAIN d.words
             /\ u.doc_modified_commits = d.doc_modified_commits \cup {c}
             /\ \A w : /\ History(u, w) = {}
                       /\ Bitmap(u, w) = IF History(d, w) = {} THEN Bitmap(d, w)
                                         ELSE InsertRange(Bitmap(d, w), LastBit(Bitmap(d, w)), c)
<1> DEFINE emptied(i) ==
             [word_history       |-> {},
              commit_inclutivity |-> InsertRange(i.commit_inclutivity,
                                                 LastBit(i.commit_inclutivity), c)]
           D == DOMAIN d.words
           words == [w \in D |-> IF d.words[w].word_history # {}
                                   THEN emptied(d.words[w]) ELSE d.words[w]]
           u == RemoveDocument(d, c)
           yes == TRUE
<1>1. u = Record(words, d.all_words, d.doc_modified_commits \cup {c}, yes)
  <2> DEFINE e == [d EXCEPT !.words = words, !.doc_modified_commits = @ \cup {c}]
  <2>1. u = [d EXCEPT !.words = words, !.doc_modified_commits = @ \cup {c}, !.is_deleted = yes]
    BY DEF RemoveDocument
  <2> HIDE DEF u, words, yes
  <2>2. u = [e EXCEPT !.is_deleted = yes]
    BY <2>1, Zenon
  <2>3. e = Record(words, d.all_words, d.doc_modified_commits \cup {c}, d.is_deleted)
    BY ModifiedDocument
  <2> HIDE DEF e
  <2> QED BY <2>2, <2>3 DEF Record
<1>2. \A i : /\ IsIndex(emptied(i)) /\ emptied(i).word_history = {}
             /\ emptied(i).commit_inclutivity
                  = InsertRange(i.commit_inclutivity, LastBit(i.commit_inclutivity), c)
  BY DEF IsIndex
<1>3. /\ \A w \in D : words[w] = IF d.words[w].word_history # {}
                                   THEN emptied(d.words[w]) ELSE d.words[w]
      /\ words = [w \in D |-> words[w]]
  <2> HIDE DEF emptied
  <2> QED OBVIOUS
<1> HIDE DEF words, u, emptied, yes
<1>4. \A w \in D : IsIndex(words[w])
  BY <1>2, <1>3 DEF IsDocument
<1>5. /\ IsDocument(u) /\ DOMAIN u.words = D /\ u.words = words
      /\ u.doc_modified_commits = d.doc_modified_commits \cup {c}
  <2> HIDE DEF D
  <2> QED BY <1>1, <1>3, <1>4, MakeDocument
<1>6. ASSUME NEW w
      PROVE  /\ History(u, w) = {}
             /\ Bitmap(u, w) = IF History(d, w) = {} THEN Bitmap(d, w)
                               ELSE InsertRange(Bitmap(d, w), LastBit(Bitmap(d, w)), c)
  <2>1. CASE w \in D
    <3>1. IndexOf(u, w) = words[w] /\ IndexOf(d, w) = d.words[w]
      BY <1>5, <2>1 DEF IndexOf
    <3> QED BY <1>2, <1>3, <2>1, <3>1 DEF History, Bitmap
  <2>2. CASE w \notin D
    <3>1. IndexOf(u, w) = DefaultWordIndex /\ IndexOf(d, w) = DefaultWordIndex
      BY <1>5, <2>2 DEF IndexOf
    <3> QED BY <2>2, <3>1 DEF History, Bitmap, DefaultWordIndex
  <2> QED BY <2>1, <2>2
<1> QED BY <1>5, <1>6 DEF u

\* The words of a document finalized at a head.
LEMMA FinalizeResult ==
  ASSUME NEW d, IsDocument(d), NEW head
  PROVE  LET u == Finalize(d, head)
         IN  /\ IsDocument(u)
             /\ DOMAIN u.words = DOMAIN d.words
             /\ u.doc_modified_commits = d.doc_modified_commits
             /\ \A w : /\ History(u, w) = History(d, w)
                       /\ head \in Bitmap(d, w) \/ History(d, w) = {} => Bitmap(u, w) = Bitmap(d, w)
                       /\ head \notin Bitmap(d, w) /\ History(d, w) # {} =>
                            Bitmap(u, w) = IF Bitmap(d, w) = {} THEN {head}
                                           ELSE InsertRange(Bitmap(d, w), LastBit(Bitmap(d, w)), head + 1)
<1> DEFINE range(i) == InsertRange(i.commit_inclutivity, LastBit(i.commit_inclutivity), head + 1)
           filled(i) ==
             IF head \in i.commit_inclutivity \/ i.word_history = {} THEN i
             ELSE IF i.commit_inclutivity # {} THEN [i EXCEPT !.commit_inclutivity = range(i)]
             ELSE [i EXCEPT !.commit_inclutivity = {head}]
           D == DOMAIN d.words
           words == [w \in D |-> filled(d.words[w])]
           u == Finalize(d, head)
<1>1. u = Record(words, <<D>>, d.doc_modified_commits, d.is_deleted)
  <2>1. u = [d EXCEPT !.words = words, !.all_words = <<D>>]
    BY DEF Finalize
  <2> HIDE DEF u, words, D
  <2> QED BY <2>1, FinalizedDocument
<1>2. ASSUME NEW i, IsIndex(i)
      PROVE  /\ IsIndex(filled(i)) /\ filled(i).word_history = i.word_history
             /\ filled(i).commit_inclutivity =
                  IF head \in i.commit_inclutivity \/ i.word_history = {} THEN i.commit_inclutivity
                  ELSE IF i.commit_inclutivity # {} THEN range(i) ELSE {head}
  <2> HIDE DEF range
  <2>1. \A x : [i EXCEPT !.commit_inclutivity = x]
                 = [word_history |-> i.word_history, commit_inclutivity |-> x]
    BY <1>2 DEF IsIndex
  <2>2. \A x : IsIndex([word_history |-> i.word_history, commit_inclutivity |-> x])
    BY DEF IsIndex
  <2> QED BY <1>2, <2>1, <2>2
<1>3. /\ \A w \in D : words[w] = filled(d.words[w])
      /\ words = [w \in D |-> words[w]]
  <2> HIDE DEF filled
  <2> QED OBVIOUS
<1> HIDE DEF words, u, filled
<1>4. \A w \in D : IsIndex(words[w])
  BY <1>2, <1>3 DEF IsDocument
<1>5. /\ IsDocument(u) /\ DOMAIN u.words = D /\ u.words = words
      /\ u.doc_modified_commits = d.doc_modified_commits
  <2> HIDE DEF D
  <2> QED BY <1>1, <1>3, <1>4, MakeDocument
<1>6. ASSUME NEW w
      PROVE  /\ History(u, w) = History(d, w)
             /\ head \in Bitmap(d, w) \/ History(d, w) = {} => Bitmap(u, w) = Bitmap(d, w)
             /\ head \notin Bitmap(d, w) /\ History(d, w) # {} =>
                  Bitmap(u, w) = IF Bitmap(d, w) = {} THEN {head}
                                 ELSE InsertRange(Bitmap(d, w), LastBit(Bitmap(d, w)), head + 1)
  <2>1. CASE w \in D
    <3>1. IndexOf(u, w) = words[w] /\ IndexOf(d, w) = d.words[w] /\ IsIndex(d.words[w])
      BY <1>5, <2>1 DEF IndexOf, IsDocument
    <3> QED BY <1>2, <1>3, <2>1, <3>1 DEF History, Bitmap
  <2>2. CASE w \notin D
    <3>1. IndexOf(u, w) = DefaultWordIndex /\ IndexOf(d, w) = DefaultWordIndex
      BY <1>5, <2>2 DEF IndexOf
    <3> QED BY <2>2, <3>1 DEF History, Bitmap, DefaultWordIndex
  <2> QED BY <2>1, <2>2
<1> QED BY <1>5, <1>6 DEF u

-----------------------------------------------------------------------------
(* Lines and keys: what an insertion and a cut do to the keys of a word.   *)

\* The keys, one per line, of the lines that contain w.
KeysWith(lines, keys, w) == {keys[i] : i \in {j \in DOMAIN lines : w \in lines[j]}}

\* Where the elements of a sequence are after an insertion.
LEMMA InsertFacts ==
  ASSUME NEW S, NEW s \in Seq(S), NEW new \in Seq(S), NEW at \in 0..Len(s)
  PROVE  LET r == Insert(s, at, new)
         IN  /\ r \in Seq(S) /\ Len(r) = Len(s) + Len(new)
             /\ \A i \in 1..at : r[i] = s[i]
             /\ \A i \in 1..Len(new) : at + i \in 1..Len(r) /\ r[at + i] = new[i]
             /\ \A i \in (at + 1)..Len(s) : i + Len(new) \in 1..Len(r) /\ r[i + Len(new)] = s[i]
             /\ \A i \in 1..Len(r) : \/ i \in 1..at
                                     \/ i - at \in 1..Len(new)
                                     \/ i - Len(new) \in (at + 1)..Len(s)
<1> DEFINE r == Insert(s, at, new)
           n == Len(s)
           m == Len(new)
<1>1. /\ n \in Nat /\ m \in Nat
      /\ \A i \in 1..n : s[i] \in S
      /\ \A i \in 1..m : new[i] \in S
  BY SeqElements
<1>2. /\ r = [i \in 1..(n + m) |-> r[i]]
      /\ \A i \in 1..(n + m) : r[i] = IF i <= at THEN s[i] ELSE IF i <= at + m THEN new[i - at] ELSE s[i - m]
  BY DEF Insert
<1>0. at \in 0..n /\ n + m \in Nat
  BY <1>1
<1> HIDE DEF r, n, m
<1>3. \A i \in 1..at : i \in 1..n /\ i \in 1..(n + m) /\ r[i] = s[i]
  BY <1>0, <1>1, <1>2
<1>4. \A i \in 1..m : at + i \in 1..(n + m) /\ r[at + i] = new[i]
  <2>1. ASSUME NEW i \in 1..m PROVE at + i \in 1..(n + m) /\ r[at + i] = new[i]
    <3>1. at + i \in 1..(n + m) /\ ~ (at + i <= at) /\ at + i <= at + m /\ at + i - at = i
      BY <1>0, <1>1
    <3> QED BY <1>2, <3>1
  <2> QED BY <2>1
<1>5. \A i \in (at + 1)..n : i + m \in 1..(n + m) /\ r[i + m] = s[i]
  <2>1. ASSUME NEW i \in (at + 1)..n PROVE i + m \in 1..(n + m) /\ r[i + m] = s[i]
    <3>0. at \in Nat /\ i \in Nat /\ at < i /\ i <= n /\ n \in Nat /\ m \in Nat
      BY <1>0, <1>1
    <3> DEFINE k == i + m
    <3>1. k \in 1..(n + m) /\ ~ (k <= at) /\ ~ (k <= at + m) /\ k - m = i
      BY ONLY <3>0
    <3> HIDE DEF k
    <3>2. r[k] = s[i]
      BY <1>2, <3>1
    <3> QED BY <3>1, <3>2 DEF k
  <2> QED BY <2>1
<1>6. \A i \in 1..(n + m) : \/ i \in 1..at \/ i - at \in 1..m \/ i - m \in (at + 1)..n
  BY <1>1
<1>7. \A i \in 1..(n + m) : r[i] \in S
  <2>1. ASSUME NEW i \in 1..(n + m) PROVE r[i] \in S
    <3>1. CASE i \in 1..at
      BY <1>1, <1>3, <3>1
    <3>2. CASE i - at \in 1..m
      <4>1. at + (i - at) = i
        BY <1>1
      <4> QED BY <1>1, <1>4, <3>2, <4>1
    <3>3. CASE i - m \in (at + 1)..n
      <4>1. (i - m) + m = i /\ i - m \in 1..n
        BY <1>1, <3>3
      <4> QED BY <1>1, <1>5, <3>3, <4>1
    <3> QED BY <1>6, <3>1, <3>2, <3>3
  <2> QED BY <2>1
<1>8. r \in Seq(S) /\ Len(r) = n + m
  BY <1>0, <1>2, <1>7, MakeSeq
<1> QED BY <1>3, <1>4, <1>5, <1>6, <1>8 DEF r, n, m

\* Where the elements of a sequence are after a cut.
LEMMA CutFacts ==
  ASSUME NEW S, NEW s \in Seq(S), NEW at \in Nat, NEW n \in Nat, at + n <= Len(s)
  PROVE  LET r == Cut(s, at, n)
         IN  /\ r \in Seq(S) /\ Len(r) = Len(s) - n
             /\ \A i \in 1..at : i \in 1..Len(r) /\ r[i] = s[i]
             /\ \A i \in (at + 1)..Len(r) : i + n \in 1..Len(s) /\ r[i] = s[i + n]
             /\ \A i \in (at + n + 1)..Len(s) : i - n \in 1..Len(r) /\ r[i - n] = s[i]
<1> DEFINE r == Cut(s, at, n)
           m == Len(s)
<1>1. m \in Nat /\ \A i \in 1..m : s[i] \in S
  BY SeqElements
<1>2. /\ r = [i \in 1..(m - n) |-> r[i]]
      /\ \A i \in 1..(m - n) : r[i] = IF i <= at THEN s[i] ELSE s[i + n]
  BY DEF Cut
<1> HIDE DEF r, m
<1>3. m - n \in Nat /\ at + n <= m
  BY <1>1 DEF m
<1>4. \A i \in 1..at : i \in 1..m /\ i \in 1..(m - n) /\ r[i] = s[i]
  BY <1>1, <1>2, <1>3
<1>5. \A i \in (at + 1)..(m - n) : i + n \in 1..m /\ i \in 1..(m - n) /\ r[i] = s[i + n]
  BY <1>1, <1>2, <1>3
<1>6. \A i \in (at + n + 1)..m : i - n \in 1..(m - n) /\ r[i - n] = s[i]
  <2>1. ASSUME NEW i \in (at + n + 1)..m PROVE i - n \in 1..(m - n) /\ r[i - n] = s[i]
    <3>1. i - n \in (at + 1)..(m - n) /\ i - n \in 1..(m - n) /\ (i - n) + n = i
      BY <1>1, <1>3
    <3> QED BY <1>5, <3>1
  <2> QED BY <2>1
<1>7. \A i \in 1..(m - n) : r[i] \in S
  <2>1. \A i \in 1..(m - n) : i \in 1..at \/ i \in (at + 1)..(m - n)
    BY <1>3
  <2> QED BY <1>1, <1>4, <1>5, <2>1
<1>8. r \in Seq(S) /\ Len(r) = m - n
  BY <1>2, <1>3, <1>7, MakeSeq
<1> QED BY <1>4, <1>5, <1>6, <1>8 DEF r, m

\* Lines put in with their keys: a word gains the keys of those that contain it.
LEMMA InsertKeys ==
  ASSUME NEW S, NEW lines \in Seq(S), NEW added \in Seq(S), NEW at \in 0..Len(lines),
         NEW K, NEW blame \in Seq(K), NEW keys \in Seq(K),
         Len(blame) = Len(lines), Len(keys) = Len(added), NEW w
  PROVE  KeysWith(Insert(lines, at, added), Insert(blame, at, keys), w)
           = KeysWith(lines, blame, w) \cup KeysWith(added, keys, w)
<1> DEFINE n  == Len(lines)
           m  == Len(added)
           r  == Insert(lines, at, added)
           b  == Insert(blame, at, keys)
<1>1. n \in Nat /\ m \in Nat /\ DOMAIN lines = 1..n /\ DOMAIN added = 1..m
  BY SeqElements
<1>2. /\ Len(r) = n + m /\ DOMAIN r = 1..Len(r)
      /\ \A i \in 1..at : r[i] = lines[i]
      /\ \A i \in 1..m : at + i \in 1..Len(r) /\ r[at + i] = added[i]
      /\ \A i \in (at + 1)..n : i + m \in 1..Len(r) /\ r[i + m] = lines[i]
      /\ \A i \in 1..Len(r) : i \in 1..at \/ i - at \in 1..m \/ i - m \in (at + 1)..n
  BY InsertFacts
<1>3. /\ \A i \in 1..at : b[i] = blame[i]
      /\ \A i \in 1..m : b[at + i] = keys[i]
      /\ \A i \in (at + 1)..n : b[i + m] = blame[i]
  <2>1. at \in 0..Len(blame) /\ Len(blame) = n /\ Len(keys) = m
    OBVIOUS
  <2>2. /\ \A i \in 1..at : b[i] = blame[i]
        /\ \A i \in 1..Len(keys) : b[at + i] = keys[i]
        /\ \A i \in (at + 1)..Len(blame) : b[i + Len(keys)] = blame[i]
    <3>1. blame \in Seq(K) /\ keys \in Seq(K) /\ at \in 0..Len(blame)
      BY <2>1
    <3>2. \A i \in 1..at : b[i] = blame[i]
      BY ONLY <3>1, InsertFacts
    <3>3. \A i \in 1..Len(keys) : b[at + i] = keys[i]
      BY ONLY <3>1, InsertFacts
    <3>4. \A i \in (at + 1)..Len(blame) : b[i + Len(keys)] = blame[i]
      BY ONLY <3>1, InsertFacts
    <3> QED BY ONLY <3>2, <3>3, <3>4
  <2> HIDE DEF b, n, m
  <2> QED BY <2>1, <2>2
<1>4. at \in 0..n
  OBVIOUS
<1> HIDE DEF r, b, n, m
<1>5. ASSUME NEW x \in KeysWith(r, b, w)
      PROVE  x \in KeysWith(lines, blame, w) \cup KeysWith(added, keys, w)
  <2>1. PICK i \in 1..Len(r) : w \in r[i] /\ x = b[i]
    BY <1>2 DEF KeysWith
  <2>2. CASE i \in 1..at
    <3>1. i \in 1..n /\ w \in lines[i] /\ x = blame[i]
      BY <1>1, <1>2, <1>3, <1>4, <2>1, <2>2
    <3> QED BY <1>1, <3>1 DEF KeysWith
  <2>3. CASE i - at \in 1..m
    <3>1. at + (i - at) = i
      BY <1>4
    <3>2. w \in added[i - at] /\ x = keys[i - at]
      BY <1>2, <1>3, <2>1, <2>3, <3>1
    <3> QED BY <1>1, <2>3, <3>2 DEF KeysWith
  <2>4. CASE i - m \in (at + 1)..n
    <3>1. (i - m) + m = i /\ i - m \in 1..n
      BY <1>1, <1>4, <2>4
    <3>2. w \in lines[i - m] /\ x = blame[i - m]
      BY <1>2, <1>3, <2>1, <2>4, <3>1
    <3> QED BY <1>1, <3>1, <3>2 DEF KeysWith
  <2> QED BY <1>2, <2>2, <2>3, <2>4
<1>6. ASSUME NEW x \in KeysWith(lines, blame, w)
      PROVE  x \in KeysWith(r, b, w)
  <2>1. PICK i \in 1..n : w \in lines[i] /\ x = blame[i]
    BY <1>1 DEF KeysWith
  <2>2. CASE i \in 1..at
    <3>1. i \in 1..Len(r) /\ w \in r[i] /\ x = b[i]
      BY <1>1, <1>2, <1>3, <1>4, <2>1, <2>2
    <3> QED BY <1>2, <3>1 DEF KeysWith
  <2>3. CASE i \in (at + 1)..n
    <3>1. i + m \in 1..Len(r) /\ w \in r[i + m] /\ x = b[i + m]
      BY <1>2, <1>3, <2>1, <2>3
    <3> QED BY <1>2, <3>1 DEF KeysWith
  <2> QED BY <1>1, <1>4, <2>2, <2>3
<1>7. ASSUME NEW x \in KeysWith(added, keys, w)
      PROVE  x \in KeysWith(r, b, w)
  <2>1. PICK i \in 1..m : w \in added[i] /\ x = keys[i]
    BY <1>1 DEF KeysWith
  <2>2. at + i \in 1..Len(r) /\ w \in r[at + i] /\ x = b[at + i]
    BY <1>2, <1>3, <2>1
  <2> QED BY <1>2, <2>2 DEF KeysWith
<1> QED BY <1>5, <1>6, <1>7 DEF r, b

\* Distinct keys put among distinct others stay distinct.
LEMMA InsertDistinct ==
  ASSUME NEW K, NEW blame \in Seq(K), NEW keys \in Seq(K), NEW at \in 0..Len(blame),
         \A i, j \in 1..Len(blame) : blame[i] = blame[j] => i = j,
         \A i, j \in 1..Len(keys) : keys[i] = keys[j] => i = j,
         \A i \in 1..Len(blame) : \A j \in 1..Len(keys) : blame[i] # keys[j],
         NEW i \in 1..(Len(blame) + Len(keys)), NEW j \in 1..(Len(blame) + Len(keys)),
         Insert(blame, at, keys)[i] = Insert(blame, at, keys)[j]
  PROVE  i = j
<1> DEFINE n == Len(blame)
           m == Len(keys)
           b == Insert(blame, at, keys)
<1>1. n \in Nat /\ m \in Nat /\ at \in 0..n
  BY SeqElements
<1>2. /\ Len(b) = n + m
      /\ \A k \in 1..at : b[k] = blame[k]
      /\ \A k \in 1..m : b[at + k] = keys[k]
      /\ \A k \in (at + 1)..n : b[k + m] = blame[k]
      /\ \A k \in 1..Len(b) : k \in 1..at \/ k - at \in 1..m \/ k - m \in (at + 1)..n
  <2>1. blame \in Seq(K) /\ keys \in Seq(K) /\ at \in 0..Len(blame)
    OBVIOUS
  <2>2. Len(b) = n + m /\ \A k \in 1..at : b[k] = blame[k]
    BY ONLY <2>1, InsertFacts
  <2>3. \A k \in 1..m : b[at + k] = keys[k]
    BY ONLY <2>1, InsertFacts
  <2>4. \A k \in (at + 1)..n : b[k + m] = blame[k]
    BY ONLY <2>1, InsertFacts
  <2>5. \A k \in 1..Len(b) : k \in 1..at \/ k - at \in 1..m \/ k - m \in (at + 1)..n
    BY ONLY <2>1, InsertFacts
  <2> QED BY ONLY <2>2, <2>3, <2>4, <2>5
<1>3. b[i] = b[j] /\ i \in 1..(n + m) /\ j \in 1..(n + m)
  OBVIOUS
<1> DEFINE old(k) == IF k <= at THEN k ELSE k - m
<1> HIDE DEF n, m, b
<1>4. ASSUME NEW k \in 1..(n + m)
      PROVE  \/ k - at \in 1..m /\ b[k] = keys[k - at]
             \/ old(k) \in 1..n /\ b[k] = blame[old(k)] /\ (k <= at \/ k > at + m)
  <2>1. CASE k \in 1..at
    BY <1>1, <1>2, <2>1
  <2>2. CASE k - at \in 1..m
    <3>1. at + (k - at) = k
      BY <1>1
    <3> QED BY <1>2, <2>2, <3>1
  <2>3. CASE k - m \in (at + 1)..n
    <3>1. (k - m) + m = k /\ ~ (k <= at) /\ k > at + m /\ k - m \in 1..n
      BY <1>1, <2>3
    <3> QED BY <1>2, <2>3, <3>1
  <2> QED BY <1>2, <2>1, <2>2, <2>3
<1>5. CASE i - at \in 1..m /\ b[i] = keys[i - at] /\ j - at \in 1..m /\ b[j] = keys[j - at]
  <2>1. i - at = j - at
    BY <1>3, <1>5 DEF m
  <2> QED BY <1>1, <2>1
<1>6. CASE /\ old(i) \in 1..n /\ b[i] = blame[old(i)] /\ (i <= at \/ i > at + m)
           /\ old(j) \in 1..n /\ b[j] = blame[old(j)] /\ (j <= at \/ j > at + m)
  <2>1. old(i) = old(j)
    <3> HIDE DEF old
    <3> QED BY <1>3, <1>6 DEF n
  <2> QED BY <1>1, <1>6, <2>1
<1> HIDE DEF old
<1>7. ~ (\E k, l \in 1..(n + m) : /\ k - at \in 1..m /\ b[k] = keys[k - at]
                                  /\ old(l) \in 1..n /\ b[l] = blame[old(l)] /\ b[k] = b[l])
  BY DEF n, m
<1> QED BY <1>3, <1>4, <1>5, <1>6, <1>7

\* The n lines after line at are `deleted`, their keys `keys`, and no key occurs twice.
CutArguments(S, lines, K, blame, at, n, deleted, keys) ==
  /\ lines \in Seq(S) /\ blame \in Seq(K) /\ Len(blame) = Len(lines)
  /\ \A i, j \in 1..Len(blame) : blame[i] = blame[j] => i = j
  /\ at \in Nat /\ n \in Nat /\ at + n <= Len(lines)
  /\ deleted \in Seq(S) /\ Len(deleted) = n
  /\ \A i \in 1..n : deleted[i] = lines[at + i] /\ keys[i] = blame[at + i]

\* Lines taken out: a word loses the keys of those that contained it, and no other.
LEMMA CutKeys ==
  ASSUME NEW S, NEW lines, NEW K, NEW blame, NEW at, NEW n, NEW deleted, NEW keys,
         CutArguments(S, lines, K, blame, at, n, deleted, keys), NEW w
  PROVE  KeysWith(Cut(lines, at, n), Cut(blame, at, n), w)
           = KeysWith(lines, blame, w) \ KeysWith(deleted, keys, w)
<1> DEFINE N == Len(lines)
           r == Cut(lines, at, n)
           b == Cut(blame, at, n)
<1> SUFFICES ASSUME lines \in Seq(S), blame \in Seq(K), Len(blame) = Len(lines),
                    \A i, j \in 1..Len(blame) : blame[i] = blame[j] => i = j,
                    at \in Nat, n \in Nat, at + n <= Len(lines),
                    deleted \in Seq(S), Len(deleted) = n,
                    \A i \in 1..n : deleted[i] = lines[at + i] /\ keys[i] = blame[at + i]
             PROVE  KeysWith(r, b, w) = KeysWith(lines, blame, w) \ KeysWith(deleted, keys, w)
  BY DEF CutArguments
<1>1. /\ N \in Nat /\ at + n <= N
      /\ DOMAIN lines = 1..N /\ DOMAIN deleted = 1..n
  BY SeqElements
<1>2. /\ DOMAIN r = 1..(N - n)
      /\ \A i \in 1..at : i \in 1..(N - n) /\ r[i] = lines[i]
      /\ \A i \in (at + 1)..(N - n) : i + n \in 1..N /\ r[i] = lines[i + n]
      /\ \A i \in (at + n + 1)..N : i - n \in 1..(N - n) /\ r[i - n] = lines[i]
  <2>1. lines \in Seq(S) /\ at \in Nat /\ n \in Nat /\ at + n <= Len(lines)
    OBVIOUS
  <2>2. r \in Seq(S) /\ Len(r) = N - n
    BY ONLY <2>1, CutFacts
  <2>4. \A i \in 1..at : i \in 1..Len(r) /\ r[i] = lines[i]
    BY ONLY <2>1, CutFacts
  <2>5. \A i \in (at + 1)..Len(r) : i + n \in 1..N /\ r[i] = lines[i + n]
    BY ONLY <2>1, CutFacts
  <2>6. \A i \in (at + n + 1)..N : i - n \in 1..Len(r) /\ r[i - n] = lines[i]
    BY ONLY <2>1, CutFacts
  <2>3. DOMAIN r = 1..Len(r)
    BY ONLY <2>2, SeqElements
  <2> HIDE DEF r, N
  <2> QED BY ONLY <2>2, <2>3, <2>4, <2>5, <2>6
<1>3. /\ \A i \in 1..at : b[i] = blame[i]
      /\ \A i \in (at + 1)..(N - n) : b[i] = blame[i + n]
      /\ \A i \in (at + n + 1)..N : b[i - n] = blame[i]
  <2>1. /\ blame \in Seq(K) /\ at \in Nat /\ n \in Nat
        /\ at + n <= Len(blame) /\ Len(blame) = N
    OBVIOUS
  <2>2. /\ \A i \in 1..at : b[i] = blame[i]
        /\ \A i \in (at + 1)..(Len(blame) - n) : b[i] = blame[i + n]
        /\ \A i \in (at + n + 1)..Len(blame) : b[i - n] = blame[i]
    <3>1. /\ Len(b) = Len(blame) - n
          /\ \A i \in 1..at : b[i] = blame[i]
          /\ \A i \in (at + 1)..Len(b) : b[i] = blame[i + n]
          /\ \A i \in (at + n + 1)..Len(blame) : b[i - n] = blame[i]
      BY ONLY <2>1, CutFacts
    <3> QED BY ONLY <3>1
  <2> HIDE DEF b, N
  <2> QED BY <2>1, <2>2
<1>4. /\ \A i, j \in 1..N : blame[i] = blame[j] => i = j
      /\ \A i \in 1..n : deleted[i] = lines[at + i] /\ keys[i] = blame[at + i]
  OBVIOUS
<1> HIDE DEF r, b, N
<1>5. ASSUME NEW x \in KeysWith(r, b, w)
      PROVE  x \in KeysWith(lines, blame, w) \ KeysWith(deleted, keys, w)
  <2>1. PICK i \in 1..(N - n) : w \in r[i] /\ x = b[i]
    BY <1>2 DEF KeysWith
  <2>2. PICK k \in 1..N : /\ w \in lines[k] /\ x = blame[k]
                          /\ k <= at \/ k > at + n
    <3>1. CASE i \in 1..at
      <4>1. i \in 1..N
        BY <1>1, <3>1
      <4> QED BY <1>2, <1>3, <2>1, <3>1, <4>1
    <3>2. CASE i \in (at + 1)..(N - n)
      <4> DEFINE k == i + n
      <4>1. k \in 1..N /\ k > at + n
        BY <1>1, <3>2
      <4>2. w \in lines[k] /\ x = blame[k]
        BY <1>2, <1>3, <2>1, <3>2
      <4> HIDE DEF k
      <4> QED BY <4>1, <4>2
    <3> QED BY <2>1, <3>1, <3>2
  <2>3. x \in KeysWith(lines, blame, w)
    BY <1>1, <2>2 DEF KeysWith
  <2>4. ASSUME x \in KeysWith(deleted, keys, w) PROVE FALSE
    <3>1. PICK j \in 1..n : x = keys[j]
      BY <1>1, <2>4 DEF KeysWith
    <3> DEFINE l == at + j
    <3>2. l \in 1..N /\ ~ (l <= at) /\ ~ (l > at + n)
      BY <1>1
    <3>3. x = blame[l]
      BY <1>4, <3>1
    <3> HIDE DEF l
    <3>4. l = k
      BY <1>4, <2>2, <3>2, <3>3
    <3> QED BY <2>2, <3>2, <3>4
  <2> QED BY <2>3, <2>4
<1>6. ASSUME NEW x \in KeysWith(lines, blame, w), x \notin KeysWith(deleted, keys, w)
      PROVE  x \in KeysWith(r, b, w)
  <2>1. PICK k \in 1..N : w \in lines[k] /\ x = blame[k]
    BY <1>1 DEF KeysWith
  <2>2. CASE k \in 1..at
    <3>1. k \in 1..(N - n) /\ w \in r[k] /\ x = b[k]
      BY <1>2, <1>3, <2>1, <2>2
    <3> QED BY <1>2, <3>1 DEF KeysWith
  <2>3. CASE k \in (at + 1)..(at + n)
    <3> DEFINE j == k - at
    <3>1. j \in 1..n /\ at + j = k
      BY <2>3
    <3>2. w \in deleted[j] /\ x = keys[j]
      <4> HIDE DEF j
      <4> QED BY <1>4, <2>1, <3>1
    <3> HIDE DEF j
    <3> QED BY <1>1, <1>6, <3>1, <3>2 DEF KeysWith
  <2>4. CASE k \in (at + n + 1)..N
    <3> DEFINE j == k - n
    <3>1. j \in 1..(N - n) /\ w \in r[j] /\ x = b[j]
      BY <1>2, <1>3, <2>1, <2>4
    <3> HIDE DEF j
    <3> QED BY <1>2, <3>1 DEF KeysWith
  <2> QED BY <1>1, <2>2, <2>3, <2>4
<1> QED BY <1>5, <1>6 DEF r, b

\* Distinct keys stay distinct when some are cut.
LEMMA CutDistinct ==
  ASSUME NEW K, NEW blame \in Seq(K),
         \A i, j \in 1..Len(blame) : blame[i] = blame[j] => i = j,
         NEW at \in Nat, NEW n \in Nat, at + n <= Len(blame),
         NEW i \in 1..(Len(blame) - n), NEW j \in 1..(Len(blame) - n),
         Cut(blame, at, n)[i] = Cut(blame, at, n)[j]
  PROVE  i = j
<1> DEFINE N == Len(blame)
           b == Cut(blame, at, n)
           old(k) == IF k <= at THEN k ELSE k + n
<1>1. /\ N \in Nat /\ at + n <= N /\ b[i] = b[j] /\ i \in 1..(N - n) /\ j \in 1..(N - n)
      /\ \A k, l \in 1..N : blame[k] = blame[l] => k = l
  BY SeqElements
<1>2. \A k \in 1..(N - n) : b[k] = blame[old(k)]
  BY DEF Cut
<1>3. old(i) \in 1..N /\ old(j) \in 1..N /\ (old(i) = old(j) => i = j)
  BY <1>1
<1> HIDE DEF N, b, old
<1> QED BY <1>1, <1>2, <1>3

-----------------------------------------------------------------------------
(* The state of a file: hunk by hunk, the index follows the lines.         *)

\* split_lines_to_tokens: each word of the lines, with the keys of its lines.
LEMMA TokensResult ==
  ASSUME NEW S, NEW lines \in Seq(S), NEW keys
  PROVE  /\ DOMAIN Tokens(lines, keys) = WordsIn(lines)
         /\ \A w \in WordsIn(lines) : Tokens(lines, keys)[w] = KeysWith(lines, keys, w)
         /\ \A w : w \notin WordsIn(lines) => KeysWith(lines, keys, w) = {}
<1>1. \A w : w \in WordsIn(lines) <=> \E i \in DOMAIN lines : w \in lines[i]
  BY DEF WordsIn
<1>2. DOMAIN Tokens(lines, keys) = WordsIn(lines)
  BY DEF Tokens
<1>3. \A w \in WordsIn(lines) : Tokens(lines, keys)[w] = KeysWith(lines, keys, w)
  BY DEF Tokens, KeysWith
<1> QED BY <1>1, <1>2, <1>3 DEF KeysWith

\* The keys of the lines a commit adds are distinct and in order.
LEMMA NewKeysFacts ==
  ASSUME NEW C, NEW c \in C, NEW from \in Nat, NEW n \in Nat
  PROVE  LET keys == NewKeys(n, c, from)
         IN  /\ keys \in Seq(KeySet(C)) /\ Len(keys) = n
             /\ \A i \in 1..n : keys[i].commit = c
             /\ \A i \in 1..n : keys[i].line = from + i - 1
             /\ \A i, j \in 1..n : keys[i] = keys[j] => i = j
<1> DEFINE keys == NewKeys(n, c, from)
<1>1. keys = [i \in 1..n |-> LineKey(c, from + i - 1)]
  BY DEF NewKeys, LineKey
<1>2. ASSUME NEW i \in 1..n
      PROVE  /\ keys[i] = LineKey(c, from + i - 1) /\ keys[i] \in KeySet(C)
             /\ keys[i].commit = c /\ keys[i].line = from + i - 1
  <2>1. keys[i] = LineKey(c, from + i - 1) /\ from + i - 1 \in Nat
    BY <1>1
  <2> QED BY <2>1 DEF LineKey, KeySet
<1>3. \A i, j \in 1..n : keys[i] = keys[j] => i = j
  <2>1. ASSUME NEW i \in 1..n, NEW j \in 1..n, keys[i] = keys[j] PROVE i = j
    <3>1. from + i - 1 = from + j - 1
      BY <1>2, <2>1
    <3> QED BY <3>1
  <2> QED BY <2>1
<1>4. keys = [i \in 1..n |-> keys[i]]
  BY DEF NewKeys
<1> HIDE DEF keys
<1> QED BY <1>1, <1>2, <1>3, <1>4, MakeSeq DEF keys

\* A sound tracker has a key for every line.
LEMMA BlameType ==
  ASSUME NEW C, NEW t, TrackerShape(t, C)
  PROVE  Blame(t) \in Seq(KeySet(C)) /\ Len(Blame(t)) = TotalLines(t) /\ TotalLines(t) \in Nat
<1>1. Len(Blame(t)) = TotalLines(t) /\ TotalLines(t) \in Nat
  BY BlameIsSequence
<1>2. \A i \in 1..TotalLines(t) : Blame(t)[i] \in KeySet(C)
  <2>1. ASSUME NEW i \in 1..TotalLines(t) PROVE Blame(t)[i] \in KeySet(C)
    <3> DEFINE l == i - 1
               k == FindChunk(t, l)
    <3>1. l \in Nat /\ l < TotalLines(t)
      BY <1>1
    <3> HIDE DEF l
    <3>2. /\ k \in 1..ChunkCount(t) /\ ChunkStart(t, k) <= l /\ ChunkStart(t, k) \in Nat
          /\ t.commit_indexes[k] \in KeySet(C)
      BY <3>1, ChunkOfLine
    <3>3. KeyAt(t, l) = LineKey(t.commit_indexes[k].commit, t.commit_indexes[k].line + l - ChunkStart(t, k))
      BY DEF KeyAt
    <3> HIDE DEF k
    <3>4. /\ t.commit_indexes[k].commit \in C /\ t.commit_indexes[k].line \in Nat
      BY <3>2 DEF KeySet
    <3>5. t.commit_indexes[k].line + l - ChunkStart(t, k) \in Nat
      BY <3>1, <3>2, <3>4
    <3>6. KeyAt(t, l) \in KeySet(C)
      BY <3>3, <3>4, <3>5 DEF KeySet, LineKey
    <3>7. Blame(t)[i] = KeyAt(t, i - 1)
      BY BlameIsSequence
    <3> QED BY <3>6, <3>7 DEF l
  <2> QED BY <2>1
<1>3. Blame(t) = [i \in 1..TotalLines(t) |-> Blame(t)[i]]
  BY DEF Blame
<1> QED BY <1>1, <1>2, <1>3, MakeSeq

\* Past the end of the file too, lines are added without harm to the tracker.
LEMMA AddShape ==
  ASSUME NEW C, NEW t, TrackerShape(t, C), NEW at \in Nat, NEW n \in Nat, NEW key \in KeySet(C)
  PROVE  TrackerShape(AddLines(t, at, n, key), C)
<1> DEFINE N == ChunkCount(t)
           u == AppendChunk(t, n, key)
<1>1. /\ N \in Nat /\ TotalLines(t) \in Nat
      /\ TotalLines(t) = IF N = 0 THEN 0 ELSE t.commit_line_end[N]
  BY ShapeFacts
<1>2. CASE n = 0
  BY <1>2 DEF AddLines
<1>3. CASE n > 0 /\ at <= TotalLines(t)
  <2>1. at \in 0..TotalLines(t)
    BY <1>1, <1>3
  <2> DEFINE v == AddLines(t, at, n, key)
  <2>2. PICK K, L : IsSplice(t, v, K, L, at, 0, 1, n, key)
    BY <1>3, <2>1, AddIsSplice
  <2>3. SpliceArguments(t, C, at, 0, 1, n, key)
    BY <1>3 DEF SpliceArguments
  <2> HIDE DEF v
  <2> QED BY <2>2, <2>3, SpliceShape DEF v
<1>4. CASE n > 0 /\ at > TotalLines(t)
  <2>1. FitsChunk(t, at, FindChunk(t, at))
    BY FindChunkFits
  <2>2. FindChunk(t, at) > N
    <3> DEFINE k == FindChunk(t, at)
    <3>1. SUFFICES ASSUME k <= N PROVE FALSE
      BY <1>1, <2>1 DEF FitsChunk
    <3> HIDE DEF k
    <3>2. k \in 1..N /\ at < t.commit_line_end[k]
      BY <1>1, <2>1, <3>1 DEF FitsChunk, k
    <3>3. /\ \A j \in 1..N : t.commit_line_end[j] \in Nat
          /\ \A i \in 1..N : \A j \in (i + 1)..N : t.commit_line_end[i] < t.commit_line_end[j]
      BY ShapeFacts
    <3> HIDE DEF N
    <3>4. t.commit_line_end[k] <= t.commit_line_end[N]
      <4>1. N \in 1..N /\ (k = N \/ N \in (k + 1)..N)
        BY <1>1, <3>2
      <4> QED BY <3>2, <3>3, <4>1
    <3> QED BY <1>1, <1>4, <3>2, <3>3, <3>4
  <2>3. AddLines(t, at, n, key) = u
    BY <1>1, <1>4, <2>2 DEF AddLines
  <2>4. IsSplice(t, u, N, N + 1, TotalLines(t), 0, 1, n, key)
    BY <1>4, AppendIsSplice
  <2>5. SpliceArguments(t, C, TotalLines(t), 0, 1, n, key)
    BY <1>1, <1>4 DEF SpliceArguments
  <2> HIDE DEF u, N
  <2> QED BY <2>3, <2>4, <2>5, SpliceShape
<1> QED BY <1>1, <1>2, <1>3, <1>4

CommitIndexes == 0..(MaxCommits - 1)

\* The state of a file is a record of a sound tracker and a document.
StateOK(s) ==
  /\ s = [tracked |-> s.tracked, tracker |-> s.tracker, document |-> s.document]
  /\ s.tracked \in BOOLEAN
  /\ TrackerShape(s.tracker, CommitIndexes)
  /\ IsDocument(s.document)

\* Lines of commit c, the first of them its line `from`, put after line `at`.
AddArguments(s, c, at, from, lines) ==
  /\ StateOK(s) /\ c \in CommitIndexes
  /\ at \in Nat /\ from \in Nat /\ lines \in Seq(LineTexts)

\* What add_lines and add_words make of a state, whatever its lines.
LEMMA AddResult ==
  ASSUME NEW s, NEW c, NEW at, NEW from, NEW lines, AddArguments(s, c, at, from, lines)
  PROVE  LET u == AddNewLines(s, c, at, from, lines)
             d == s.document
             e == u.document
         IN  /\ StateOK(u) /\ u.tracked
             /\ u.tracker = IF s.tracked THEN AddLines(s.tracker, at, Len(lines), LineKey(c, from))
                            ELSE NewTracker(c, Len(lines))
             /\ DOMAIN e.words = DOMAIN d.words \cup WordsIn(lines)
             /\ e.doc_modified_commits = d.doc_modified_commits \cup {c}
             /\ \A w : History(e, w) = History(d, w) \cup KeysWith(lines, NewKeys(Len(lines), c, from), w)
             /\ \A w \in WordsIn(lines) : Bitmap(e, w) = Bitmap(d, w) \cup {c}
             /\ \A w : w \notin WordsIn(lines) => Bitmap(e, w) = Bitmap(d, w)
<1> DEFINE n == Len(lines)
           keys == NewKeys(n, c, from)
           tokens == Tokens(lines, keys)
           d == s.document
           e == AddWords(d, c, tokens)
           t == IF s.tracked THEN AddLines(s.tracker, at, n, LineKey(c, from)) ELSE NewTracker(c, n)
           u == AddNewLines(s, c, at, from, lines)
<1>0. /\ StateOK(s) /\ c \in CommitIndexes
      /\ at \in Nat /\ from \in Nat /\ lines \in Seq(LineTexts)
  BY DEF AddArguments
<1>1. n \in Nat /\ DOMAIN lines = 1..n
  BY <1>0, SeqElements
<1>2. u = [tracked |-> TRUE, tracker |-> t, document |-> e]
  <2>1. keys = [i \in DOMAIN lines |-> LineKey(c, from + i - 1)]
    BY <1>1 DEF NewKeys, LineKey
  <2> HIDE DEF keys
  <2> QED BY <2>1 DEF AddNewLines
<1>3. /\ DOMAIN tokens = WordsIn(lines)
      /\ \A w \in WordsIn(lines) : tokens[w] = KeysWith(lines, keys, w)
      /\ \A w : w \notin WordsIn(lines) => KeysWith(lines, keys, w) = {}
  BY <1>0, TokensResult
<1>4. IsDocument(d) /\ TrackerShape(s.tracker, CommitIndexes)
  BY <1>0 DEF StateOK
<1>5. /\ IsDocument(e)
      /\ DOMAIN e.words = DOMAIN d.words \cup WordsIn(lines)
      /\ e.doc_modified_commits = d.doc_modified_commits \cup {c}
      /\ \A w \in WordsIn(lines) :
           /\ History(e, w) = History(d, w) \cup tokens[w]
           /\ Bitmap(e, w) = Bitmap(d, w) \cup {c}
      /\ \A w : w \notin WordsIn(lines) =>
           History(e, w) = History(d, w) /\ Bitmap(e, w) = Bitmap(d, w)
  <2> HIDE DEF tokens
  <2> QED BY <1>3, <1>4, AddWordsResult
<1>6. TrackerShape(t, CommitIndexes)
  <2>1. CASE s.tracked
    <3>1. LineKey(c, from) \in KeySet(CommitIndexes)
      BY <1>0 DEF LineKey, KeySet
    <3> QED BY <1>0, <1>1, <1>4, <2>1, <3>1, AddShape
  <2>2. CASE ~ s.tracked
    BY <1>0, <1>1, <2>2, NewBlame
  <2> QED BY <2>1, <2>2
<1> HIDE DEF tokens, keys, d, e, t, u
<1>7. /\ u.tracked = TRUE /\ u.tracker = t /\ u.document = e
      /\ u = [tracked |-> u.tracked, tracker |-> u.tracker, document |-> u.document]
  <2> DEFINE yes == TRUE
  <2> HIDE DEF yes
  <2>1. u = [tracked |-> yes, tracker |-> t, document |-> e]
    BY <1>2 DEF yes
  <2> QED BY <2>1 DEF yes
<1>8. StateOK(u)
  BY <1>5, <1>6, <1>7 DEF StateOK
<1>9. \A w : History(e, w) = History(d, w) \cup KeysWith(lines, keys, w)
  BY <1>3, <1>5
<1> QED BY <1>5, <1>7, <1>8, <1>9 DEF u, d, keys, t, n

\* Lines that are there, taken out after line `start`.
RemoveArguments(s, start, lines) ==
  /\ StateOK(s)
  /\ start \in Nat /\ lines \in Seq(LineTexts)
  /\ start + Len(lines) <= TotalLines(s.tracker)

\* What remove_words and delete_lines make of a state that has the lines.
LEMMA RemoveResult ==
  ASSUME NEW s, NEW c, NEW start, NEW lines, RemoveArguments(s, start, lines)
  PROVE  LET u == RemoveLines(s, c, start, lines)
             d == s.document
             e == u.document
             n == Len(lines)
             keys == Part(Blame(s.tracker), start, n)
         IN  /\ StateOK(u) /\ u.tracked = s.tracked
             /\ Blame(u.tracker) = Cut(Blame(s.tracker), start, n)
             /\ DOMAIN e.words = DOMAIN d.words
             /\ e.doc_modified_commits = d.doc_modified_commits \cup {c}
             /\ \A w : History(e, w) = History(d, w) \ KeysWith(lines, keys, w)
             /\ \A w : \/ w \notin WordsIn(lines) \/ w \notin DOMAIN d.words \/ History(e, w) # {}
                       => Bitmap(e, w) = Bitmap(d, w)
             /\ \A w \in WordsIn(lines) : w \in DOMAIN d.words /\ History(e, w) = {} =>
                  Bitmap(e, w) = Filled(Bitmap(d, w), c)
<1> DEFINE n == Len(lines)
           keys == Part(Blame(s.tracker), start, n)
           tokens == Tokens(lines, keys)
           d == s.document
           e == RemoveWords(d, c, tokens)
           t == DeleteLines(s.tracker, start, n)
           u == RemoveLines(s, c, start, lines)
<1>0. StateOK(s) /\ start \in Nat /\ lines \in Seq(LineTexts)
  BY DEF RemoveArguments
<1>1. n \in Nat /\ start + n <= TotalLines(s.tracker)
  BY <1>0, SeqElements DEF RemoveArguments
<1>2. IsDocument(d) /\ TrackerShape(s.tracker, CommitIndexes)
  BY <1>0 DEF StateOK
<1>3. FlattenDeleteResult(DeletedRanges(s.tracker, start, n)) = keys
  BY <1>0, <1>1, <1>2, DeletedLines
<1>4. u = [s EXCEPT !.tracker = t, !.document = e]
  <2> HIDE DEF keys
  <2> QED BY <1>3 DEF RemoveLines
<1>5. /\ DOMAIN tokens = WordsIn(lines)
      /\ \A w \in WordsIn(lines) : tokens[w] = KeysWith(lines, keys, w)
      /\ \A w : w \notin WordsIn(lines) => KeysWith(lines, keys, w) = {}
  <2> HIDE DEF keys
  <2> QED BY <1>0, TokensResult
<1>6. /\ IsDocument(e)
      /\ DOMAIN e.words = DOMAIN d.words
      /\ e.doc_modified_commits = d.doc_modified_commits \cup {c}
      /\ \A w \in WordsIn(lines) :
           /\ History(e, w) = History(d, w) \ tokens[w]
           /\ History(e, w) # {} \/ w \notin DOMAIN d.words => Bitmap(e, w) = Bitmap(d, w)
           /\ History(e, w) = {} /\ w \in DOMAIN d.words =>
                Bitmap(e, w) = Filled(Bitmap(d, w), c)
      /\ \A w : w \notin WordsIn(lines) =>
           History(e, w) = History(d, w) /\ Bitmap(e, w) = Bitmap(d, w)
  <2> DEFINE D == DOMAIN tokens
  <2> HIDE DEF tokens
  <2>1. /\ IsDocument(e)
        /\ DOMAIN e.words = DOMAIN d.words
        /\ e.doc_modified_commits = d.doc_modified_commits \cup {c}
        /\ \A w \in D :
             /\ History(e, w) = History(d, w) \ tokens[w]
             /\ History(e, w) # {} \/ w \notin DOMAIN d.words => Bitmap(e, w) = Bitmap(d, w)
             /\ History(e, w) = {} /\ w \in DOMAIN d.words =>
                  Bitmap(e, w) = Filled(Bitmap(d, w), c)
        /\ \A w : w \notin D =>
             History(e, w) = History(d, w) /\ Bitmap(e, w) = Bitmap(d, w)
    BY <1>2, RemoveWordsResult
  <2>2. D = WordsIn(lines)
    BY <1>5
  <2> HIDE DEF D, e
  <2> QED BY <2>1, <2>2
<1>7. TrackerShape(t, CommitIndexes) /\ Blame(t) = Cut(Blame(s.tracker), start, n)
  BY <1>0, <1>1, <1>2, DeleteBlame
<1> HIDE DEF tokens, keys, e, t, u, n
<1>8. /\ u.tracked = s.tracked /\ u.tracker = t /\ u.document = e
      /\ u = [tracked |-> u.tracked, tracker |-> u.tracker, document |-> u.document]
  <2> DEFINE v == [s EXCEPT !.tracker = t]
  <2>1. u = [v EXCEPT !.document = e]
    BY <1>4, Zenon
  <2>2. v = [tracked |-> s.tracked, tracker |-> t, document |-> s.document]
    BY <1>0 DEF StateOK
  <2> HIDE DEF v
  <2>3. u = [tracked |-> s.tracked, tracker |-> t, document |-> e]
    BY <2>1, <2>2
  <2> QED BY <2>3
<1>9. StateOK(u)
  BY <1>0, <1>6, <1>7, <1>8 DEF StateOK
<1>10. \A w : History(e, w) = History(d, w) \ KeysWith(lines, keys, w)
  BY <1>5, <1>6
<1>11. \A w : \/ w \notin WordsIn(lines) \/ w \notin DOMAIN d.words \/ History(e, w) # {}
              => Bitmap(e, w) = Bitmap(d, w)
  BY <1>6
<1>12. \A w \in WordsIn(lines) : w \in DOMAIN d.words /\ History(e, w) = {} =>
         Bitmap(e, w) = Filled(Bitmap(d, w), c)
  BY <1>6
<1> QED BY <1>6, <1>7, <1>8, <1>9, <1>10, <1>11, <1>12 DEF u, keys, n

(***************************************************************************)
(* The index of a file follows its lines: one key per line, no key twice,  *)
(* and each word has the keys of the lines that contain it.                *)
(***************************************************************************)
Follows(s, lines) ==
  LET blame == Blame(s.tracker)
  IN  /\ s.tracked \/ s.tracker = DeleteAll
      /\ Len(blame) = Len(lines)
      /\ \A i, j \in 1..Len(lines) : blame[i] = blame[j] => i = j
      /\ \A w \in Words : History(s.document, w) = KeysWith(lines, blame, w)

\* Lines added with fresh keys.
AddFits(s, lines, c, at, from, added) ==
  /\ AddArguments(s, c, at, from, added)
  /\ lines \in Seq(LineTexts) /\ Follows(s, lines)
  /\ at \in 0..Len(lines)
  /\ ~ s.tracked => from = 0
  /\ \A i \in 1..Len(lines) :
       Blame(s.tracker)[i].commit = c => Blame(s.tracker)[i].line >= from + Len(added)

\* Lines added with fresh keys: the index follows the longer file.
LEMMA AddFollows ==
  ASSUME NEW s, NEW lines, NEW c, NEW at, NEW from, NEW added,
         AddFits(s, lines, c, at, from, added)
  PROVE  LET u == AddNewLines(s, c, at, from, added)
         IN  /\ Follows(u, Insert(lines, at, added))
             /\ Blame(u.tracker) = Insert(Blame(s.tracker), at, NewKeys(Len(added), c, from))
<1> DEFINE u == AddNewLines(s, c, at, from, added)
           n == Len(added)
           keys == NewKeys(n, c, from)
           blame == Blame(s.tracker)
           K == KeySet(CommitIndexes)
           r == Insert(lines, at, added)
           b == Insert(blame, at, keys)
<1>0. /\ StateOK(s) /\ c \in CommitIndexes /\ from \in Nat /\ at \in 0..Len(lines)
      /\ lines \in Seq(LineTexts) /\ added \in Seq(LineTexts)
      /\ Follows(s, lines) /\ AddArguments(s, c, at, from, added)
      /\ ~ s.tracked => from = 0
      /\ \A i \in 1..Len(lines) : blame[i].commit = c => blame[i].line >= from + n
  BY DEF AddFits, AddArguments
<1>1. /\ TrackerShape(s.tracker, CommitIndexes) /\ n \in Nat /\ Len(lines) \in Nat
      /\ Len(blame) = Len(lines) /\ blame \in Seq(K) /\ Len(blame) = TotalLines(s.tracker)
  <2>1. TrackerShape(s.tracker, CommitIndexes)
    BY <1>0 DEF StateOK
  <2>2. n \in Nat /\ Len(lines) \in Nat
    BY <1>0, SeqElements
  <2> QED BY <1>0, <2>1, <2>2, BlameType DEF Follows
<1>2. /\ keys \in Seq(K) /\ Len(keys) = n
      /\ \A i \in 1..n : keys[i].commit = c /\ keys[i].line = from + i - 1
      /\ \A i, j \in 1..n : keys[i] = keys[j] => i = j
  <2>1. c \in CommitIndexes /\ from \in Nat /\ n \in Nat
    BY <1>0, <1>1
  <2>2. keys \in Seq(K) /\ Len(keys) = n
    BY ONLY <2>1, NewKeysFacts
  <2>3. \A i \in 1..n : keys[i].commit = c /\ keys[i].line = from + i - 1
    BY ONLY <2>1 DEF NewKeys
  <2>4. \A i, j \in 1..n : keys[i] = keys[j] => i = j
    BY ONLY <2>1, NewKeysFacts
  <2> QED BY <2>2, <2>3, <2>4
<1>3. /\ u.tracked
      /\ u.tracker = IF s.tracked THEN AddLines(s.tracker, at, n, LineKey(c, from))
                     ELSE NewTracker(c, n)
      /\ \A w : History(u.document, w) = History(s.document, w) \cup KeysWith(added, keys, w)
  BY ONLY <1>0, AddResult
<1>4. Blame(u.tracker) = b
  <2>1. CASE s.tracked
    <3>1. at \in 0..TotalLines(s.tracker)
      BY <1>0, <1>1
    <3> QED BY <1>0, <1>1, <1>3, <2>1, <3>1, AddBlame
  <2>2. CASE ~ s.tracked
    <3>1. s.tracker = DeleteAll
      BY <1>0, <2>2 DEF Follows
    <3>2. TotalLines(s.tracker) = 0
      BY <3>1 DEF DeleteAll, TotalLines, ChunkCount
    <3>3. at = 0 /\ from = 0 /\ Len(blame) = 0
      BY <1>0, <1>1, <2>2, <3>2
    <3>4. Blame(u.tracker) = NewKeys(n, c, 0)
      BY <1>0, <1>1, <1>3, <2>2, NewBlame
    <3>5. Insert(blame, 0, keys) = keys
      <4> DEFINE x == Insert(blame, 0, keys)
      <4>1. x = [i \in 1..(Len(blame) + Len(keys)) |->
                   IF i <= 0 THEN blame[i] ELSE IF i <= 0 + Len(keys) THEN keys[i - 0]
                   ELSE blame[i - Len(keys)]]
        BY DEF Insert
      <4>2. Len(blame) + Len(keys) = n /\ Len(keys) = n
        BY <1>1, <1>2, <3>3
      <4>3. keys = [i \in 1..n |-> keys[i]]
        BY <1>2, SeqIsFunction
      <4> HIDE DEF keys, blame, n
      <4>4. \A i \in 1..n : ~ (i <= 0) /\ i <= 0 + n /\ i - 0 = i
        BY <1>1
      <4> QED BY <4>1, <4>2, <4>3, <4>4
    <3> QED BY <3>3, <3>4, <3>5
  <2> QED BY <2>1, <2>2
<1>5. \A i \in 1..Len(blame) : \A j \in 1..Len(keys) : blame[i] # keys[j]
  <2>1. ASSUME NEW i \in 1..Len(blame), NEW j \in 1..Len(keys), blame[i] = keys[j] PROVE FALSE
    <3>1. keys[j].commit = c /\ keys[j].line = from + j - 1 /\ j <= n /\ j \in Nat
      BY <1>1, <1>2
    <3>2. i \in 1..Len(lines)
      BY <1>1
    <3>3. blame[i].line >= from + n
      BY <1>0, <2>1, <3>1, <3>2
    <3> HIDE DEF blame, keys
    <3> QED BY <1>0, <1>1, <2>1, <3>1, <3>3
  <2> QED BY <2>1
<1>6. \A i, j \in 1..Len(blame) : blame[i] = blame[j] => i = j
  BY <1>0, <1>1 DEF Follows
<1>7. at \in 0..Len(blame)
  BY <1>0, <1>1
<1>8. Len(r) = Len(lines) + n /\ Len(b) = Len(lines) + n
  <2>1. Len(r) = Len(lines) + n
    BY <1>0, InsertFacts
  <2>2. Len(b) = Len(blame) + Len(keys)
    BY ONLY <1>1, <1>2, <1>7, InsertFacts
  <2> QED BY <1>1, <1>2, <2>1, <2>2
<1> HIDE DEF u, n, keys, blame, K
<1>9. \A i, j \in 1..Len(r) : b[i] = b[j] => i = j
  <2>1. ASSUME NEW i \in 1..Len(r), NEW j \in 1..Len(r), b[i] = b[j] PROVE i = j
    <3>1. i \in 1..(Len(blame) + Len(keys)) /\ j \in 1..(Len(blame) + Len(keys))
      BY <1>1, <1>2, <1>8
    <3>2. \A x, y \in 1..Len(keys) : keys[x] = keys[y] => x = y
      BY <1>2
    <3>3. blame \in Seq(K) /\ keys \in Seq(K) /\ b[i] = b[j]
      BY ONLY <1>1, <1>2, <2>1
    <3> QED BY ONLY <1>5, <1>6, <1>7, <3>1, <3>2, <3>3, InsertDistinct
  <2> QED BY <2>1
<1>10. ASSUME NEW w \in Words PROVE History(u.document, w) = KeysWith(r, b, w)
  <2>1. History(s.document, w) = KeysWith(lines, blame, w)
    BY <1>0 DEF Follows, blame
  <2>2. KeysWith(r, b, w) = KeysWith(lines, blame, w) \cup KeysWith(added, keys, w)
    <3>1. Len(keys) = Len(added)
      BY <1>2 DEF n
    <3>2. /\ blame \in Seq(K) /\ keys \in Seq(K) /\ Len(blame) = Len(lines)
      BY ONLY <1>1, <1>2
    <3> QED BY ONLY <1>0, <3>1, <3>2, InsertKeys
  <2> QED BY <1>3, <2>1, <2>2
<1>11. Follows(u, r)
  BY <1>3, <1>4, <1>8, <1>9, <1>10 DEF Follows
<1> QED BY <1>4, <1>11 DEF u, n, keys, blame

\* Lines removed.
RemoveFits(s, lines, at, deleted) ==
  /\ StateOK(s) /\ lines \in Seq(LineTexts) /\ Follows(s, lines)
  /\ at \in Nat /\ deleted \in Seq(LineTexts)
  /\ at + Len(deleted) <= Len(lines) /\ Len(deleted) > 0
  /\ \A i \in 1..Len(deleted) : deleted[i] = lines[at + i]

\* Lines removed: their keys are found, and the index follows the shorter file.
LEMMA RemoveFollows ==
  ASSUME NEW s, NEW lines, NEW c, NEW at, NEW deleted, RemoveFits(s, lines, at, deleted)
  PROVE  LET u == RemoveLines(s, c, at, deleted)
         IN  /\ CanDelete(s, at, Len(deleted))
             /\ Follows(u, Cut(lines, at, Len(deleted)))
             /\ Blame(u.tracker) = Cut(Blame(s.tracker), at, Len(deleted))
<1> DEFINE u == RemoveLines(s, c, at, deleted)
           n == Len(deleted)
           blame == Blame(s.tracker)
           keys == Part(blame, at, n)
           K == KeySet(CommitIndexes)
           r == Cut(lines, at, n)
           b == Cut(blame, at, n)
<1>0. /\ StateOK(s) /\ at \in Nat /\ lines \in Seq(LineTexts) /\ deleted \in Seq(LineTexts)
      /\ at + Len(deleted) <= Len(lines) /\ n = Len(deleted) /\ Follows(s, lines)
      /\ n > 0 /\ \A i \in 1..n : deleted[i] = lines[at + i]
  BY DEF RemoveFits
<1>1. /\ TrackerShape(s.tracker, CommitIndexes) /\ n \in Nat /\ Len(lines) \in Nat
      /\ Len(blame) = Len(lines) /\ blame \in Seq(K) /\ Len(blame) = TotalLines(s.tracker)
  <2>1. TrackerShape(s.tracker, CommitIndexes)
    BY <1>0 DEF StateOK
  <2>2. n \in Nat /\ Len(lines) \in Nat
    BY <1>0, SeqElements
  <2> QED BY <1>0, <2>1, <2>2, BlameType DEF Follows
<1>2. s.tracked
  <2>1. s.tracker = DeleteAll => TotalLines(s.tracker) = 0
    BY DEF DeleteAll, TotalLines, ChunkCount
  <2> QED BY <1>0, <1>1, <2>1 DEF Follows
<1>3. CanDelete(s, at, n)
  BY <1>0, <1>1, <1>2 DEF CanDelete
<1>4. /\ u.tracked = s.tracked /\ Blame(u.tracker) = b
      /\ \A w : History(u.document, w) = History(s.document, w) \ KeysWith(deleted, keys, w)
  <2>1. RemoveArguments(s, at, deleted)
    BY ONLY <1>0, <1>1 DEF RemoveArguments
  <2> QED BY ONLY <2>1, RemoveResult
<1>5. \A i, j \in 1..Len(blame) : blame[i] = blame[j] => i = j
  BY <1>0, <1>1 DEF Follows
<1>6. \A i \in 1..n : keys[i] = blame[at + i]
  BY DEF Part
<1>7. Len(r) = Len(lines) - n /\ Len(b) = Len(lines) - n
  <2>1. /\ lines \in Seq(LineTexts) /\ at \in Nat /\ n \in Nat /\ at + n <= Len(lines)
        /\ blame \in Seq(K) /\ at + n <= Len(blame) /\ Len(blame) = Len(lines)
    BY ONLY <1>0, <1>1
  <2> HIDE DEF n, blame, K
  <2>2. Len(r) = Len(lines) - n
    BY ONLY <2>1, CutFacts
  <2>3. Len(b) = Len(blame) - n
    BY ONLY <2>1, CutFacts
  <2> QED BY ONLY <2>1, <2>2, <2>3
<1> HIDE DEF u, n, keys, blame, K
<1>8. \A i, j \in 1..Len(r) : b[i] = b[j] => i = j
  <2>1. ASSUME NEW i \in 1..Len(r), NEW j \in 1..Len(r), b[i] = b[j] PROVE i = j
    <3>1. /\ i \in 1..(Len(blame) - n) /\ j \in 1..(Len(blame) - n)
          /\ at + n <= Len(blame) /\ at \in Nat /\ n \in Nat /\ blame \in Seq(K)
      BY <1>0, <1>1, <1>7
    <3> QED BY ONLY <1>5, <2>1, <3>1, CutDistinct
  <2> QED BY <2>1
<1>9. ASSUME NEW w \in Words PROVE History(u.document, w) = KeysWith(r, b, w)
  <2>1. History(s.document, w) = KeysWith(lines, blame, w)
    BY <1>0 DEF Follows, blame
  <2>2. KeysWith(r, b, w) = KeysWith(lines, blame, w) \ KeysWith(deleted, keys, w)
    <3>1. /\ Len(deleted) = n /\ at + n <= Len(lines)
          /\ \A i \in 1..n : deleted[i] = lines[at + i] /\ keys[i] = blame[at + i]
      BY <1>0, <1>6
    <3>2. /\ blame \in Seq(K) /\ Len(blame) = Len(lines) /\ n \in Nat
      BY ONLY <1>1
    <3>3. lines \in Seq(LineTexts) /\ deleted \in Seq(LineTexts) /\ at \in Nat
      BY ONLY <1>0
    <3>4. CutArguments(LineTexts, lines, K, blame, at, n, deleted, keys)
      BY ONLY <1>5, <3>1, <3>2, <3>3 DEF CutArguments
    <3> QED BY ONLY <3>4, CutKeys
  <2> QED BY <1>4, <2>1, <2>2
<1>10. Follows(u, r)
  BY <1>2, <1>4, <1>7, <1>8, <1>9 DEF Follows
<1> QED BY <1>3, <1>4, <1>10 DEF u, n, blame

-----------------------------------------------------------------------------
(* A file amid a delta: the old lines before a boundary, the new ones after it. *)

Halfway(old, new, p) ==
  SubSeq(old, 1, p[1]) \o SubSeq(new, p[2] + 1, Len(new))

\* A stretch of a sequence.
LEMMA PartOfSeq ==
  ASSUME NEW S, NEW s \in Seq(S), NEW from \in Nat, NEW to \in Nat, from <= to, to <= Len(s)
  PROVE  LET r == SubSeq(s, from + 1, to)
         IN  /\ r \in Seq(S) /\ Len(r) = to - from
             /\ \A i \in 1..(to - from) : r[i] = s[from + i]
OBVIOUS

\* Two sequences in a row.
LEMMA JoinSeq ==
  ASSUME NEW S, NEW a \in Seq(S), NEW b \in Seq(S)
  PROVE  /\ a \o b \in Seq(S) /\ Len(a \o b) = Len(a) + Len(b)
         /\ \A i \in 1..Len(a) : (a \o b)[i] = a[i]
         /\ \A i \in (Len(a) + 1)..(Len(a) + Len(b)) : (a \o b)[i] = b[i - Len(a)]
<1>1. Len(a) \in Nat /\ Len(b) \in Nat
  OBVIOUS
<1>2. a \o b \in Seq(S) /\ Len(a \o b) = Len(a) + Len(b)
  OBVIOUS
<1>3. \A i \in 1..Len(a) : (a \o b)[i] = a[i]
  OBVIOUS
<1>4. ASSUME NEW i \in (Len(a) + 1)..(Len(a) + Len(b)) PROVE (a \o b)[i] = b[i - Len(a)]
  <2>1. i \in 1..(Len(a) + Len(b)) /\ ~ (i <= Len(a))
    BY <1>1
  <2> QED BY <2>1
<1> QED BY <1>2, <1>3, <1>4

IsBoundary(S, old, new, p) ==
  old \in Seq(S) /\ new \in Seq(S) /\ p \in Boundaries(old, new)

\* Line by line, a file amid a delta.
LEMMA HalfwayFacts ==
  ASSUME NEW S, NEW old, NEW new, NEW p, IsBoundary(S, old, new, p)
  PROVE  LET h == Halfway(old, new, p)
         IN  /\ h \in Seq(S) /\ Len(h) = p[1] + Len(new) - p[2]
             /\ \A i \in 1..p[1] : h[i] = old[i]
             /\ \A i \in (p[1] + 1)..Len(h) : h[i] = new[i - p[1] + p[2]]
             /\ p[1] \in 0..Len(old) /\ p[2] \in 0..Len(new)
             /\ Len(old) \in Nat /\ Len(new) \in Nat
<1> DEFINE h == Halfway(old, new, p)
           x == p[1]
           y == p[2]
           a == SubSeq(old, 1, x)
           b == SubSeq(new, y + 1, Len(new))
<1>1. /\ old \in Seq(S) /\ new \in Seq(S) /\ x \in 0..Len(old) /\ y \in 0..Len(new)
      /\ Len(old) \in Nat /\ Len(new) \in Nat
  BY SeqElements DEF IsBoundary, Boundaries
<1> HIDE DEF x, y
<1>2. a \in Seq(S) /\ Len(a) = x /\ \A i \in 1..x : a[i] = old[i]
  BY <1>1
<1>3. b \in Seq(S) /\ Len(b) = Len(new) - y /\ \A i \in 1..(Len(new) - y) : b[i] = new[y + i]
  BY <1>1, PartOfSeq
<1>4. h = a \o b
  BY DEF Halfway, x, y
<1> HIDE DEF a, b, h
<1>5. /\ h \in Seq(S) /\ Len(h) = Len(a) + Len(b)
      /\ \A i \in 1..Len(a) : h[i] = a[i]
      /\ \A i \in (Len(a) + 1)..(Len(a) + Len(b)) : h[i] = b[i - Len(a)]
  <2>1. a \in Seq(S) /\ b \in Seq(S)
    BY <1>2, <1>3
  <2>2. /\ a \o b \in Seq(S) /\ Len(a \o b) = Len(a) + Len(b)
        /\ \A i \in 1..Len(a) : (a \o b)[i] = a[i]
        /\ \A i \in (Len(a) + 1)..(Len(a) + Len(b)) : (a \o b)[i] = b[i - Len(a)]
    BY ONLY <2>1, JoinSeq
  <2> QED BY ONLY <1>4, <2>2
<1>6. ASSUME NEW i \in (x + 1)..Len(h) PROVE h[i] = new[i - x + y]
  <2> DEFINE k == i - x
  <2>1. k \in 1..(Len(new) - y) /\ y + k = i - x + y
    BY <1>1, <1>2, <1>3, <1>5
  <2>2. h[i] = b[k]
    BY <1>1, <1>2, <1>3, <1>5
  <2> HIDE DEF k
  <2>3. b[k] = new[y + k]
    BY <1>3, <2>1
  <2> QED BY <2>1, <2>2, <2>3
<1>7. Len(h) = x + Len(new) - y
  BY <1>1, <1>2, <1>3, <1>5
<1> QED BY <1>1, <1>2, <1>5, <1>6, <1>7 DEF x, y, h

\* Sequences that agree at every place are equal.
LEMMA SeqEqual ==
  ASSUME NEW S, NEW s \in Seq(S), NEW r \in Seq(S), Len(s) = Len(r),
         \A i \in 1..Len(s) : s[i] = r[i]
  PROVE  s = r
OBVIOUS

\* At the end boundary the file is the old one, at the start the new one.
LEMMA HalfwayEnds ==
  ASSUME NEW S, NEW old \in Seq(S), NEW new \in Seq(S)
  PROVE  /\ IsBoundary(S, old, new, Start) /\ IsBoundary(S, old, new, End(old, new))
         /\ Halfway(old, new, Start) = new
         /\ Halfway(old, new, End(old, new)) = old
<1>1. Len(old) \in Nat /\ Len(new) \in Nat
  BY SeqElements
<1>2. IsBoundary(S, old, new, Start) /\ Start[1] = 0 /\ Start[2] = 0
  BY <1>1 DEF IsBoundary, Boundaries, Start
<1>3. /\ IsBoundary(S, old, new, End(old, new))
      /\ End(old, new)[1] = Len(old) /\ End(old, new)[2] = Len(new)
  BY <1>1 DEF IsBoundary, Boundaries, End
<1>4. Halfway(old, new, Start) = new
  <2> DEFINE h == Halfway(old, new, Start)
  <2>6. IsBoundary(S, old, new, Start)
    BY <1>2
  <2>7. h \in Seq(S) /\ Len(h) = Start[1] + Len(new) - Start[2]
    BY ONLY <2>6, HalfwayFacts
  <2>8. \A i \in (Start[1] + 1)..Len(h) : h[i] = new[i - Start[1] + Start[2]]
    BY ONLY <2>6, HalfwayFacts
  <2>1. /\ h \in Seq(S) /\ Len(h) = Start[1] + Len(new) - Start[2]
        /\ \A i \in (Start[1] + 1)..Len(h) : h[i] = new[i - Start[1] + Start[2]]
    BY ONLY <2>7, <2>8
  <2> HIDE DEF h
  <2>2. Len(h) = Len(new)
    BY <1>1, <1>2, <2>1
  <2>3. \A i \in 1..Len(h) : h[i] = new[i]
    BY <1>1, <1>2, <2>1
  <2> QED BY <2>1, <2>2, <2>3, SeqEqual DEF h
<1>5. Halfway(old, new, End(old, new)) = old
  <2> DEFINE p == End(old, new)
             h == Halfway(old, new, p)
  <2> HIDE DEF p
  <2>1. /\ h \in Seq(S) /\ Len(h) = p[1] + Len(new) - p[2]
        /\ \A i \in 1..p[1] : h[i] = old[i]
    BY ONLY <1>3, HalfwayFacts DEF p
  <2> HIDE DEF h
  <2>2. Len(h) = Len(old) /\ p[1] = Len(old)
    BY <1>1, <1>3, <2>1 DEF p
  <2>3. \A i \in 1..Len(h) : h[i] = old[i]
    BY <1>1, <2>1, <2>2
  <2> QED BY <2>1, <2>2, <2>3, SeqEqual DEF h, p
<1> QED BY <1>2, <1>3, <1>4, <1>5

\* Between boundaries the lines may be kept, so the file is the same at both.
LEMMA HalfwayKept ==
  ASSUME NEW S, NEW old, NEW new, NEW p, NEW q,
         IsBoundary(S, old, new, p), IsBoundary(S, old, new, q), MayKeep(old, new, p, q)
  PROVE  Halfway(old, new, p) = Halfway(old, new, q)
<1> DEFINE g == Halfway(old, new, p)
           h == Halfway(old, new, q)
           N == Len(new)
           x == p[1]
           y == p[2]
           u == q[1]
           v == q[2]
           d == u - x
<1>1. /\ g \in Seq(S) /\ Len(g) = x + N - y
      /\ \A i \in 1..x : g[i] = old[i]
      /\ \A i \in (x + 1)..Len(g) : g[i] = new[i - x + y]
      /\ x \in 0..Len(old) /\ y \in 0..N
      /\ Len(old) \in Nat /\ N \in Nat
  BY ONLY IsBoundary(S, old, new, p), HalfwayFacts
<1>2. /\ h \in Seq(S) /\ Len(h) = u + N - v
      /\ \A i \in 1..u : h[i] = old[i]
      /\ \A i \in (u + 1)..Len(h) : h[i] = new[i - u + v]
      /\ u \in 0..Len(old) /\ v \in 0..N
  BY ONLY IsBoundary(S, old, new, q), HalfwayFacts
<1>3. /\ x <= u /\ u - x = v - y
      /\ \A i \in 1..(u - x) : old[x + i] = new[y + i]
  BY DEF MayKeep
<1> HIDE DEF g, h, N, x, y, u, v
<1>4. /\ u = x + d /\ v = y + d /\ d \in Nat /\ x \in Nat /\ y \in Nat
      /\ \A i \in 1..d : old[x + i] = new[y + i]
  BY <1>1, <1>2, <1>3
<1> HIDE DEF d
<1>5. Len(g) = Len(h) /\ Len(g) = x + N - y /\ N - y \in Nat
  BY <1>1, <1>2, <1>4
<1>6. ASSUME NEW i \in 1..Len(g) PROVE g[i] = h[i]
  <2>1. CASE i <= x
    <3>1. i \in 1..x /\ i \in 1..u
      BY <1>4, <2>1
    <3> QED BY <1>1, <1>2, <3>1
  <2>2. CASE x < i /\ i <= x + d
    <3> DEFINE k == i - x
    <3>1. /\ k \in 1..d /\ x + k = i /\ i - x + y = y + k
          /\ i \in (x + 1)..Len(g) /\ i \in 1..u
      BY <1>4, <1>5, <2>2
    <3> HIDE DEF k
    <3>2. g[i] = new[y + k]
      BY <1>1, <3>1
    <3>3. h[i] = old[x + k]
      BY <1>2, <3>1
    <3> QED BY <1>4, <3>1, <3>2, <3>3
  <2>3. CASE i > x + d
    <3> DEFINE k == i - x + y
    <3>1. i - u + v = k /\ i \in (x + 1)..Len(g) /\ i \in (u + 1)..Len(h)
      BY <1>4, <1>5, <2>3
    <3>2. g[i] = new[k]
      BY <1>1, <3>1
    <3> HIDE DEF k
    <3>3. h[i] = new[k]
      BY <1>2, <3>1
    <3> QED BY <3>2, <3>3
  <2> QED BY <1>4, <2>1, <2>2, <2>3
<1>7. g = h
  BY <1>1, <1>2, <1>5, <1>6, SeqEqual
<1> QED BY <1>7 DEF g, h

\* The words of a stretch of lines, and of a file amid a delta.
LEMMA PartWords ==
  ASSUME NEW S, NEW s \in Seq(S), NEW from \in Nat, NEW to \in Nat, from <= to, to <= Len(s), NEW w
  PROVE  w \in WordsIn(SubSeq(s, from + 1, to)) <=> \E i \in (from + 1)..to : w \in s[i]
<1> DEFINE r == SubSeq(s, from + 1, to)
<1>1. r \in Seq(S) /\ Len(r) = to - from /\ \A i \in 1..(to - from) : r[i] = s[from + i]
  BY PartOfSeq
<1> HIDE DEF r
<1>2. DOMAIN r = 1..(to - from)
  BY <1>1
<1>3. ASSUME w \in WordsIn(r) PROVE \E i \in (from + 1)..to : w \in s[i]
  <2>1. PICK i \in 1..(to - from) : w \in r[i]
    BY <1>2, <1>3 DEF WordsIn
  <2> DEFINE k == from + i
  <2>2. k \in (from + 1)..to /\ w \in s[k]
    BY <1>1, <2>1
  <2> HIDE DEF k
  <2> QED BY <2>2
<1>4. ASSUME NEW i \in (from + 1)..to, w \in s[i] PROVE w \in WordsIn(r)
  <2> DEFINE k == i - from
  <2>1. k \in 1..(to - from) /\ from + k = i
    BY <1>4
  <2> HIDE DEF k
  <2>2. w \in r[k]
    BY <1>1, <1>4, <2>1
  <2> QED BY <1>2, <2>1, <2>2 DEF WordsIn
<1> QED BY <1>3, <1>4 DEF r

\* The words of a file amid a delta.
LEMMA HalfwayWords ==
  ASSUME NEW S, NEW old, NEW new, NEW p, IsBoundary(S, old, new, p), NEW w
  PROVE  w \in WordsIn(Halfway(old, new, p)) <=>
           \/ \E i \in 1..p[1] : w \in old[i]
           \/ \E i \in (p[2] + 1)..Len(new) : w \in new[i]
<1> DEFINE h == Halfway(old, new, p)
           N == Len(new)
           x == p[1]
           y == p[2]
<1>1. /\ h \in Seq(S) /\ Len(h) = x + N - y
      /\ \A i \in 1..x : h[i] = old[i]
      /\ \A i \in (x + 1)..Len(h) : h[i] = new[i - x + y]
      /\ x \in 0..Len(old) /\ y \in 0..N
      /\ Len(old) \in Nat /\ N \in Nat
  BY ONLY IsBoundary(S, old, new, p), HalfwayFacts
<1> HIDE DEF h, N, x, y
<1>2. DOMAIN h = 1..Len(h) /\ x \in Nat /\ y \in Nat /\ N - y \in Nat /\ Len(h) \in Nat
  BY <1>1, SeqElements
<1>3. ASSUME w \in WordsIn(h)
      PROVE  (\E i \in 1..x : w \in old[i]) \/ \E i \in (y + 1)..N : w \in new[i]
  <2>1. PICK i \in 1..Len(h) : w \in h[i]
    BY <1>2, <1>3 DEF WordsIn
  <2>2. CASE i <= x
    <3>1. i \in 1..x
      BY <1>2, <2>2
    <3> QED BY <1>1, <2>1, <3>1
  <2>3. CASE i > x
    <3> DEFINE k == i - x + y
    <3>1. k \in (y + 1)..N /\ i \in (x + 1)..Len(h)
      BY <1>1, <1>2, <2>3
    <3>2. h[i] = new[k]
      BY <1>1, <3>1
    <3> HIDE DEF k
    <3> QED BY <2>1, <3>1, <3>2
  <2> QED BY <1>2, <2>2, <2>3
<1>4. ASSUME NEW i \in 1..x, w \in old[i] PROVE w \in WordsIn(h)
  <2>1. i \in 1..Len(h)
    BY <1>1, <1>2
  <2> QED BY <1>1, <1>2, <1>4, <2>1 DEF WordsIn
<1>5. ASSUME NEW i \in (y + 1)..N, w \in new[i] PROVE w \in WordsIn(h)
  <2> DEFINE k == i - y + x
  <2>1. k \in (x + 1)..Len(h) /\ k \in 1..Len(h) /\ k - x + y = i
    BY <1>1, <1>2
  <2> HIDE DEF k
  <2>2. h[k] = new[i]
    BY <1>1, <2>1
  <2> QED BY <1>2, <1>5, <2>1, <2>2 DEF WordsIn
<1> QED BY <1>3, <1>4, <1>5 DEF h, x, y, N

\* The words of lines.
LEMMA SeqWords ==
  ASSUME NEW S, NEW s \in Seq(S), NEW w
  PROVE  w \in WordsIn(s) <=> \E i \in 1..Len(s) : w \in s[i]
<1>1. DOMAIN s = 1..Len(s)
  BY SeqElements
<1> QED BY <1>1 DEF WordsIn

\* A hunk goes from one boundary to another: first its old lines are cut,
LEMMA HalfwayCut ==
  ASSUME NEW S, NEW old, NEW new, NEW p, IsBoundary(S, old, new, p), NEW a \in Nat, a <= p[1]
  PROVE  LET h == Halfway(old, new, p)
             n == p[1] - a
             cut == SubSeq(old, a + 1, p[1])
         IN  /\ IsBoundary(S, old, new, <<a, p[2]>>)
             /\ Cut(h, a, n) = Halfway(old, new, <<a, p[2]>>)
             /\ cut \in Seq(S) /\ Len(cut) = n /\ n \in Nat /\ a + n <= Len(h)
             /\ \A i \in 1..n : cut[i] = h[a + i]
<1> DEFINE h == Halfway(old, new, p)
           g == Halfway(old, new, <<a, p[2]>>)
           N == Len(new)
           x == p[1]
           y == p[2]
           n == x - a
           r == Cut(h, a, n)
           cut == SubSeq(old, a + 1, x)
<1>1. /\ h \in Seq(S) /\ Len(h) = x + N - y
      /\ \A i \in 1..x : h[i] = old[i]
      /\ \A i \in (x + 1)..Len(h) : h[i] = new[i - x + y]
      /\ x \in 0..Len(old) /\ y \in 0..N
      /\ Len(old) \in Nat /\ N \in Nat
  BY ONLY IsBoundary(S, old, new, p), HalfwayFacts
<1>2. IsBoundary(S, old, new, <<a, p[2]>>)
  <2>1. old \in Seq(S) /\ new \in Seq(S) /\ a \in 0..Len(old) /\ y \in 0..Len(new)
    BY <1>1 DEF IsBoundary
  <2> QED BY <2>1 DEF IsBoundary, Boundaries
<1>3. /\ g \in Seq(S) /\ Len(g) = a + N - y
      /\ \A i \in 1..a : g[i] = old[i]
      /\ \A i \in (a + 1)..Len(g) : g[i] = new[i - a + y]
  <2> DEFINE q == <<a, p[2]>>
  <2>1. q[1] = a /\ q[2] = y
    OBVIOUS
  <2>2. IsBoundary(S, old, new, q)
    BY <1>2
  <2> DEFINE f == Halfway(old, new, q)
  <2> HIDE DEF q, y
  <2>3. /\ f \in Seq(S) /\ Len(f) = q[1] + Len(new) - q[2]
        /\ \A i \in 1..q[1] : f[i] = old[i]
        /\ \A i \in (q[1] + 1)..Len(f) : f[i] = new[i - q[1] + q[2]]
    BY ONLY <2>2, HalfwayFacts
  <2>4. g = f
    BY DEF q
  <2> HIDE DEF g, f
  <2> QED BY ONLY <2>1, <2>3, <2>4 DEF N
<1>4. a <= x /\ n \in Nat /\ x = a + n
  BY <1>1
<1>5. /\ cut \in Seq(S) /\ Len(cut) = n
      /\ \A i \in 1..n : cut[i] = old[a + i]
  <2>1. old \in Seq(S) /\ a \in Nat /\ x \in Nat /\ a <= x /\ x <= Len(old)
    BY <1>1, <1>4 DEF IsBoundary
  <2> HIDE DEF x
  <2> QED BY ONLY <2>1, PartOfSeq
<1> HIDE DEF h, g, N, x, y, n, cut
<1>6. a + n <= Len(h) /\ Len(h) \in Nat /\ N - y \in Nat
  BY <1>1, <1>4
<1>7. \A i \in 1..n : cut[i] = h[a + i]
  <2>1. ASSUME NEW i \in 1..n PROVE cut[i] = h[a + i]
    <3> DEFINE k == a + i
    <3>1. k \in 1..x
      BY <1>4
    <3>2. cut[i] = old[k]
      BY <1>5
    <3> HIDE DEF k
    <3>3. h[k] = old[k]
      BY <1>1, <3>1
    <3> QED BY <3>2, <3>3 DEF k
  <2> QED BY <2>1
<1>8. /\ r \in Seq(S) /\ Len(r) = Len(h) - n
      /\ \A i \in 1..a : r[i] = h[i]
      /\ \A i \in (a + 1)..Len(r) : r[i] = h[i + n]
  <2>1. h \in Seq(S) /\ a \in Nat /\ n \in Nat /\ a + n <= Len(h)
    BY <1>1, <1>4, <1>6
  <2>2. r \in Seq(S) /\ Len(r) = Len(h) - n
    BY ONLY <2>1, CutFacts
  <2>3. \A i \in 1..a : r[i] = h[i]
    BY ONLY <2>1, CutFacts
  <2>4. \A i \in (a + 1)..Len(r) : r[i] = h[i + n]
    BY ONLY <2>1, CutFacts
  <2> QED BY ONLY <2>2, <2>3, <2>4
<1> HIDE DEF r
<1>9. Len(r) = Len(g) /\ Len(g) = a + N - y
  <2>1. Len(h) = x + N - y /\ Len(r) = Len(h) - n /\ x = a + n
    BY ONLY <1>1, <1>4, <1>8
  <2>2. Len(g) = a + N - y
    BY ONLY <1>3
  <2>3. a \in Nat /\ n \in Nat /\ N \in Nat /\ y \in Nat
    BY ONLY <1>1, <1>4
  <2> QED BY ONLY <2>1, <2>2, <2>3
<1>10. ASSUME NEW i \in 1..Len(r) PROVE r[i] = g[i]
  <2>1. CASE i <= a
    <3>1. i \in 1..a /\ i \in 1..x
      BY <1>4, <2>1
    <3> QED BY <1>1, <1>3, <1>8, <3>1
  <2>2. CASE i > a
    <3> DEFINE k == i + n
               l == i - a + y
    <3>1. /\ i \in (a + 1)..Len(r) /\ i \in (a + 1)..Len(g)
          /\ k \in (x + 1)..Len(h) /\ k - x + y = l
      BY <1>1, <1>4, <1>6, <1>8, <1>9, <2>2
    <3>2. g[i] = new[l] /\ r[i] = h[k]
      BY <1>3, <1>8, <3>1
    <3> HIDE DEF k, l
    <3>3. h[k] = new[l]
      BY <1>1, <3>1
    <3> QED BY <3>2, <3>3
  <2> QED BY <2>1, <2>2
<1>11. r = g
  BY <1>3, <1>8, <1>9, <1>10, SeqEqual
<1> QED BY <1>2, <1>4, <1>5, <1>6, <1>7, <1>11 DEF h, g, x, y, n, r, cut

\* then its new lines are put in.
LEMMA HalfwayInsert ==
  ASSUME NEW S, NEW old, NEW new, NEW p, IsBoundary(S, old, new, p), NEW z \in Nat, z <= p[2]
  PROVE  LET h == Halfway(old, new, p)
             added == SubSeq(new, z + 1, p[2])
         IN  /\ IsBoundary(S, old, new, <<p[1], z>>)
             /\ Insert(h, p[1], added) = Halfway(old, new, <<p[1], z>>)
             /\ added \in Seq(S) /\ Len(added) = p[2] - z /\ p[1] \in 0..Len(h)
<1> DEFINE h == Halfway(old, new, p)
           g == Halfway(old, new, <<p[1], z>>)
           N == Len(new)
           x == p[1]
           y == p[2]
           n == y - z
           added == SubSeq(new, z + 1, y)
           r == Insert(h, x, added)
<1>1. /\ h \in Seq(S) /\ Len(h) = x + N - y
      /\ \A i \in 1..x : h[i] = old[i]
      /\ \A i \in (x + 1)..Len(h) : h[i] = new[i - x + y]
      /\ x \in 0..Len(old) /\ y \in 0..N
      /\ Len(old) \in Nat /\ N \in Nat
  BY ONLY IsBoundary(S, old, new, p), HalfwayFacts
<1>2. IsBoundary(S, old, new, <<p[1], z>>)
  <2>1. old \in Seq(S) /\ new \in Seq(S) /\ x \in 0..Len(old) /\ z \in 0..Len(new)
    BY <1>1 DEF IsBoundary
  <2> QED BY <2>1 DEF IsBoundary, Boundaries
<1>3. /\ g \in Seq(S) /\ Len(g) = x + N - z
      /\ \A i \in 1..x : g[i] = old[i]
      /\ \A i \in (x + 1)..Len(g) : g[i] = new[i - x + z]
  <2> DEFINE q == <<p[1], z>>
  <2>1. q[1] = x /\ q[2] = z /\ IsBoundary(S, old, new, q)
    BY <1>2
  <2> HIDE DEF q, x
  <2>2. /\ Halfway(old, new, q) \in Seq(S) /\ Len(Halfway(old, new, q)) = q[1] + Len(new) - q[2]
        /\ \A i \in 1..q[1] : Halfway(old, new, q)[i] = old[i]
        /\ \A i \in (q[1] + 1)..Len(Halfway(old, new, q)) :
             Halfway(old, new, q)[i] = new[i - q[1] + q[2]]
    <3>1. IsBoundary(S, old, new, q)
      BY <2>1
    <3>2. Halfway(old, new, q) \in Seq(S) /\ Len(Halfway(old, new, q)) = q[1] + Len(new) - q[2]
      BY ONLY <3>1, HalfwayFacts
    <3>3. \A i \in 1..q[1] : Halfway(old, new, q)[i] = old[i]
      BY ONLY <3>1, HalfwayFacts
    <3>4. \A i \in (q[1] + 1)..Len(Halfway(old, new, q)) :
            Halfway(old, new, q)[i] = new[i - q[1] + q[2]]
      BY ONLY <3>1, HalfwayFacts
    <3> QED BY ONLY <3>2, <3>3, <3>4
  <2>3. g = Halfway(old, new, q)
    BY DEF q
  <2> HIDE DEF g
  <2> QED BY ONLY <2>1, <2>2, <2>3
<1>4. z <= y /\ n \in Nat /\ y = z + n /\ x \in Nat /\ y \in Nat
  BY <1>1
<1>5. /\ added \in Seq(S) /\ Len(added) = n
      /\ \A i \in 1..n : added[i] = new[z + i]
  <2>1. new \in Seq(S) /\ z \in Nat /\ y \in Nat /\ z <= y /\ y <= Len(new)
    BY <1>1, <1>4 DEF IsBoundary
  <2> HIDE DEF y
  <2> QED BY ONLY <2>1, PartOfSeq
<1> HIDE DEF h, g, N, x, y, n, added
<1>6. x \in 0..Len(h) /\ Len(h) \in Nat /\ N - y \in Nat /\ Len(h) = x + N - y
  BY <1>1, <1>4
<1>7. /\ r \in Seq(S) /\ Len(r) = Len(h) + n
      /\ \A i \in 1..x : r[i] = h[i]
      /\ \A i \in 1..n : r[x + i] = added[i]
      /\ \A i \in (x + 1)..Len(h) : r[i + n] = h[i]
  <2>1. h \in Seq(S) /\ added \in Seq(S) /\ x \in 0..Len(h) /\ Len(added) = n
    BY <1>1, <1>5, <1>6
  <2>2. r \in Seq(S) /\ Len(r) = Len(h) + Len(added)
    BY ONLY <2>1, InsertFacts
  <2>3. \A i \in 1..x : r[i] = h[i]
    BY ONLY <2>1, InsertFacts
  <2>4. \A i \in 1..Len(added) : r[x + i] = added[i]
    BY ONLY <2>1, InsertFacts
  <2>5. \A i \in (x + 1)..Len(h) : i + Len(added) \in 1..Len(r) /\ r[i + Len(added)] = h[i]
    BY ONLY <2>1, InsertFacts
  <2> HIDE DEF r
  <2> QED BY ONLY <2>1, <2>2, <2>3, <2>4, <2>5
<1> HIDE DEF r
<1>8. Len(r) = Len(g) /\ Len(r) = x + N - z
  BY <1>1, <1>3, <1>4, <1>7
<1>9. ASSUME NEW i \in 1..Len(r) PROVE r[i] = g[i]
  <2>1. CASE i <= x
    <3>1. i \in 1..x
      BY <1>4, <2>1
    <3> QED BY <1>1, <1>3, <1>7, <3>1
  <2>2. CASE x < i /\ i <= x + n
    <3> DEFINE k == i - x
               l == i - x + z
    <3>1. k \in 1..n /\ x + k = i /\ z + k = l /\ i \in (x + 1)..Len(g)
      BY <1>4, <1>8, <2>2
    <3>2. g[i] = new[l]
      BY <1>3, <3>1
    <3> HIDE DEF k, l
    <3>3. r[i] = added[k] /\ added[k] = new[l]
      BY <1>5, <1>7, <3>1
    <3> QED BY <3>2, <3>3
  <2>3. CASE i > x + n
    <3> DEFINE k == i - n
               l == i - x + z
    <3>1. k \in (x + 1)..Len(h) /\ k + n = i /\ k - x + y = l /\ i \in (x + 1)..Len(g)
      BY <1>4, <1>6, <1>7, <1>8, <2>3
    <3>2. g[i] = new[l]
      BY <1>3, <3>1
    <3> HIDE DEF k, l
    <3>3. r[i] = h[k] /\ h[k] = new[l]
      BY <1>1, <1>7, <3>1
    <3> QED BY <3>2, <3>3
  <2> QED BY <1>4, <2>1, <2>2, <2>3
<1>10. r = g
  BY <1>3, <1>7, <1>8, <1>9, SeqEqual
<1> QED BY <1>2, <1>4, <1>5, <1>6, <1>10 DEF h, g, x, y, n, r, added
=============================================================================
