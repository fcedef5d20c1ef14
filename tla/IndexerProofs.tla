---------------------------- MODULE IndexerProofs ---------------------------
(***************************************************************************)
(* Proofs about GitIndexer: the index is in step with the history after    *)
(* every hunk, whatever the history, its diffs and the failures of runs,   *)
(* and keeps the promise of HistoryIndex.                                  *)
(*                                                                         *)
(* The invariant says of each searchable file that its state is Settled,   *)
(* or Amid a delta at the boundary `left`: the tracker has a key for each  *)
(* line, each word's history has the keys of its lines, and its bitmap is  *)
(* one that finalizing completes (BitsFit).                                *)
(***************************************************************************)
EXTENDS IndexerLemmas, TLAPS

-----------------------------------------------------------------------------
(* The bitmap of one word of a file whose versions are past.               *)

\* The lines of the file once n commits are applied.
LinesAt(past, n) == IF n = 0 THEN <<>> ELSE past[n]

Has(past, w, c) == w \in WordsIn(past[c + 1])

(***************************************************************************)
(* B is a bitmap of w after n commits, the first F of them published: the  *)
(* last bit of a live word is not before the published head and the word   *)
(* is there ever since, every introduction since then has its bit, and no  *)
(* bit is wrong.                                                           *)
(***************************************************************************)
BitsFit(B, live, past, w, n, F) ==
  /\ live => \E m \in B : IsLast(m, B) /\ m >= F - 1 /\ \A c \in m..(n - 1) : Has(past, w, c)
  /\ \A c \in F..(n - 1) : Has(past, w, c) /\ (c = 0 \/ ~ Has(past, w, c - 1)) => c \in B
  /\ \A c \in B : Has(past, w, c)

BitArguments(B, n, F, top) ==
  /\ n \in Nat /\ F \in Nat /\ F <= n /\ top \in {n - 1, n}
  /\ B \subseteq 0..top

SameBelow(A, B, F) == A \cap 0..(F - 1) = B \cap 0..(F - 1)

\* A word of a new line: the commit has its bit.
LEMMA BitsAdded ==
  ASSUME NEW B, NEW n, NEW F, BitArguments(B, n, F, n), NEW past, NEW w, NEW before, NEW live,
         BitsFit(B, before, past, w, n, F), Has(past, w, n)
  PROVE  /\ BitsFit(B \cup {n}, live, past, w, n, F)
         /\ B \cup {n} \subseteq 0..n
         /\ SameBelow(B \cup {n}, B, F)
<1> DEFINE A == B \cup {n}
<1>1. n \in Nat /\ F \in Nat /\ F <= n /\ B \subseteq 0..n
  BY DEF BitArguments
<1>2. n \in A /\ IsLast(n, A) /\ n >= F - 1 /\ \A c \in n..(n - 1) : Has(past, w, c)
  BY <1>1 DEF IsLast
<1>3. \A c \in F..(n - 1) : Has(past, w, c) /\ (c = 0 \/ ~ Has(past, w, c - 1)) => c \in A
  BY DEF BitsFit
<1>4. \A c \in A : Has(past, w, c)
  BY DEF BitsFit
<1>5. SameBelow(A, B, F)
  BY <1>1 DEF SameBelow
<1> HIDE DEF A
<1>6. BitsFit(A, live, past, w, n, F)
  BY <1>2, <1>3, <1>4 DEF BitsFit
<1> QED BY <1>1, <1>5, <1>6 DEF A

\* A live word's bitmap, filled from its last bit up to a commit.
LEMMA BitsFilled ==
  ASSUME NEW B, NEW n, NEW F, NEW top, BitArguments(B, n, F, top), NEW past, NEW w,
         BitsFit(B, TRUE, past, w, n, F), NEW end, end \in {n - 1, n}
  PROVE  LET A == InsertRange(B, LastBit(B), end)
         IN  /\ B # {}
             /\ \E m \in B : IsLast(m, B) /\ m >= F - 1 /\ A = B \cup m..(end - 1)
             /\ SameBelow(A, B, F)
             /\ A \subseteq 0..top /\ B \subseteq A
             /\ n \in A => n \in B
             /\ BitsFit(A, FALSE, past, w, n, F)
<1> DEFINE A == InsertRange(B, LastBit(B), end)
<1>1. n \in Nat /\ F \in Nat /\ F <= n /\ B \subseteq 0..top /\ top \in {n - 1, n}
  BY DEF BitArguments
<1>2. PICK m \in B : IsLast(m, B) /\ m >= F - 1 /\ \A c \in m..(n - 1) : Has(past, w, c)
  BY DEF BitsFit
<1>3. m \in Nat /\ B \in SUBSET Int
  BY <1>1, <1>2
<1>4. A = B \cup m..(end - 1)
  <2>1. LastBit(B) = m
    BY ONLY <1>2, <1>3, LastBitIs
  <2> QED BY <2>1 DEF InsertRange
<1> HIDE DEF A
<1>5. SameBelow(A, B, F)
  <2>1. \A c \in m..(end - 1) : c \in 0..(F - 1) => c = m
    BY <1>1, <1>2, <1>3
  <2> QED BY <1>2, <1>4, <2>1 DEF SameBelow
<1>6. A \subseteq 0..top /\ B \subseteq A /\ (n \in A => n \in B)
  BY <1>1, <1>3, <1>4
<1>7. \A c \in A : Has(past, w, c)
  <2>1. \A c \in m..(end - 1) : c \in m..(n - 1)
    BY <1>1, <1>3
  <2> QED BY <1>2, <1>4, <2>1 DEF BitsFit
<1>8. \A c \in F..(n - 1) : Has(past, w, c) /\ (c = 0 \/ ~ Has(past, w, c - 1)) => c \in A
  BY <1>6 DEF BitsFit
<1>9. BitsFit(A, FALSE, past, w, n, F)
  BY <1>7, <1>8 DEF BitsFit
<1> QED BY <1>2, <1>4, <1>5, <1>6, <1>9 DEF A

\* A word that leaves the file.
LEMMA BitsRemoved ==
  ASSUME NEW B, NEW n, NEW F, BitArguments(B, n, F, n), NEW past, NEW w,
         BitsFit(B, TRUE, past, w, n, F)
  PROVE  LET A == Filled(B, n)
         IN  /\ SameBelow(A, B, F) /\ A \subseteq 0..n /\ B \subseteq A
             /\ n \in A => n \in B
             /\ BitsFit(A, FALSE, past, w, n, F)
<1>1. n - 1 \in {n - 1, n}
  OBVIOUS
<1>2. B # {}
  BY <1>1, BitsFilled
<1>3. Filled(B, n) = InsertRange(B, LastBit(B), n - 1)
  BY <1>2 DEF Filled
<1> DEFINE end == n - 1
           A == InsertRange(B, LastBit(B), end)
<1>4. end \in {n - 1, n} /\ BitArguments(B, n, F, n) /\ BitsFit(B, TRUE, past, w, n, F)
  OBVIOUS
<1> HIDE DEF end
<1>5. /\ SameBelow(A, B, F) /\ A \subseteq 0..n /\ B \subseteq A
      /\ n \in A => n \in B
      /\ BitsFit(A, FALSE, past, w, n, F)
  BY ONLY <1>4, BitsFilled
<1> QED BY <1>3, <1>5 DEF end

\* A commit is through.
LEMMA BitsNext ==
  ASSUME NEW B, NEW n, NEW F, BitArguments(B, n, F, n), NEW past, NEW w, NEW live,
         BitsFit(B, live, past, w, n, F),
         live <=> Has(past, w, n),
         live => n \in B \/ (n > 0 /\ Has(past, w, n - 1))
  PROVE  BitsFit(B, live, past, w, n + 1, F)
<1>1. n \in Nat /\ F \in Nat /\ F <= n /\ B \subseteq 0..n
  BY DEF BitArguments
<1>2. ASSUME live
      PROVE  \E m \in B : IsLast(m, B) /\ m >= F - 1 /\ \A c \in m..((n + 1) - 1) : Has(past, w, c)
  <2>1. PICK m \in B : IsLast(m, B) /\ m >= F - 1 /\ \A c \in m..(n - 1) : Has(past, w, c)
    BY <1>2 DEF BitsFit
  <2>2. \A c \in m..((n + 1) - 1) : c \in m..(n - 1) \/ c = n
    BY <1>1, <2>1
  <2> QED BY <1>2, <2>1, <2>2
<1>3. ASSUME NEW c \in F..((n + 1) - 1), Has(past, w, c), c = 0 \/ ~ Has(past, w, c - 1) PROVE c \in B
  <2>1. CASE c \in F..(n - 1)
    BY <1>3, <2>1 DEF BitsFit
  <2>2. CASE c = n
    BY <1>1, <1>3, <2>2
  <2> QED BY <1>1, <2>1, <2>2
<1>4. \A c \in B : Has(past, w, c)
  BY DEF BitsFit
<1> QED BY <1>2, <1>3, <1>4 DEF BitsFit

\* What Finalize makes of the bitmap of a word with history, n commits being applied.
Complete(B, head) ==
  IF head \in B THEN B
  ELSE IF B = {} THEN {head} ELSE InsertRange(B, LastBit(B), head + 1)

\* Finalizing completes the bitmap of a live word up to the head.
LEMMA BitsFinal ==
  ASSUME NEW B, NEW n, NEW F, BitArguments(B, n, F, n - 1), NEW past, NEW w, NEW live,
         BitsFit(B, TRUE, past, w, n, F)
  PROVE  LET A == Complete(B, n - 1)
         IN  /\ SameBelow(A, B, F) /\ A \subseteq 0..(n - 1) /\ B \subseteq A
             /\ n - 1 \in A /\ Has(past, w, n - 1)
             /\ BitsFit(A, live, past, w, n, n)
<1> DEFINE A == Complete(B, n - 1)
<1>1. n \in Nat /\ F \in Nat /\ F <= n /\ B \subseteq 0..(n - 1)
  BY DEF BitArguments
<1>2. PICK m \in B : IsLast(m, B) /\ m >= F - 1 /\ \A c \in m..(n - 1) : Has(past, w, c)
  BY DEF BitsFit
<1>3. Has(past, w, n - 1) /\ m \in 0..(n - 1)
  BY <1>1, <1>2
<1>4. /\ SameBelow(A, B, F) /\ A \subseteq 0..(n - 1) /\ B \subseteq A
      /\ n - 1 \in A /\ \A c \in A : Has(past, w, c)
  <2>1. CASE n - 1 \in B
    BY <1>1, <2>1 DEF Complete, SameBelow, BitsFit
  <2>2. CASE n - 1 \notin B
    <3> DEFINE R == InsertRange(B, LastBit(B), n)
    <3> DEFINE top == n - 1
    <3>1. n \in {n - 1, n} /\ BitArguments(B, n, F, top) /\ BitsFit(B, TRUE, past, w, n, F)
      OBVIOUS
    <3> HIDE DEF top
    <3>2. /\ B # {} /\ SameBelow(R, B, F) /\ R \subseteq 0..top /\ B \subseteq R
          /\ BitsFit(R, FALSE, past, w, n, F)
      BY ONLY <3>1, BitsFilled
    <3>5. \E k \in B : IsLast(k, B) /\ k >= F - 1 /\ R = B \cup k..(n - 1)
      BY ONLY <3>1, BitsFilled
    <3>3. A = R
      <4>1. (n - 1) + 1 = n
        BY <1>1
      <4> QED BY <2>2, <3>2, <4>1 DEF Complete
    <3> HIDE DEF R, A
    <3>4. n - 1 \in R
      BY <1>1, <3>5
    <3> QED BY <3>2, <3>3, <3>4 DEF BitsFit, top
  <2> QED BY <2>1, <2>2
<1> HIDE DEF A
<1>5. IsLast(n - 1, A) /\ n - 1 >= n - 1
  BY <1>1, <1>4 DEF IsLast
<1>6. \A c \in (n - 1)..(n - 1) : Has(past, w, c)
  BY <1>1, <1>3
<1>7. \A c \in n..(n - 1) : FALSE
  BY <1>1
<1>8. BitsFit(A, live, past, w, n, n)
  BY <1>4, <1>5, <1>6, <1>7 DEF BitsFit
<1> QED BY <1>3, <1>4, <1>8 DEF A

\* A word that is not in the file when the head is published.
LEMMA BitsDead ==
  ASSUME NEW B, NEW n \in Nat, NEW F, NEW past, NEW w, BitsFit(B, FALSE, past, w, n, F)
  PROVE  BitsFit(B, FALSE, past, w, n, n)
<1>1. \A c \in n..(n - 1) : FALSE
  OBVIOUS
<1> QED BY <1>1 DEF BitsFit

\* Fewer lines, or the same history further on.
LEMMA BitsWeaker ==
  ASSUME NEW B, NEW n, NEW F, NEW past, NEW w, NEW live, NEW still,
         BitsFit(B, live, past, w, n, F), still => live
  PROVE  BitsFit(B, still, past, w, n, F)
BY DEF BitsFit

\* The same bitmap, in a history that goes on.
LEMMA BitsOfLonger ==
  ASSUME NEW B, NEW n, NEW F, NEW top, BitArguments(B, n, F, top), NEW past, NEW longer, NEW w, NEW live,
         top = n - 1, \A c \in 1..n : longer[c] = past[c],
         BitsFit(B, live, past, w, n, F)
  PROVE  BitsFit(B, live, longer, w, n, F)
<1>1. n \in Nat /\ F \in Nat /\ B \subseteq 0..(n - 1)
  BY DEF BitArguments
<1>2. \A c \in 0..(n - 1) : Has(longer, w, c) = Has(past, w, c)
  <2>1. ASSUME NEW c \in 0..(n - 1) PROVE Has(longer, w, c) = Has(past, w, c)
    <3>1. c + 1 \in 1..n
      BY <1>1
    <3>2. longer[c + 1] = past[c + 1]
      BY <3>1
    <3> QED BY <3>2, Zenon DEF Has
  <2> QED BY <2>1
<1>3. ASSUME live
      PROVE  \E m \in B : IsLast(m, B) /\ m >= F - 1 /\ \A c \in m..(n - 1) : Has(longer, w, c)
  <2>1. PICK m \in B : IsLast(m, B) /\ m >= F - 1 /\ \A c \in m..(n - 1) : Has(past, w, c)
    BY <1>3 DEF BitsFit
  <2>2. \A c \in m..(n - 1) : c \in 0..(n - 1)
    BY <1>1, <2>1
  <2> QED BY <1>2, <2>1, <2>2
<1>4. ASSUME NEW c \in F..(n - 1), Has(longer, w, c), c = 0 \/ ~ Has(longer, w, c - 1) PROVE c \in B
  <2>1. c \in 0..(n - 1) /\ (c = 0 \/ c - 1 \in 0..(n - 1))
    BY <1>1
  <2>2. Has(past, w, c) /\ (c = 0 \/ ~ Has(past, w, c - 1))
    BY <1>2, <1>4, <2>1
  <2> QED BY <2>2 DEF BitsFit
<1>5. \A c \in B : Has(longer, w, c)
  BY <1>1, <1>2 DEF BitsFit
<1> QED BY <1>3, <1>4, <1>5 DEF BitsFit

-----------------------------------------------------------------------------
(* One file: its index between commits, and amid a delta.                  *)

\* past is the file's history, n the commits applied and F those published.
Setting(past, n, F) ==
  /\ past \in Seq(Seq(LineTexts))
  /\ n \in 0..Len(past) /\ F \in Nat /\ F <= n
  /\ Len(past) <= MaxCommits

Marked(d, past, n) ==
  \A c \in 1..(n - 1) : past[c + 1] # past[c] => c \in d.doc_modified_commits

\* Between commits the keys are of the commits applied.
Settled(s, past, n, F) ==
  LET lines == LinesAt(past, n)
  IN  /\ Follows(s, lines)
      /\ \A i \in 1..Len(lines) : Blame(s.tracker)[i].commit < n
      /\ \A w \in Words :
           /\ Bitmap(s.document, w) \subseteq 0..(n - 1)
           /\ BitsFit(Bitmap(s.document, w), w \in WordsIn(lines), past, w, n, F)
      /\ Marked(s.document, past, n)

\* w is in a new line that is not before boundary p.
After(new, p, w) == \E i \in (p[2] + 1)..Len(new) : w \in new[i]

\* Amid the delta of commit n the new lines may have keys of n, in their places.
Amid(s, past, n, p, F) ==
  LET old   == LinesAt(past, n)
      new   == past[n + 1]
      lines == Halfway(old, new, p)
  IN  /\ Follows(s, lines)
      /\ \A i \in 1..Len(lines) :
           LET key == Blame(s.tracker)[i]
           IN  key.commit < n \/ (key.commit = n /\ i > p[1] /\ key.line = p[2] + i - p[1] - 1)
      /\ \A w \in Words :
           /\ Bitmap(s.document, w) \subseteq 0..n
           /\ BitsFit(Bitmap(s.document, w), w \in WordsIn(lines), past, w, n, F)
           /\ n \in Bitmap(s.document, w) => After(new, p, w)
           /\ After(new, p, w) => n \in Bitmap(s.document, w) \/ w \in WordsIn(old)
      /\ Marked(s.document, past, n)

\* A history, with some commits applied and some of those published.
LEMMA SettingFacts ==
  ASSUME NEW past, NEW n, NEW F, Setting(past, n, F)
  PROVE  /\ n \in Nat /\ F \in Nat /\ F <= n
         /\ LinesAt(past, n) \in Seq(LineTexts) /\ Len(LinesAt(past, n)) \in Nat
         /\ n < Len(past) => /\ n \in CommitIndexes
                             /\ past[n + 1] \in Seq(LineTexts) /\ Len(past[n + 1]) \in Nat
                             /\ LinesAt(past, n + 1) = past[n + 1]
                             /\ Setting(past, n + 1, F)
<1>1. /\ past \in Seq(Seq(LineTexts)) /\ Len(past) \in Nat
      /\ n \in 0..Len(past) /\ F \in Nat /\ F <= n /\ Len(past) <= MaxCommits
      /\ \A i \in 1..Len(past) : past[i] \in Seq(LineTexts)
  BY SeqElements DEF Setting
<1>2. LinesAt(past, n) \in Seq(LineTexts)
  <2>1. CASE n = 0
    BY <2>1 DEF LinesAt
  <2>2. CASE n # 0
    <3>1. n \in 1..Len(past)
      BY <1>1, <2>2
    <3> QED BY <1>1, <2>2, <3>1 DEF LinesAt
  <2> QED BY <2>1, <2>2
<1>3. ASSUME n < Len(past)
      PROVE  /\ n \in CommitIndexes
             /\ past[n + 1] \in Seq(LineTexts) /\ Len(past[n + 1]) \in Nat
             /\ LinesAt(past, n + 1) = past[n + 1]
             /\ Setting(past, n + 1, F)
  <2>1. n + 1 \in 1..Len(past)
    BY <1>1, <1>3
  <2>2. past[n + 1] \in Seq(LineTexts)
    BY <1>1, <2>1
  <2>3. n \in CommitIndexes
    BY <1>1, <1>3, IndexerAssumption DEF CommitIndexes
  <2>4. LinesAt(past, n + 1) = past[n + 1]
    BY <1>1 DEF LinesAt
  <2>5. Setting(past, n + 1, F)
    BY <1>1, <1>3, <2>1 DEF Setting
  <2> QED BY <2>2, <2>3, <2>4, <2>5, SeqElements
<1> QED BY <1>1, <1>2, <1>3, SeqElements

\* A delta begins: nothing is applied yet, the boundary is the end.
LEMMA Begin ==
  ASSUME NEW s, NEW past, NEW n, NEW F, Setting(past, n, F), n < Len(past), Settled(s, past, n, F)
  PROVE  /\ Amid(s, past, n, End(LinesAt(past, n), past[n + 1]), F)
         /\ IsBoundary(LineTexts, LinesAt(past, n), past[n + 1], End(LinesAt(past, n), past[n + 1]))
<1> DEFINE old == LinesAt(past, n)
           new == past[n + 1]
           p == End(old, new)
<1>1. /\ old \in Seq(LineTexts) /\ new \in Seq(LineTexts) /\ n \in Nat
      /\ Len(old) \in Nat /\ Len(new) \in Nat
  BY SettingFacts
<1>2. /\ IsBoundary(LineTexts, old, new, p) /\ Halfway(old, new, p) = old
  BY <1>1, HalfwayEnds
<1>3. p[2] = Len(new)
  BY DEF End
<1> HIDE DEF p
<1>4. \A w : ~ After(new, p, w)
  BY <1>1, <1>3 DEF After
<1>5. ASSUME NEW w \in Words
      PROVE  /\ Bitmap(s.document, w) \subseteq 0..n /\ n \notin Bitmap(s.document, w)
             /\ BitsFit(Bitmap(s.document, w), w \in WordsIn(old), past, w, n, F)
  <2>1. /\ Bitmap(s.document, w) \subseteq 0..(n - 1)
        /\ BitsFit(Bitmap(s.document, w), w \in WordsIn(old), past, w, n, F)
    BY DEF Settled
  <2> QED BY <1>1, <2>1
<1>6. \A i \in 1..Len(old) : Blame(s.tracker)[i].commit < n
  BY DEF Settled
<1>7. Follows(s, old) /\ Marked(s.document, past, n)
  BY DEF Settled
<1> HIDE DEF old, new
<1>8. Amid(s, past, n, p, F)
  BY ONLY <1>2, <1>4, <1>5, <1>6, <1>7 DEF Amid, old, new
<1> QED BY <1>2, <1>8 DEF p, old, new

\* Lines that are kept need nothing done.
LEMMA Keep ==
  ASSUME NEW s, NEW past, NEW n, NEW F, NEW p, NEW q, Setting(past, n, F), n < Len(past),
         IsBoundary(LineTexts, LinesAt(past, n), past[n + 1], p),
         IsBoundary(LineTexts, LinesAt(past, n), past[n + 1], q),
         MayKeep(LinesAt(past, n), past[n + 1], q, p),
         Amid(s, past, n, p, F)
  PROVE  Amid(s, past, n, q, F)
<1> DEFINE old == LinesAt(past, n)
           new == past[n + 1]
           lines == Halfway(old, new, p)
           x == p[1]
           y == p[2]
           u == q[1]
           v == q[2]
<1>1. /\ old \in Seq(LineTexts) /\ new \in Seq(LineTexts) /\ n \in Nat
      /\ Len(old) \in Nat /\ Len(new) \in Nat
  BY SettingFacts
<1>2. x \in 0..Len(old) /\ u \in 0..Len(old) /\ y \in 0..Len(new) /\ v \in 0..Len(new)
  BY <1>1 DEF IsBoundary, Boundaries
<1>3. u <= x /\ x - u = y - v /\ \A i \in 1..(x - u) : old[u + i] = new[v + i]
  BY DEF MayKeep
<1>4. Halfway(old, new, q) = lines
  BY ONLY IsBoundary(LineTexts, LinesAt(past, n), past[n + 1], p),
         IsBoundary(LineTexts, LinesAt(past, n), past[n + 1], q),
         MayKeep(LinesAt(past, n), past[n + 1], q, p), HalfwayKept
<1>5. /\ Follows(s, lines) /\ Marked(s.document, past, n)
      /\ \A i \in 1..Len(lines) :
           LET key == Blame(s.tracker)[i]
           IN  key.commit < n \/ (key.commit = n /\ i > x /\ key.line = y + i - x - 1)
      /\ \A w \in Words :
           /\ Bitmap(s.document, w) \subseteq 0..n
           /\ BitsFit(Bitmap(s.document, w), w \in WordsIn(lines), past, w, n, F)
           /\ n \in Bitmap(s.document, w) => After(new, p, w)
           /\ After(new, p, w) => n \in Bitmap(s.document, w) \/ w \in WordsIn(old)
  BY DEF Amid
<1> HIDE DEF lines, old, new, x, y, u, v
<1>6. \A i \in 1..Len(lines) :
        LET key == Blame(s.tracker)[i]
        IN  key.commit < n \/ (key.commit = n /\ i > u /\ key.line = v + i - u - 1)
  <2>1. ASSUME NEW i \in 1..Len(lines), i > x PROVE i > u /\ y + i - x - 1 = v + i - u - 1
    BY <1>1, <1>2, <1>3, <2>1
  <2> QED BY <1>5, <2>1
<1>7. ASSUME NEW w
      PROVE  /\ After(new, p, w) => After(new, q, w)
             /\ After(new, q, w) => After(new, p, w) \/ w \in WordsIn(old)
  <2>1. After(new, p, w) <=> \E i \in (y + 1)..Len(new) : w \in new[i]
    BY DEF After, y
  <2>2. After(new, q, w) <=> \E i \in (v + 1)..Len(new) : w \in new[i]
    BY DEF After, v
  <2>3. ASSUME NEW i \in (v + 1)..Len(new), w \in new[i], ~ (i \in (y + 1)..Len(new))
        PROVE  w \in WordsIn(old)
    <3> DEFINE k == i - v
               l == u + k
    <3>1. k \in 1..(x - u) /\ v + k = i /\ l \in 1..Len(old)
      BY <1>1, <1>2, <1>3, <2>3
    <3>2. old[u + k] = new[v + k]
      <4> HIDE DEF k
      <4> QED BY <1>3, <3>1
    <3>3. w \in old[l]
      BY <2>3, <3>1, <3>2
    <3> HIDE DEF l, k
    <3> QED BY <1>1, <3>1, <3>3, SeqWords
  <2>4. \A i \in (y + 1)..Len(new) : i \in (v + 1)..Len(new)
    BY <1>1, <1>2, <1>3
  <2> QED BY <2>1, <2>2, <2>3, <2>4
<1> QED BY ONLY <1>4, <1>5, <1>6, <1>7 DEF Amid, old, new, u, v

\* What a step does for the commits that are published.
KeepsPast(s, u, F) ==
  \A w \in Words : SameBelow(Bitmap(u.document, w), Bitmap(s.document, w), F)

FileArguments(s, past, n, F, p) ==
  /\ Setting(past, n, F) /\ n < Len(past) /\ StateOK(s)
  /\ IsBoundary(LineTexts, LinesAt(past, n), past[n + 1], p)
  /\ Amid(s, past, n, p, F)

\* New lines put in at a boundary.
LEMMA AddStep ==
  ASSUME NEW s, NEW past, NEW n, NEW F, NEW p, FileArguments(s, past, n, F, p),
         NEW z \in Nat, z <= p[2], ~ s.tracked => z = 0
  PROVE  LET q == <<p[1], z>>
             u == AddNewLines(s, n, p[1], z, SubSeq(past[n + 1], z + 1, p[2]))
         IN  /\ FileArguments(u, past, n, F, q) /\ KeepsPast(s, u, F)
             /\ n \in u.document.doc_modified_commits
<1> DEFINE old == LinesAt(past, n)
           new == past[n + 1]
           lines == Halfway(old, new, p)
           x == p[1]
           y == p[2]
           q == <<x, z>>
           added == SubSeq(new, z + 1, y)
           u == AddNewLines(s, n, x, z, added)
           r == Halfway(old, new, q)
           d == s.document
           e == u.document
<1>0. /\ Setting(past, n, F) /\ n < Len(past) /\ StateOK(s)
      /\ IsBoundary(LineTexts, old, new, p) /\ Amid(s, past, n, p, F)
  BY DEF FileArguments
<1>1. /\ old \in Seq(LineTexts) /\ new \in Seq(LineTexts) /\ n \in Nat /\ n \in CommitIndexes
      /\ Len(old) \in Nat /\ Len(new) \in Nat /\ F \in Nat /\ F <= n
  BY <1>0, SettingFacts
<1>2. /\ x \in 0..Len(old) /\ y \in 0..Len(new) /\ x \in Nat /\ y \in Nat
  BY <1>0, <1>1 DEF IsBoundary, Boundaries
<1>3. /\ lines \in Seq(LineTexts) /\ Len(lines) = x + Len(new) - y /\ Len(lines) \in Nat
  <2>1. /\ lines \in Seq(LineTexts) /\ Len(lines) = p[1] + Len(new) - p[2]
    BY ONLY <1>0, HalfwayFacts
  <2> QED BY <1>1, <1>2, <2>1
<1>4. /\ IsBoundary(LineTexts, old, new, q)
      /\ Insert(lines, x, added) = r
      /\ added \in Seq(LineTexts) /\ Len(added) = y - z /\ x \in 0..Len(lines)
  <2>1. IsBoundary(LineTexts, old, new, p) /\ z \in Nat /\ z <= p[2]
    BY <1>0
  <2> HIDE DEF old, new
  <2> QED BY ONLY <2>1, HalfwayInsert
<1>5. /\ Follows(s, lines) /\ Marked(d, past, n)
      /\ \A i \in 1..Len(lines) :
           LET key == Blame(s.tracker)[i]
           IN  key.commit < n \/ (key.commit = n /\ i > x /\ key.line = y + i - x - 1)
      /\ \A w \in Words :
           /\ Bitmap(d, w) \subseteq 0..n
           /\ BitsFit(Bitmap(d, w), w \in WordsIn(lines), past, w, n, F)
           /\ n \in Bitmap(d, w) => After(new, p, w)
           /\ After(new, p, w) => n \in Bitmap(d, w) \/ w \in WordsIn(old)
  BY <1>0 DEF Amid
<1>6. AddFits(s, lines, n, x, z, added)
  <2>1. AddArguments(s, n, x, z, added)
    BY <1>0, <1>1, <1>2, <1>4 DEF AddArguments
  <2>2. \A i \in 1..Len(lines) :
          Blame(s.tracker)[i].commit = n => Blame(s.tracker)[i].line >= z + Len(added)
    <3>1. ASSUME NEW i \in 1..Len(lines), Blame(s.tracker)[i].commit = n
          PROVE  Blame(s.tracker)[i].line >= z + Len(added)
      <4> DEFINE k == Blame(s.tracker)[i]
      <4>1. k.commit < n \/ (i > x /\ k.line = y + i - x - 1)
        BY <1>5
      <4>2. k.commit = n /\ ~ (n < n)
        BY <1>1, <3>1
      <4> HIDE DEF k
      <4>3. k.line = y + i - x - 1 /\ i > x
        BY <4>1, <4>2
      <4>4. k.line >= z + Len(added)
        BY <1>2, <1>3, <1>4, <4>3, SMTT(30)
      <4> QED BY <4>4 DEF k
    <3> QED BY <3>1
  <2>3. /\ lines \in Seq(LineTexts) /\ Follows(s, lines) /\ x \in 0..Len(lines)
        /\ ~ s.tracked => z = 0
    BY <1>3, <1>4, <1>5
  <2> HIDE DEF added, lines, x
  <2> QED BY ONLY <2>1, <2>2, <2>3 DEF AddFits
<1>7. /\ Follows(u, r)
      /\ Blame(u.tracker) = Insert(Blame(s.tracker), x, NewKeys(Len(added), n, z))
  <2> HIDE DEF lines, x, added, r, q
  <2>1. /\ Follows(u, Insert(lines, x, added))
        /\ Blame(u.tracker) = Insert(Blame(s.tracker), x, NewKeys(Len(added), n, z))
    BY ONLY <1>6, AddFollows
  <2> QED BY <1>4, <2>1
<1>8. /\ StateOK(u) /\ u.tracked
      /\ e.doc_modified_commits = d.doc_modified_commits \cup {n}
      /\ \A w \in WordsIn(added) : Bitmap(e, w) = Bitmap(d, w) \cup {n}
      /\ \A w : w \notin WordsIn(added) => Bitmap(e, w) = Bitmap(d, w)
  <2>1. AddArguments(s, n, x, z, added)
    BY <1>6 DEF AddFits
  <2> QED BY ONLY <2>1, AddResult
<1> HIDE DEF old, new, lines, x, y, added, u, r, d, e
<1>9. Len(r) = Len(lines) + (y - z)
  <2>1. Len(Insert(lines, x, added)) = Len(lines) + Len(added)
    BY ONLY <1>3, <1>4, InsertFacts
  <2> QED BY <1>4, <2>1
<1>10. ASSUME NEW i \in 1..Len(r)
       PROVE  LET key == Blame(u.tracker)[i]
              IN  key.commit < n \/ (key.commit = n /\ i > x /\ key.line = z + i - x - 1)
  <2> DEFINE b == Blame(s.tracker)
             keys == NewKeys(Len(added), n, z)
             m == Len(added)
  <2>1. /\ Len(b) = Len(lines) /\ Len(keys) = m /\ m \in Nat /\ m = y - z
        /\ i \in 1..(Len(b) + m)
    BY <1>2, <1>4, <1>5, <1>9 DEF Follows, NewKeys
  <2>2. Blame(u.tracker)[i] = IF i <= x THEN b[i] ELSE IF i <= x + m THEN keys[i - x] ELSE b[i - m]
    <3>1. Insert(b, x, keys) = [j \in 1..(Len(b) + m) |->
            IF j <= x THEN b[j] ELSE IF j <= x + m THEN keys[j - x] ELSE b[j - m]]
      BY <2>1 DEF Insert
    <3> HIDE DEF b, keys, m
    <3> QED BY <1>7, <2>1, <3>1 DEF b, keys, m
  <2>3. CASE i <= x
    <3>1. i \in 1..Len(lines)
      BY <1>3, <1>4, <2>3
    <3> QED BY <1>2, <1>5, <2>2, <2>3, <3>1
  <2>4. CASE x < i /\ i <= x + m
    <3> DEFINE k == i - x
    <3>1. k \in 1..m /\ z + k - 1 = z + i - x - 1
      BY <1>2, <2>1, <2>4
    <3>2. Blame(u.tracker)[i] = keys[k]
      BY <1>2, <2>1, <2>2, <2>4
    <3> HIDE DEF k
    <3>3. keys[k].commit = n /\ keys[k].line = z + k - 1
      BY <3>1 DEF NewKeys
    <3> QED BY <2>4, <3>1, <3>2, <3>3
  <2>5. CASE i > x + m
    <3> DEFINE k == i - m
    <3>1. k \in 1..Len(lines) /\ k > x /\ y + k - x - 1 = z + i - x - 1 /\ i > x
      BY <1>2, <1>3, <2>1, <2>5, SMTT(30)
    <3>2. Blame(u.tracker)[i] = b[k]
      BY <1>2, <2>1, <2>2, <2>5
    <3> HIDE DEF k
    <3>3. b[k].commit < n \/ (b[k].commit = n /\ b[k].line = y + k - x - 1)
      BY <1>5, <3>1
    <3> HIDE DEF b
    <3> QED BY <3>1, <3>2, <3>3
  <2> QED BY <1>2, <2>1, <2>3, <2>4, <2>5
<1>11. ASSUME NEW w
       PROVE  /\ w \in WordsIn(added) => After(new, q, w) /\ Has(past, w, n)
              /\ After(new, p, w) => After(new, q, w)
              /\ After(new, q, w) => w \in WordsIn(added) \/ After(new, p, w)
              /\ w \in WordsIn(r) => w \in WordsIn(added) \/ w \in WordsIn(lines)
  <2>1. w \in WordsIn(added) <=> \E i \in (z + 1)..y : w \in new[i]
    <3>1. new \in Seq(LineTexts) /\ z \in Nat /\ y \in Nat /\ z <= y /\ y <= Len(new)
      BY <1>1, <1>2 DEF y
    <3> QED BY ONLY <3>1, PartWords DEF added
  <2>2. After(new, p, w) <=> \E i \in (y + 1)..Len(new) : w \in new[i]
    BY DEF After, y
  <2>3. After(new, q, w) <=> \E i \in (z + 1)..Len(new) : w \in new[i]
    BY DEF After
  <2>4. /\ \A i \in (z + 1)..y : i \in (z + 1)..Len(new) /\ i \in 1..Len(new)
        /\ \A i \in (y + 1)..Len(new) : i \in (z + 1)..Len(new)
        /\ \A i \in (z + 1)..Len(new) : i \in (z + 1)..y \/ i \in (y + 1)..Len(new)
    <3>1. new \in Seq(LineTexts) /\ z \in Nat /\ y \in Nat /\ z <= y /\ y <= Len(new)
      BY <1>1, <1>2 DEF y
    <3> QED BY ONLY <3>1
  <2>5. w \in WordsIn(added) => Has(past, w, n)
    BY <1>1, <2>1, <2>4, SeqWords DEF Has, new
  <2>6. w \in WordsIn(lines) <=> \/ \E i \in 1..x : w \in old[i]
                                 \/ \E i \in (y + 1)..Len(new) : w \in new[i]
    BY ONLY <1>0, HalfwayWords DEF lines, x, y, old, new
  <2>7. w \in WordsIn(r) <=> \/ \E i \in 1..q[1] : w \in old[i]
                             \/ \E i \in (q[2] + 1)..Len(new) : w \in new[i]
    BY ONLY <1>4, HalfwayWords DEF r
  <2>8. q[1] = x /\ q[2] = z
    OBVIOUS
  <2> HIDE DEF q
  <2> QED BY <2>1, <2>2, <2>3, <2>4, <2>5, <2>6, <2>7, <2>8
<1>12. ASSUME NEW w \in Words
       PROVE  /\ Bitmap(e, w) \subseteq 0..n
              /\ BitsFit(Bitmap(e, w), w \in WordsIn(r), past, w, n, F)
              /\ n \in Bitmap(e, w) => After(new, q, w)
              /\ After(new, q, w) => n \in Bitmap(e, w) \/ w \in WordsIn(old)
              /\ SameBelow(Bitmap(e, w), Bitmap(d, w), F)
  <2> DEFINE B == Bitmap(d, w)
             live == w \in WordsIn(lines)
             still == w \in WordsIn(r)
  <2>0. /\ B \subseteq 0..n /\ BitsFit(B, live, past, w, n, F)
        /\ n \in B => After(new, p, w)
        /\ After(new, p, w) => n \in B \/ w \in WordsIn(old)
    BY <1>5
  <2> HIDE DEF live, still, B, q
  <2>1. CASE w \in WordsIn(added)
    <3>1. Bitmap(e, w) = B \cup {n} /\ Has(past, w, n) /\ After(new, q, w)
      BY <1>8, <1>11, <2>1 DEF B
    <3>2. BitArguments(B, n, F, n)
      BY <1>1, <2>0 DEF BitArguments
    <3>3. /\ BitsFit(B \cup {n}, still, past, w, n, F)
          /\ B \cup {n} \subseteq 0..n /\ SameBelow(B \cup {n}, B, F)
      BY ONLY <2>0, <3>1, <3>2, BitsAdded
    <3> QED BY <3>1, <3>3 DEF still, B
  <2>2. CASE w \notin WordsIn(added)
    <3>1. Bitmap(e, w) = B
      BY <1>8, <2>2 DEF B
    <3>2. still => live
      BY <1>11, <2>2 DEF still, live
    <3>3. BitsFit(B, still, past, w, n, F)
      BY ONLY <2>0, <3>2, BitsWeaker
    <3>4. (After(new, p, w) => After(new, q, w)) /\ (After(new, q, w) => After(new, p, w))
      BY <1>11, <2>2
    <3> QED BY <2>0, <3>1, <3>3, <3>4 DEF still, B, SameBelow
  <2> QED BY <2>1, <2>2
<1>13. Marked(e, past, n) /\ n \in e.doc_modified_commits
  BY <1>5, <1>8 DEF Marked
<1>14. Amid(u, past, n, q, F)
  <2>1. q[1] = x /\ q[2] = z
    OBVIOUS
  <2> HIDE DEF q
  <2> QED BY ONLY <1>7, <1>10, <1>12, <1>13, <2>1 DEF Amid, old, new, r, e
<1>15. KeepsPast(s, u, F)
  BY <1>12 DEF KeepsPast, d, e
<1> HIDE DEF q
<1>16. FileArguments(u, past, n, F, q)
  BY ONLY <1>0, <1>4, <1>8, <1>14 DEF FileArguments, old, new
<1> QED BY <1>13, <1>15, <1>16 DEF u, e, added, q, x, y, new

\* Of a word that stays, or that is not there, taking lines out leaves the bits.
LEMMA KeptBits ==
  ASSUME NEW s, NEW c, NEW start, NEW lines, RemoveArguments(s, start, lines), NEW w,
         \/ w \notin WordsIn(lines) \/ w \notin DOMAIN s.document.words
         \/ History(RemoveLines(s, c, start, lines).document, w) # {}
  PROVE  Bitmap(RemoveLines(s, c, start, lines).document, w) = Bitmap(s.document, w)
BY RemoveResult, SMTT(60)

\* Old lines taken out before a boundary.
LEMMA RemoveStep ==
  ASSUME NEW s, NEW past, NEW n, NEW F, NEW p, FileArguments(s, past, n, F, p),
         NEW a \in Nat, a < p[1]
  PROVE  LET q == <<a, p[2]>>
             deleted == SubSeq(LinesAt(past, n), a + 1, p[1])
             u == RemoveLines(s, n, a, deleted)
         IN  /\ CanDelete(s, a, Len(deleted))
             /\ FileArguments(u, past, n, F, q) /\ KeepsPast(s, u, F)
             /\ n \in u.document.doc_modified_commits /\ u.tracked
<1> DEFINE old == LinesAt(past, n)
           new == past[n + 1]
           lines == Halfway(old, new, p)
           x == p[1]
           y == p[2]
           q == <<a, y>>
           deleted == SubSeq(old, a + 1, x)
           m == Len(deleted)
           u == RemoveLines(s, n, a, deleted)
           r == Halfway(old, new, q)
           d == s.document
           e == u.document
<1>0. /\ Setting(past, n, F) /\ n < Len(past) /\ StateOK(s)
      /\ IsBoundary(LineTexts, old, new, p) /\ Amid(s, past, n, p, F)
  BY DEF FileArguments
<1>1. /\ old \in Seq(LineTexts) /\ new \in Seq(LineTexts) /\ n \in Nat /\ n \in CommitIndexes
      /\ Len(old) \in Nat /\ Len(new) \in Nat /\ F \in Nat /\ F <= n
  BY <1>0, SettingFacts
<1>2. /\ x \in 0..Len(old) /\ y \in 0..Len(new) /\ x \in Nat /\ y \in Nat /\ a < x
  BY <1>0, <1>1 DEF IsBoundary, Boundaries
<1>3. /\ lines \in Seq(LineTexts) /\ Len(lines) = x + Len(new) - y /\ Len(lines) \in Nat
  <2>1. /\ lines \in Seq(LineTexts) /\ Len(lines) = p[1] + Len(new) - p[2]
    BY ONLY <1>0, HalfwayFacts
  <2> QED BY <1>1, <1>2, <2>1
<1>4. /\ IsBoundary(LineTexts, old, new, q)
      /\ Cut(lines, a, m) = r
      /\ deleted \in Seq(LineTexts) /\ m = x - a /\ m \in Nat /\ a + m <= Len(lines)
      /\ \A i \in 1..m : deleted[i] = lines[a + i]
  <2>1. IsBoundary(LineTexts, old, new, p) /\ a \in Nat /\ a <= p[1]
    BY <1>0, <1>2
  <2> DEFINE k == x - a
  <2>2. /\ IsBoundary(LineTexts, old, new, q)
        /\ Cut(lines, a, k) = r
        /\ deleted \in Seq(LineTexts) /\ m = k /\ k \in Nat /\ a + k <= Len(lines)
        /\ \A i \in 1..k : deleted[i] = lines[a + i]
    <3> HIDE DEF old, new
    <3> QED BY ONLY <2>1, HalfwayCut, SMTT(30)
  <2> HIDE DEF k, m, deleted, lines, r, q, x
  <2> QED BY <2>2 DEF k
<1>5. /\ Follows(s, lines) /\ Marked(d, past, n)
      /\ \A i \in 1..Len(lines) :
           LET key == Blame(s.tracker)[i]
           IN  key.commit < n \/ (key.commit = n /\ i > x /\ key.line = y + i - x - 1)
      /\ \A w \in Words :
           /\ Bitmap(d, w) \subseteq 0..n
           /\ BitsFit(Bitmap(d, w), w \in WordsIn(lines), past, w, n, F)
           /\ n \in Bitmap(d, w) => After(new, p, w)
           /\ After(new, p, w) => n \in Bitmap(d, w) \/ w \in WordsIn(old)
  BY <1>0 DEF Amid
<1>6. RemoveFits(s, lines, a, deleted)
  <2>1. m > 0 /\ StateOK(s) /\ lines \in Seq(LineTexts) /\ Follows(s, lines)
    BY <1>0, <1>2, <1>3, <1>4, <1>5
  <2> HIDE DEF lines, deleted
  <2> QED BY <1>4, <2>1 DEF RemoveFits
<1>7. /\ CanDelete(s, a, m) /\ Follows(u, r)
      /\ Blame(u.tracker) = Cut(Blame(s.tracker), a, m)
  <2> HIDE DEF lines, x, deleted, r, q
  <2>1. /\ CanDelete(s, a, m) /\ Follows(u, Cut(lines, a, m))
        /\ Blame(u.tracker) = Cut(Blame(s.tracker), a, m)
    BY ONLY <1>6, RemoveFollows
  <2> QED BY <1>4, <2>1
<1>8. /\ StateOK(u) /\ u.tracked = s.tracked
      /\ DOMAIN e.words = DOMAIN d.words
      /\ e.doc_modified_commits = d.doc_modified_commits \cup {n}
      /\ \A w : \/ w \notin WordsIn(deleted) \/ w \notin DOMAIN d.words \/ History(e, w) # {}
                => Bitmap(e, w) = Bitmap(d, w)
      /\ \A w \in WordsIn(deleted) : w \in DOMAIN d.words /\ History(e, w) = {} =>
           Bitmap(e, w) = Filled(Bitmap(d, w), n)
  <2>1. RemoveArguments(s, a, deleted)
    BY <1>4, <1>7, <1>0 DEF RemoveArguments, CanDelete
  <2> HIDE DEF deleted, d
  <2>2. /\ StateOK(u) /\ u.tracked = s.tracked
        /\ DOMAIN e.words = DOMAIN d.words
        /\ e.doc_modified_commits = d.doc_modified_commits \cup {n}
    BY ONLY <2>1, RemoveResult DEF d
  <2>3. \A w : \/ w \notin WordsIn(deleted) \/ w \notin DOMAIN d.words \/ History(e, w) # {}
               => Bitmap(e, w) = Bitmap(d, w)
    <3>1. ASSUME NEW w, w \notin WordsIn(deleted) \/ w \notin DOMAIN d.words \/ History(e, w) # {}
          PROVE  Bitmap(e, w) = Bitmap(d, w)
      BY ONLY <2>1, <3>1, KeptBits DEF d
    <3> QED BY ONLY <3>1
  <2>4. \A w \in WordsIn(deleted) : w \in DOMAIN d.words /\ History(e, w) = {} =>
           Bitmap(e, w) = Filled(Bitmap(d, w), n)
    BY ONLY <2>1, RemoveResult DEF d
  <2> QED BY ONLY <2>2, <2>3, <2>4
<1> HIDE DEF old, new, lines, x, y, deleted, u, r, d, e
<1>9. Len(r) = Len(lines) - m
  <2>1. lines \in Seq(LineTexts) /\ a \in Nat /\ m \in Nat /\ a + m <= Len(lines)
    BY <1>3, <1>4
  <2> HIDE DEF m
  <2>2. Len(Cut(lines, a, m)) = Len(lines) - m
    BY ONLY <2>1, CutFacts
  <2>3. Cut(lines, a, m) = r
    BY ONLY <1>4
  <2> QED BY ONLY <2>2, <2>3
<1> HIDE DEF m
<1>10. ASSUME NEW i \in 1..Len(r)
       PROVE  LET key == Blame(u.tracker)[i]
              IN  key.commit < n \/ (key.commit = n /\ i > a /\ key.line = y + i - a - 1)
  <2> DEFINE b == Blame(s.tracker)
  <2>1. /\ Len(b) = Len(lines) /\ i \in 1..(Len(b) - m)
    BY <1>5, <1>9 DEF Follows
  <2>2. Blame(u.tracker)[i] = IF i <= a THEN b[i] ELSE b[i + m]
    <3>1. Cut(b, a, m) = [j \in 1..(Len(b) - m) |-> IF j <= a THEN b[j] ELSE b[j + m]]
      BY DEF Cut
    <3> HIDE DEF b
    <3> QED BY <1>7, <2>1, <3>1 DEF b
  <2>3. CASE i <= a
    <3>1. i \in 1..Len(lines) /\ ~ (i > x)
      <4> HIDE DEF b
      <4>1. i \in 1..(Len(lines) - m) /\ m \in Nat /\ Len(lines) \in Nat
        BY <1>3, <1>4, <2>1
      <4>2. x \in Nat /\ a \in Nat /\ a < x
        BY <1>2
      <4>3. i \in 1..Len(lines)
        BY ONLY <4>1
      <4>4. i \in Nat
        BY ONLY <4>1
      <4>5. ~ (i > x)
        BY ONLY <2>3, <4>2, <4>4
      <4> QED BY ONLY <4>3, <4>5
    <3> QED BY <1>5, <2>2, <2>3, <3>1
  <2>4. CASE i > a
    <3> DEFINE k == i + m
    <3>1. k \in 1..Len(lines) /\ y + k - x - 1 = y + i - a - 1
      <4> HIDE DEF b
      <4>1. i \in 1..(Len(lines) - m) /\ x = a + m
        BY <1>2, <1>4, <2>1
      <4> QED BY ONLY <1>2, <1>3, <1>4, <2>4, <4>1, a \in Nat
    <3>2. Blame(u.tracker)[i] = b[k]
      BY <2>1, <2>2, <2>4
    <3> HIDE DEF k
    <3>3. b[k].commit < n \/ (b[k].commit = n /\ b[k].line = y + k - x - 1)
      BY <1>5, <3>1
    <3> HIDE DEF b
    <3> QED BY <2>4, <3>1, <3>2, <3>3
  <2> QED BY <2>1, <2>3, <2>4
<1>11. ASSUME NEW w
       PROVE  /\ w \in WordsIn(deleted) => w \in WordsIn(lines)
              /\ w \in WordsIn(r) => w \in WordsIn(lines)
              /\ After(new, p, w) <=> After(new, q, w)
              /\ After(new, q, w) => w \in WordsIn(r)
  <2>1. w \in WordsIn(deleted) => w \in WordsIn(lines)
    <3>1. /\ w \in WordsIn(deleted) => \E i \in 1..Len(deleted) : w \in deleted[i]
          /\ (\E i \in 1..Len(lines) : w \in lines[i]) => w \in WordsIn(lines)
      BY <1>3, <1>4, SeqWords
    <3>2. ASSUME NEW i \in 1..m, w \in deleted[i] PROVE \E j \in 1..Len(lines) : w \in lines[j]
      <4> DEFINE k == a + i
      <4>1. k \in 1..Len(lines) /\ deleted[i] = lines[k]
        BY <1>3, <1>4
      <4> HIDE DEF k
      <4> QED BY <3>2, <4>1
    <3> QED BY <3>1, <3>2 DEF m
  <2>2. w \in WordsIn(lines) <=> \/ \E i \in 1..x : w \in old[i]
                                 \/ \E i \in (y + 1)..Len(new) : w \in new[i]
    BY ONLY <1>0, HalfwayWords DEF lines, x, y, old, new
  <2>3. w \in WordsIn(r) <=> \/ \E i \in 1..q[1] : w \in old[i]
                             \/ \E i \in (q[2] + 1)..Len(new) : w \in new[i]
    BY ONLY <1>4, HalfwayWords DEF r
  <2>4. q[1] = a /\ q[2] = y
    OBVIOUS
  <2>5. \A i \in 1..a : i \in 1..x
    BY <1>2 DEF x
  <2>6. After(new, p, w) <=> \E i \in (y + 1)..Len(new) : w \in new[i]
    BY DEF After, y
  <2>7. After(new, q, w) <=> \E i \in (y + 1)..Len(new) : w \in new[i]
    BY DEF After
  <2> HIDE DEF q
  <2> QED BY <2>1, <2>2, <2>3, <2>4, <2>5, <2>6, <2>7
<1>12. ASSUME NEW w \in Words
       PROVE  /\ Bitmap(e, w) \subseteq 0..n
              /\ BitsFit(Bitmap(e, w), w \in WordsIn(r), past, w, n, F)
              /\ n \in Bitmap(e, w) => After(new, q, w)
              /\ After(new, q, w) => n \in Bitmap(e, w) \/ w \in WordsIn(old)
              /\ SameBelow(Bitmap(e, w), Bitmap(d, w), F)
  <2> DEFINE B == Bitmap(d, w)
             A == Bitmap(e, w)
             live == w \in WordsIn(lines)
             still == w \in WordsIn(r)
             ahead == After(new, q, w)
  <2>0. /\ B \subseteq 0..n /\ BitsFit(B, live, past, w, n, F)
        /\ n \in B => ahead
        /\ ahead => n \in B \/ w \in WordsIn(old)
        /\ still => live
    BY <1>5, <1>11
  <2>9. BitArguments(B, n, F, n)
    BY <1>1, <2>0 DEF BitArguments
  <2>1. CASE A = B
    <3> HIDE DEF live, still, B, A, ahead
    <3>1. BitsFit(B, still, past, w, n, F)
      BY ONLY <2>0, BitsWeaker
    <3> QED BY <2>0, <2>1, <3>1 DEF still, A, B, SameBelow, ahead
  <2>2. CASE A # B
    <3>1. /\ w \in WordsIn(deleted) /\ w \in DOMAIN d.words /\ History(e, w) = {}
          /\ A = Filled(B, n)
      BY <1>8, <2>2
    <3>2. live
      BY <1>11, <3>1
    <3>3. ~ still
      <4>1. History(e, w) = KeysWith(r, Blame(u.tracker), w)
        BY <1>7 DEF Follows, e
      <4>2. SUFFICES ASSUME still PROVE FALSE
        OBVIOUS
      <4>3. PICK i \in DOMAIN r : w \in r[i]
        BY <4>2 DEF WordsIn
      <4> QED BY <3>1, <4>1, <4>3 DEF KeysWith
    <3> HIDE DEF live, still, B, A, ahead
    <3>4. BitsFit(B, TRUE, past, w, n, F)
      BY <2>0, <3>2 DEF BitsFit
    <3>5. /\ SameBelow(A, B, F) /\ A \subseteq 0..n /\ B \subseteq A
          /\ n \in A => n \in B
          /\ BitsFit(A, FALSE, past, w, n, F)
      BY ONLY <2>9, <3>1, <3>4, BitsRemoved
    <3>6. BitsFit(A, still, past, w, n, F)
      BY <3>3, <3>5 DEF BitsFit
    <3> QED BY <2>0, <3>5, <3>6 DEF still, A, B, ahead
  <2> QED BY <2>1, <2>2
<1>13. Marked(e, past, n) /\ n \in e.doc_modified_commits
  BY <1>5, <1>8 DEF Marked
<1>14. Amid(u, past, n, q, F)
  <2>1. q[1] = a /\ q[2] = y
    OBVIOUS
  <2> HIDE DEF q
  <2> QED BY ONLY <1>7, <1>10, <1>12, <1>13, <2>1 DEF Amid, old, new, r, e
<1>15. KeepsPast(s, u, F)
  BY <1>12 DEF KeepsPast, d, e
<1>16. u.tracked
  BY <1>7, <1>8 DEF CanDelete
<1> HIDE DEF q
<1>17. FileArguments(u, past, n, F, q)
  BY ONLY <1>0, <1>4, <1>8, <1>14 DEF FileArguments, old, new
<1> QED BY <1>7, <1>13, <1>15, <1>16, <1>17 DEF u, e, deleted, q, x, y, old, m

\* A hunk lies between two boundaries, and lines may be kept before it.
HunkArguments(old, new, at, to) ==
  /\ IsBoundary(LineTexts, old, new, at)
  /\ at[1] <= to[1] /\ at[2] <= to[2] /\ at # to
  /\ MoreHunks(old, new, at) \/ MayKeep(old, new, Start, at)

\* A hunk's line numbers, as git gives them, are those of its boundaries.
LEMMA HunkOf ==
  ASSUME NEW old, NEW new, NEW at, NEW to,
         HunkArguments(old, new, at, to), IsBoundary(LineTexts, old, new, to)
  PROVE  LET hunk == HunkBetween(old, new, at, to)
         IN  /\ hunk.deleted = SubSeq(old, at[1] + 1, to[1])
             /\ hunk.added = SubSeq(new, at[2] + 1, to[2])
             /\ hunk.deleted \in Seq(LineTexts) /\ hunk.added \in Seq(LineTexts)
             /\ at[1] \in Nat /\ at[2] \in Nat /\ at = <<at[1], at[2]>>
             /\ at[1] < to[1] => hunk.deleted # <<>> /\ hunk.prev_start - 1 = at[1]
             /\ at[2] < to[2] => hunk.added # <<>> /\ hunk.new_start - 1 = at[2]
             /\ at[1] = to[1] => hunk.deleted = <<>> /\ hunk.prev_start = to[1] /\ at[2] < to[2]
             /\ at[2] = to[2] => hunk.added = <<>> /\ at[1] < to[1]
             /\ to[1] = 0 => at[2] = 0
<1> DEFINE hunk == HunkBetween(old, new, at, to)
           a == at[1]
           b == at[2]
           x == to[1]
           y == to[2]
<1>1. /\ old \in Seq(LineTexts) /\ new \in Seq(LineTexts)
      /\ a \in 0..Len(old) /\ b \in 0..Len(new) /\ x \in 0..Len(old) /\ y \in 0..Len(new)
      /\ Len(old) \in Nat /\ Len(new) \in Nat /\ at = <<a, b>> /\ to = <<x, y>>
      /\ a <= x /\ b <= y
  BY SeqElements DEF HunkArguments, IsBoundary, Boundaries
<1>2. ~ (a = x /\ b = y)
  BY <1>1 DEF HunkArguments
<1>3. /\ hunk.deleted = SubSeq(old, a + 1, x) /\ hunk.added = SubSeq(new, b + 1, y)
      /\ hunk.prev_start = (IF a < x THEN a + 1 ELSE a)
      /\ hunk.new_start = (IF b < y THEN b + 1 ELSE b)
  BY DEF HunkBetween
<1>4. /\ hunk.deleted \in Seq(LineTexts) /\ Len(hunk.deleted) = x - a
  <2>1. old \in Seq(LineTexts) /\ a \in Nat /\ x \in Nat /\ a <= x /\ x <= Len(old)
    BY <1>1
  <2> HIDE DEF a, x, hunk
  <2>2. SubSeq(old, a + 1, x) \in Seq(LineTexts) /\ Len(SubSeq(old, a + 1, x)) = x - a
    BY ONLY <2>1, PartOfSeq
  <2> QED BY <1>3, <2>2
<1>5. /\ hunk.added \in Seq(LineTexts) /\ Len(hunk.added) = y - b
  <2>1. new \in Seq(LineTexts) /\ b \in Nat /\ y \in Nat /\ b <= y /\ y <= Len(new)
    BY <1>1
  <2> HIDE DEF b, y, hunk
  <2>2. SubSeq(new, b + 1, y) \in Seq(LineTexts) /\ Len(SubSeq(new, b + 1, y)) = y - b
    BY ONLY <2>1, PartOfSeq
  <2> QED BY <1>3, <2>2
<1>6. x = 0 => b = 0
  <2>1. SUFFICES ASSUME x = 0 PROVE b = 0
    OBVIOUS
  <2>2. a = 0
    BY <1>1, <2>1
  <2>3. MayKeep(old, new, Start, at)
    BY <2>2 DEF HunkArguments, MoreHunks
  <2>4. a - 0 = b - 0
    BY <2>3 DEF MayKeep, Start
  <2> QED BY <1>1, <2>2, <2>4
<1>7. /\ hunk.deleted = <<>> <=> Len(hunk.deleted) = 0
      /\ hunk.added = <<>> <=> Len(hunk.added) = 0
  <2> HIDE DEF hunk
  <2> QED BY <1>4, <1>5
<1> HIDE DEF hunk, a, b, x, y
<1>8. a < x => hunk.deleted # <<>> /\ hunk.prev_start - 1 = a
  <2>1. SUFFICES ASSUME a < x PROVE hunk.deleted # <<>> /\ hunk.prev_start - 1 = a
    OBVIOUS
  <2>2. a \in Nat /\ x - a > 0
    BY ONLY <1>1, <2>1
  <2>3. hunk.prev_start = a + 1
    BY <1>3, <2>1
  <2>4. Len(hunk.deleted) # 0
    BY <1>4, <2>2
  <2> QED BY ONLY <1>7, <2>2, <2>3, <2>4
<1>9. b < y => hunk.added # <<>> /\ hunk.new_start - 1 = b
  <2>1. SUFFICES ASSUME b < y PROVE hunk.added # <<>> /\ hunk.new_start - 1 = b
    OBVIOUS
  <2>2. b \in Nat /\ y - b > 0
    BY ONLY <1>1, <2>1
  <2>3. hunk.new_start = b + 1
    BY <1>3, <2>1
  <2>4. Len(hunk.added) # 0
    BY <1>5, <2>2
  <2> QED BY ONLY <1>7, <2>2, <2>3, <2>4
<1>10. a = x => hunk.deleted = <<>> /\ hunk.prev_start = x /\ b < y
  BY <1>1, <1>2, <1>3, <1>4, <1>7
<1>11. b = y => hunk.added = <<>> /\ a < x
  BY <1>1, <1>2, <1>3, <1>5, <1>7
<1>12. a \in Nat /\ b \in Nat
  BY <1>1
<1> QED BY <1>1, <1>3, <1>4, <1>5, <1>6, <1>8, <1>9, <1>10, <1>11, <1>12 DEF hunk, a, b, x, y

\* One hunk of a Modified delta takes a file from a boundary to the one before it; the
\* assertion of delete_lines holds.
LEMMA HunkStep ==
  ASSUME NEW s, NEW past, NEW n, NEW F, NEW at, NEW to, FileArguments(s, past, n, F, to),
         HunkArguments(LinesAt(past, n), past[n + 1], at, to)
  PROVE  LET hunk == HunkBetween(LinesAt(past, n), past[n + 1], at, to)
             u    == ApplyHunk(n, hunk, s)
         IN  /\ hunk.deleted = <<>> \/ CanDelete(s, hunk.prev_start - 1, Len(hunk.deleted))
             /\ FileArguments(u, past, n, F, at) /\ KeepsPast(s, u, F)
             /\ n \in u.document.doc_modified_commits
<1> DEFINE old == LinesAt(past, n)
           new == past[n + 1]
           hunk == HunkBetween(old, new, at, to)
           u == ApplyHunk(n, hunk, s)
           a == at[1]
           b == at[2]
           x == to[1]
           y == to[2]
<1>1. /\ Setting(past, n, F) /\ n < Len(past) /\ StateOK(s)
      /\ IsBoundary(LineTexts, old, new, to) /\ Amid(s, past, n, to, F)
      /\ HunkArguments(old, new, at, to)
  BY DEF FileArguments
<1>2. /\ hunk.deleted = SubSeq(old, a + 1, x)
      /\ hunk.added = SubSeq(new, b + 1, y)
      /\ a \in Nat /\ b \in Nat /\ at = <<a, b>>
      /\ a < x => hunk.deleted # <<>> /\ hunk.prev_start - 1 = a
      /\ b < y => hunk.added # <<>> /\ hunk.new_start - 1 = b
      /\ a = x => hunk.deleted = <<>> /\ hunk.prev_start = x /\ b < y
      /\ b = y => hunk.added = <<>> /\ a < x
      /\ x = 0 => b = 0
  BY <1>1, HunkOf
<1>3. /\ old \in Seq(LineTexts) /\ new \in Seq(LineTexts)
      /\ x \in Nat /\ y \in Nat /\ a <= x /\ b <= y
      /\ Len(old) \in Nat /\ Len(new) \in Nat /\ x <= Len(old) /\ y <= Len(new)
  BY <1>1, SeqElements DEF HunkArguments, IsBoundary, Boundaries
<1>4. ~ s.tracked => b = 0
  <2>1. SUFFICES ASSUME ~ s.tracked PROVE b = 0
    OBVIOUS
  <2> DEFINE lines == Halfway(old, new, to)
  <2>2. Follows(s, lines)
    BY <1>1 DEF Amid
  <2>3. Len(lines) = x + Len(new) - y
    BY <1>1, HalfwayFacts
  <2> HIDE DEF lines
  <2>4. TotalLines(s.tracker) = 0 /\ Len(Blame(s.tracker)) = Len(lines)
    BY <2>1, <2>2 DEF Follows, DeleteAll, TotalLines, ChunkCount
  <2>5. Len(Blame(s.tracker)) = TotalLines(s.tracker)
    BY <1>1, BlameType DEF StateOK
  <2> HIDE DEF x, y, b
  <2>6. x = 0
    BY <1>3, <2>3, <2>4, <2>5
  <2> QED BY <1>2, <2>6
<1>5. CASE a = x
  <2>1. u = AddNewLines(s, n, x, b, SubSeq(new, b + 1, y))
    <3> HIDE DEF hunk, a, b, x, y
    <3>1. /\ hunk.deleted = <<>> /\ hunk.prev_start = x /\ hunk.new_start - 1 = b
          /\ hunk.added = SubSeq(new, b + 1, y)
      BY <1>2, <1>5
    <3> QED BY <3>1 DEF ApplyHunk
  <2>2. FileArguments(s, past, n, F, to) /\ b \in Nat /\ b <= to[2] /\ (~ s.tracked => b = 0)
    BY <1>2, <1>3, <1>4
  <2>3. at = <<to[1], b>>
    BY <1>2, <1>5
  <2> HIDE DEF b, u
  <2>4. /\ FileArguments(u, past, n, F, <<to[1], b>>) /\ KeepsPast(s, u, F)
        /\ n \in u.document.doc_modified_commits
    BY ONLY <2>1, <2>2, AddStep
  <2> QED BY <1>2, <1>5, <2>3, <2>4 DEF u
<1>6. CASE a < x
  <2> DEFINE deleted == SubSeq(old, a + 1, x)
             r == RemoveLines(s, n, a, deleted)
             q == <<a, y>>
  <2>1. FileArguments(s, past, n, F, to) /\ a \in Nat /\ a < to[1]
    BY <1>2, <1>6
  <2>2. /\ CanDelete(s, a, Len(deleted))
        /\ FileArguments(r, past, n, F, q) /\ KeepsPast(s, r, F)
        /\ n \in r.document.doc_modified_commits /\ r.tracked
    <3> HIDE DEF a
    <3> QED BY ONLY <2>1, RemoveStep
  <2>3. hunk.deleted # <<>> /\ hunk.prev_start - 1 = a /\ hunk.deleted = deleted
    BY <1>2, <1>6
  <2>4. CASE b = y
    <3>1. u = r
      <4>1. hunk.added = <<>>
        BY <1>2, <2>4
      <4> HIDE DEF hunk, a, deleted
      <4> QED BY <2>3, <4>1 DEF ApplyHunk
    <3>2. at = q
      BY <1>2, <2>4
    <3> HIDE DEF r, q, u, hunk, a, deleted
    <3> QED BY <2>2, <2>3, <3>1, <3>2 DEF hunk, u
  <2>5. CASE b < y
    <3>1. u = AddNewLines(r, n, a, b, SubSeq(new, b + 1, y))
      <4>1. hunk.added # <<>> /\ hunk.new_start - 1 = b /\ hunk.added = SubSeq(new, b + 1, y)
        BY <1>2, <2>5
      <4> HIDE DEF hunk, a, b, x, y, deleted
      <4> QED BY <2>3, <4>1 DEF ApplyHunk
    <3>2. q[1] = a /\ q[2] = y /\ at = <<a, b>>
      BY <1>2
    <3> HIDE DEF q, r, u, a, b, y, hunk, deleted
    <3>3. FileArguments(r, past, n, F, q) /\ b \in Nat /\ b <= q[2] /\ (~ r.tracked => b = 0)
      BY <1>2, <1>3, <2>2, <2>5, <3>2
    <3>4. u = AddNewLines(r, n, q[1], b, SubSeq(past[n + 1], b + 1, q[2]))
      BY <3>1, <3>2
    <3>5. /\ FileArguments(u, past, n, F, <<q[1], b>>) /\ KeepsPast(r, u, F)
          /\ n \in u.document.doc_modified_commits
      BY ONLY <3>3, <3>4, AddStep
    <3>6. KeepsPast(s, u, F)
      BY <2>2, <3>5 DEF KeepsPast, SameBelow
    <3>7. FileArguments(u, past, n, F, at)
      BY <3>2, <3>5
    <3>8. CanDelete(s, hunk.prev_start - 1, Len(hunk.deleted))
      BY <2>2, <2>3
    <3>9. n \in u.document.doc_modified_commits
      BY <3>5
    <3> QED BY ONLY <3>6, <3>7, <3>8, <3>9 DEF hunk, u
  <2>6. b = y \/ b < y
    <3> HIDE DEF b, y, x, a
    <3> QED BY ONLY <1>2, <1>3
  <2> QED BY ONLY <2>4, <2>5, <2>6
<1>7. a = x \/ a < x
  <2> HIDE DEF b, y, x, a
  <2> QED BY ONLY <1>2, <1>3
<1> QED BY ONLY <1>5, <1>6, <1>7

\* No hunk is left: the commit is applied.
LEMMA Finish ==
  ASSUME NEW s, NEW past, NEW n, NEW F, NEW p, FileArguments(s, past, n, F, p),
         MayKeep(LinesAt(past, n), past[n + 1], Start, p),
         n \in s.document.doc_modified_commits \/ LinesAt(past, n) = past[n + 1]
  PROVE  Settled(s, past, n + 1, F)
<1> DEFINE old == LinesAt(past, n)
           new == past[n + 1]
           d == s.document
<1>0. /\ Setting(past, n, F) /\ n < Len(past)
      /\ IsBoundary(LineTexts, old, new, p) /\ Amid(s, past, n, p, F)
  BY DEF FileArguments
<1>1. /\ old \in Seq(LineTexts) /\ new \in Seq(LineTexts) /\ n \in Nat
      /\ Len(old) \in Nat /\ Len(new) \in Nat /\ F \in Nat /\ F <= n
      /\ LinesAt(past, n + 1) = new
  BY <1>0, SettingFacts
<1>2. IsBoundary(LineTexts, old, new, Start) /\ Halfway(old, new, Start) = new
  <2> HIDE DEF old, new
  <2> QED BY ONLY <1>1, HalfwayEnds
<1>3. Amid(s, past, n, Start, F)
  <2>1. /\ Setting(past, n, F) /\ n < Len(past)
        /\ IsBoundary(LineTexts, LinesAt(past, n), past[n + 1], p)
        /\ IsBoundary(LineTexts, LinesAt(past, n), past[n + 1], Start)
        /\ MayKeep(LinesAt(past, n), past[n + 1], Start, p)
        /\ Amid(s, past, n, p, F)
    BY <1>0, <1>2
  <2> QED BY ONLY <2>1, Keep
<1>4. /\ Follows(s, new) /\ Marked(d, past, n)
      /\ \A i \in 1..Len(new) :
           LET key == Blame(s.tracker)[i] IN key.commit < n \/ key.commit = n
      /\ \A w \in Words :
           /\ Bitmap(d, w) \subseteq 0..n
           /\ BitsFit(Bitmap(d, w), w \in WordsIn(new), past, w, n, F)
           /\ After(new, Start, w) => n \in Bitmap(d, w) \/ w \in WordsIn(old)
  BY <1>2, <1>3 DEF Amid
<1>5. ASSUME NEW i \in 1..Len(new) PROVE Blame(s.tracker)[i].commit < n + 1
  <2> DEFINE key == Blame(s.tracker)[i]
  <2>1. key.commit < n \/ key.commit = n
    BY <1>4
  <2>2. key.commit \in CommitIndexes
    <3>1. StateOK(s) /\ TrackerShape(s.tracker, CommitIndexes)
      BY DEF FileArguments, StateOK
    <3>2. Blame(s.tracker) \in Seq(KeySet(CommitIndexes))
      BY <3>1, BlameType
    <3>3. Len(Blame(s.tracker)) = Len(new)
      BY <1>4 DEF Follows
    <3>4. key \in KeySet(CommitIndexes)
      <4> DEFINE b == Blame(s.tracker)
      <4>1. b \in Seq(KeySet(CommitIndexes)) /\ i \in 1..Len(b)
        BY <3>2, <3>3
      <4> HIDE DEF b
      <4> QED BY <4>1, SeqElements DEF b
    <3> HIDE DEF key
    <3> QED BY <3>4 DEF KeySet
  <2> HIDE DEF key
  <2>3. key.commit < n + 1
    BY <1>1, <2>1, <2>2 DEF CommitIndexes
  <2> QED BY <2>3 DEF key
<1>6. ASSUME NEW w \in Words
      PROVE  /\ Bitmap(d, w) \subseteq 0..((n + 1) - 1)
             /\ BitsFit(Bitmap(d, w), w \in WordsIn(new), past, w, n + 1, F)
  <2> DEFINE B == Bitmap(d, w)
             live == w \in WordsIn(new)
  <2>1. B \subseteq 0..n /\ BitsFit(B, live, past, w, n, F)
    BY <1>4
  <2>2. live <=> Has(past, w, n)
    BY DEF Has
  <2>3. live => n \in B \/ (n > 0 /\ Has(past, w, n - 1))
    <3>1. SUFFICES ASSUME live, n \notin B PROVE n > 0 /\ Has(past, w, n - 1)
      OBVIOUS
    <3>2. After(new, Start, w)
      <4>1. \E i \in 1..Len(new) : w \in new[i]
        BY <1>1, <3>1, SeqWords
      <4> QED BY <4>1 DEF After, Start
    <3>3. w \in WordsIn(old)
      BY <1>4, <3>1, <3>2
    <3>4. n # 0
      <4>1. n = 0 => old = <<>>
        BY DEF LinesAt
      <4>2. WordsIn(<<>>) = {}
        BY DEF WordsIn
      <4> HIDE DEF old
      <4> QED BY <3>3, <4>1, <4>2
    <3>5. old = past[n] /\ (n - 1) + 1 = n
      BY <1>1, <3>4 DEF LinesAt
    <3> HIDE DEF old
    <3> QED BY <1>1, <3>3, <3>4, <3>5 DEF Has
  <2>4. BitArguments(B, n, F, n)
    BY <1>1, <2>1 DEF BitArguments
  <2> HIDE DEF B, live
  <2>5. BitsFit(B, live, past, w, n + 1, F)
    BY ONLY <2>1, <2>2, <2>3, <2>4, BitsNext
  <2>6. B \subseteq 0..((n + 1) - 1)
    BY <1>1, <2>1
  <2> QED BY <2>5, <2>6 DEF B, live
<1>7. Marked(d, past, n + 1)
  <2>1. ASSUME NEW c \in 1..((n + 1) - 1), past[c + 1] # past[c] PROVE c \in d.doc_modified_commits
    <3>1. CASE c \in 1..(n - 1)
      BY <1>4, <2>1, <3>1 DEF Marked
    <3>2. CASE c = n
      <4>1. old = past[n]
        BY <1>1, <3>2 DEF LinesAt
      <4> QED BY <2>1, <3>2, <4>1
    <3> QED BY <1>1, <3>1, <3>2
  <2> QED BY <2>1 DEF Marked
<1> HIDE DEF old, new
<1> QED BY ONLY <1>1, <1>4, <1>5, <1>6, <1>7 DEF Settled, d

FileSettled(s, past, n, F) ==
  /\ Setting(past, n, F) /\ StateOK(s) /\ Settled(s, past, n, F)

\* A commit that leaves the lines of the file as they are.
LEMMA SkipStep ==
  ASSUME NEW s, NEW past, NEW n, NEW F, FileSettled(s, past, n, F), n < Len(past),
         LinesAt(past, n) = past[n + 1]
  PROVE  FileSettled(s, past, n + 1, F)
<1> DEFINE old == LinesAt(past, n)
           new == past[n + 1]
           p == End(old, new)
<1>1. /\ Setting(past, n, F) /\ StateOK(s) /\ Settled(s, past, n, F)
      /\ Setting(past, n + 1, F) /\ new \in Seq(LineTexts) /\ Len(new) \in Nat
  BY SettingFacts DEF FileSettled
<1>2. Amid(s, past, n, p, F) /\ IsBoundary(LineTexts, old, new, p)
  BY <1>1, Begin
<1>3. FileArguments(s, past, n, F, p)
  BY <1>1, <1>2 DEF FileArguments
<1>4. MayKeep(old, new, Start, p)
  <2>1. old = new /\ Start[1] = 0 /\ Start[2] = 0 /\ p[1] = Len(new) /\ p[2] = Len(new)
    BY DEF End, Start
  <2> HIDE DEF old, new, p
  <2> QED BY <1>1, <2>1 DEF MayKeep
<1> HIDE DEF p
<1>5. Settled(s, past, n + 1, F)
  BY <1>3, <1>4, Finish
<1> QED BY <1>1, <1>5 DEF FileSettled

\* A file without lines gets all lines of its new version.
LEMMA AddAll ==
  ASSUME NEW s, NEW past, NEW n, NEW F, FileSettled(s, past, n, F), n < Len(past),
         LinesAt(past, n) = <<>>
  PROVE  LET u == AddNewLines(s, n, 0, 0, past[n + 1])
         IN  FileSettled(u, past, n + 1, F) /\ KeepsPast(s, u, F)
<1> DEFINE old == LinesAt(past, n)
           new == past[n + 1]
           p == End(old, new)
           u == AddNewLines(s, n, 0, 0, new)
<1>1. /\ Setting(past, n, F) /\ StateOK(s) /\ Settled(s, past, n, F)
      /\ Setting(past, n + 1, F) /\ new \in Seq(LineTexts) /\ Len(new) \in Nat
  BY SettingFacts DEF FileSettled
<1>2. Amid(s, past, n, p, F) /\ IsBoundary(LineTexts, old, new, p)
  BY <1>1, Begin
<1>3. FileArguments(s, past, n, F, p)
  BY <1>1, <1>2 DEF FileArguments
<1>4. p[1] = 0 /\ p[2] = Len(new)
  BY DEF End
<1>5. SubSeq(new, 0 + 1, p[2]) = new
  <2> HIDE DEF new, p
  <2> QED BY <1>1, <1>4
<1> HIDE DEF p
<1>6. FileArguments(s, past, n, F, p) /\ 0 \in Nat /\ 0 <= p[2] /\ (~ s.tracked => 0 = 0)
  BY <1>1, <1>3, <1>4
<1>7. u = AddNewLines(s, n, p[1], 0, SubSeq(past[n + 1], 0 + 1, p[2])) /\ <<p[1], 0>> = Start
  BY <1>4, <1>5 DEF Start
<1> DEFINE zero == 0
<1> HIDE DEF zero, u
<1>8. /\ FileArguments(u, past, n, F, <<p[1], zero>>) /\ KeepsPast(s, u, F)
      /\ n \in u.document.doc_modified_commits
  <2>1. /\ FileArguments(s, past, n, F, p) /\ zero \in Nat /\ zero <= p[2]
        /\ ~ s.tracked => zero = 0
        /\ u = AddNewLines(s, n, p[1], zero, SubSeq(past[n + 1], zero + 1, p[2]))
    BY <1>6, <1>7 DEF zero
  <2> QED BY ONLY <2>1, AddStep
<1>9. FileArguments(u, past, n, F, Start)
  BY <1>7, <1>8 DEF zero
<1>10. MayKeep(LinesAt(past, n), past[n + 1], Start, Start)
  BY DEF MayKeep, Start
<1>11. Settled(u, past, n + 1, F)
  BY <1>8, <1>9, <1>10, Finish
<1> QED BY <1>1, <1>8, <1>9, <1>11 DEF FileSettled, FileArguments, u

\* A tracker without lines.
LEMMA NoLines ==
  ASSUME NEW C
  PROVE  TrackerShape(DeleteAll, C) /\ Len(Blame(DeleteAll)) = 0
<1>1. TrackerShape(DeleteAll, C)
  BY DEF TrackerShape, DeleteAll
<1>2. TotalLines(DeleteAll) = 0
  BY DEF TotalLines, ChunkCount, DeleteAll
<1> QED BY <1>1, <1>2, BlameType

\* delete_entire_file of a tracked file.
LEMMA DeleteResult ==
  ASSUME NEW s, NEW c, StateOK(s)
  PROVE  LET u == DeleteEntireFile(s, c)
         IN  /\ StateOK(u) /\ u.tracked = s.tracked /\ u.tracker = DeleteAll
             /\ u.document = RemoveDocument(s.document, c)
<1> DEFINE e == RemoveDocument(s.document, c)
           v == [s EXCEPT !.tracker = DeleteAll]
           u == DeleteEntireFile(s, c)
<1>1. u = [v EXCEPT !.document = e]
  BY Zenon DEF DeleteEntireFile
<1>2. v = [tracked |-> s.tracked, tracker |-> DeleteAll, document |-> s.document]
  BY DEF StateOK
<1>3. IsDocument(e)
  BY RemoveDocumentResult DEF StateOK
<1>4. TrackerShape(DeleteAll, CommitIndexes)
  BY NoLines
<1> HIDE DEF v, e, u
<1>5. u = [tracked |-> s.tracked, tracker |-> DeleteAll, document |-> e]
  BY <1>1, <1>2
<1>6. u.tracked = s.tracked /\ u.tracker = DeleteAll /\ u.document = e
  BY <1>5
<1>7. s.tracked \in BOOLEAN
  BY DEF StateOK
<1>8. StateOK(u)
  BY <1>3, <1>4, <1>5, <1>6, <1>7 DEF StateOK
<1> QED BY <1>6, <1>8 DEF u, e

\* The file is deleted.
LEMMA DeleteStep ==
  ASSUME NEW s, NEW past, NEW n, NEW F, FileSettled(s, past, n, F), n < Len(past),
         past[n + 1] = <<>>
  PROVE  FileSettled(DeleteEntireFile(s, n), past, n + 1, F) /\ KeepsPast(s, DeleteEntireFile(s, n), F)
<1> DEFINE old == LinesAt(past, n)
           u == DeleteEntireFile(s, n)
           d == s.document
           e == u.document
<1>1. /\ Setting(past, n, F) /\ StateOK(s) /\ Settled(s, past, n, F)
      /\ Setting(past, n + 1, F) /\ n \in Nat /\ F \in Nat /\ F <= n
      /\ LinesAt(past, n + 1) = <<>>
  BY SettingFacts DEF FileSettled
<1>2. /\ StateOK(u) /\ u.tracker = DeleteAll /\ e = RemoveDocument(d, n)
  BY <1>1, DeleteResult
<1>3. /\ e.doc_modified_commits = d.doc_modified_commits \cup {n}
      /\ \A w : /\ History(e, w) = {}
                /\ Bitmap(e, w) = IF History(d, w) = {} THEN Bitmap(d, w)
                                  ELSE InsertRange(Bitmap(d, w), LastBit(Bitmap(d, w)), n)
  <2>1. IsDocument(d)
    BY <1>1 DEF StateOK
  <2> HIDE DEF d, u
  <2> QED BY ONLY <1>2, <2>1, RemoveDocumentResult
<1>4. Len(Blame(DeleteAll)) = 0
  BY NoLines
<1>5. Follows(u, <<>>)
  <2>1. \A w : KeysWith(<<>>, Blame(u.tracker), w) = {}
    BY DEF KeysWith
  <2> HIDE DEF u
  <2> QED BY <1>2, <1>3, <1>4, <2>1 DEF Follows
<1> HIDE DEF u, d, e
<1>6. ASSUME NEW w \in Words
      PROVE  /\ Bitmap(e, w) \subseteq 0..((n + 1) - 1)
             /\ BitsFit(Bitmap(e, w), w \in WordsIn(<<>>), past, w, n + 1, F)
             /\ SameBelow(Bitmap(e, w), Bitmap(d, w), F)
  <2> DEFINE B == Bitmap(d, w)
             A == Bitmap(e, w)
             live == w \in WordsIn(old)
             none == w \in WordsIn(<<>>)
             top == n - 1
  <2>1. B \subseteq 0..top /\ BitsFit(B, live, past, w, n, F) /\ History(d, w) = KeysWith(old, Blame(s.tracker), w)
    BY <1>1 DEF Settled, Follows, d
  <2>2. BitArguments(B, n, F, top)
    BY <1>1, <2>1 DEF BitArguments
  <2>3. ~ none /\ ~ Has(past, w, n)
    BY DEF WordsIn, Has
  <2> HIDE DEF B, A, live, none, top
  <2>4. /\ A \subseteq 0..top /\ SameBelow(A, B, F) /\ BitsFit(A, none, past, w, n, F)
    <3>1. CASE History(d, w) = {}
      <4>1. A = B
        BY <1>3, <3>1 DEF A, B
      <4> QED BY <2>1, <2>3, <4>1 DEF BitsFit, SameBelow
    <3>2. CASE History(d, w) # {}
      <4>1. A = InsertRange(B, LastBit(B), n) /\ n \in {n - 1, n}
        BY <1>3, <3>2 DEF A, B
      <4>2. live
        BY <2>1, <3>2 DEF KeysWith, live, WordsIn
      <4>3. BitsFit(B, TRUE, past, w, n, F)
        BY <2>1, <4>2 DEF BitsFit
      <4>4. SameBelow(A, B, F) /\ A \subseteq 0..top /\ BitsFit(A, FALSE, past, w, n, F)
        BY ONLY <2>2, <4>1, <4>3, BitsFilled
      <4>5. BitsFit(A, none, past, w, n, F)
        BY <2>3, <4>4 DEF BitsFit
      <4> QED BY <4>4, <4>5
    <3> QED BY <3>1, <3>2
  <2>5. BitArguments(A, n, F, n)
    BY <1>1, <2>4 DEF BitArguments, top
  <2>6. (none <=> Has(past, w, n)) /\ (none => n \in A \/ (n > 0 /\ Has(past, w, n - 1)))
    BY <2>3
  <2>7. BitsFit(A, none, past, w, n, F)
    BY <2>4
  <2>8. BitsFit(A, none, past, w, n + 1, F)
    BY ONLY <2>5, <2>6, <2>7, BitsNext
  <2>9. A \subseteq 0..((n + 1) - 1)
    BY <1>1, <2>4 DEF top
  <2> QED BY <2>4, <2>8, <2>9 DEF A, B, none
<1>7. Marked(e, past, n + 1)
  <2>1. ASSUME NEW c \in 1..((n + 1) - 1), past[c + 1] # past[c] PROVE c \in e.doc_modified_commits
    <3>1. CASE c \in 1..(n - 1)
      BY <1>1, <1>3, <2>1, <3>1 DEF Settled, Marked, d
    <3>2. CASE c = n
      BY <1>3, <3>2
    <3> QED BY <1>1, <3>1, <3>2
  <2> QED BY <2>1 DEF Marked
<1>8. Settled(u, past, n + 1, F)
  <2>1. \A i \in 1..Len(<<>>) : FALSE
    OBVIOUS
  <2> QED BY ONLY <1>1, <1>5, <1>6, <1>7, <2>1 DEF Settled, e
<1>9. KeepsPast(s, u, F)
  BY <1>6 DEF KeepsPast, d, e
<1> QED BY <1>1, <1>2, <1>8, <1>9 DEF FileSettled, u

\* The end of a run.
Finalized(s, head) ==
  IF s.tracked THEN [s EXCEPT !.document = Finalize(@, head)] ELSE s

\* What the end of a run makes of a file.
LEMMA FinalizedResult ==
  ASSUME NEW s, NEW head, StateOK(s)
  PROVE  LET u == Finalized(s, head)
         IN  /\ StateOK(u) /\ u.tracked = s.tracked /\ u.tracker = s.tracker
             /\ u.document = IF s.tracked THEN Finalize(s.document, head) ELSE s.document
<1> DEFINE e == Finalize(s.document, head)
           u == Finalized(s, head)
<1>1. CASE ~ s.tracked
  BY <1>1 DEF Finalized
<1>2. CASE s.tracked
  <2>1. u = [s EXCEPT !.document = e]
    BY <1>2 DEF Finalized
  <2>2. IsDocument(e)
    BY FinalizeResult DEF StateOK
  <2>3. s = [tracked |-> s.tracked, tracker |-> s.tracker, document |-> s.document]
    BY DEF StateOK
  <2> HIDE DEF e, u
  <2>4. u = [tracked |-> s.tracked, tracker |-> s.tracker, document |-> e]
    BY <2>1, <2>3
  <2>5. u.tracked = s.tracked /\ u.tracker = s.tracker /\ u.document = e
    BY <2>4
  <2>6. StateOK(u)
    BY <2>2, <2>4, <2>5 DEF StateOK
  <2> QED BY <1>2, <2>5, <2>6 DEF u, e
<1> QED BY <1>1, <1>2

\* The commits applied are published.
LEMMA FinalStep ==
  ASSUME NEW s, NEW past, NEW n, NEW F, FileSettled(s, past, n, F), n > 0
  PROVE  LET u == Finalized(s, n - 1)
         IN  /\ FileSettled(u, past, n, n) /\ KeepsPast(s, u, F)
             /\ \A w \in Words : /\ Bitmap(s.document, w) \subseteq Bitmap(u.document, w)
                                 /\ Has(past, w, n - 1) => n - 1 \in Bitmap(u.document, w)
<1> DEFINE lines == LinesAt(past, n)
           head == n - 1
           u == Finalized(s, head)
           d == s.document
           e == u.document
<1>1. /\ Setting(past, n, F) /\ StateOK(s) /\ Settled(s, past, n, F)
      /\ n \in Nat /\ F \in Nat /\ F <= n /\ lines \in Seq(LineTexts) /\ Len(lines) \in Nat
      /\ Setting(past, n, n)
  <2>1. /\ Setting(past, n, F) /\ StateOK(s) /\ Settled(s, past, n, F)
        /\ n \in Nat /\ F \in Nat /\ F <= n /\ lines \in Seq(LineTexts) /\ Len(lines) \in Nat
    BY SettingFacts DEF FileSettled
  <2> QED BY <2>1 DEF Setting
<1>2. /\ StateOK(u) /\ u.tracked = s.tracked /\ u.tracker = s.tracker
      /\ e = IF s.tracked THEN Finalize(d, head) ELSE d
  BY <1>1, FinalizedResult
<1>3. /\ Follows(s, lines) /\ Marked(d, past, n)
      /\ \A i \in 1..Len(lines) : Blame(s.tracker)[i].commit < n
  BY <1>1 DEF Settled
<1>4. \A w : s.tracked =>
        /\ History(e, w) = History(d, w)
        /\ head \in Bitmap(d, w) \/ History(d, w) = {} => Bitmap(e, w) = Bitmap(d, w)
        /\ head \notin Bitmap(d, w) /\ History(d, w) # {} =>
             Bitmap(e, w) = IF Bitmap(d, w) = {} THEN {head}
                            ELSE InsertRange(Bitmap(d, w), LastBit(Bitmap(d, w)), head + 1)
  <2>1. IsDocument(d)
    BY <1>1 DEF StateOK
  <2>2. s.tracked => e = Finalize(d, head)
    BY <1>2
  <2> HIDE DEF d, u, e, head
  <2>3. ASSUME NEW w, s.tracked
        PROVE  /\ History(e, w) = History(d, w)
               /\ head \in Bitmap(d, w) \/ History(d, w) = {} => Bitmap(e, w) = Bitmap(d, w)
               /\ head \notin Bitmap(d, w) /\ History(d, w) # {} =>
                    Bitmap(e, w) = IF Bitmap(d, w) = {} THEN {head}
                                   ELSE InsertRange(Bitmap(d, w), LastBit(Bitmap(d, w)), head + 1)
    <3>1. e = Finalize(d, head)
      BY <2>2, <2>3
    <3> QED BY ONLY <2>1, <3>1, FinalizeResult
  <2> QED BY ONLY <2>3
<1>5. e.doc_modified_commits = d.doc_modified_commits /\ \A w : History(e, w) = History(d, w)
  <2>1. IsDocument(d)
    BY <1>1 DEF StateOK
  <2>2. s.tracked => e = Finalize(d, head)
    BY <1>2
  <2>3. ~ s.tracked => e = d
    BY <1>2
  <2> HIDE DEF d, u, e, head
  <2>4. s.tracked => e.doc_modified_commits = d.doc_modified_commits
    BY ONLY <2>1, <2>2, FinalizeResult
  <2> QED BY ONLY <1>4, <2>3, <2>4
<1> HIDE DEF lines, u, d, e
<1>6. ASSUME NEW w \in Words
      PROVE  /\ Bitmap(e, w) \subseteq 0..(n - 1)
             /\ BitsFit(Bitmap(e, w), w \in WordsIn(lines), past, w, n, n)
             /\ SameBelow(Bitmap(e, w), Bitmap(d, w), F)
             /\ Bitmap(d, w) \subseteq Bitmap(e, w)
             /\ Has(past, w, n - 1) => n - 1 \in Bitmap(e, w)
  <2> DEFINE B == Bitmap(d, w)
             A == Bitmap(e, w)
             live == w \in WordsIn(lines)
             top == n - 1
  <2>1. /\ B \subseteq 0..top /\ BitsFit(B, live, past, w, n, F)
        /\ History(d, w) = KeysWith(lines, Blame(s.tracker), w)
    BY <1>1 DEF Settled, Follows, d, lines
  <2>2. BitArguments(B, n, F, top)
    BY <1>1, <2>1 DEF BitArguments
  <2>3. live <=> Has(past, w, top)
    <3>1. lines = past[n] /\ (n - 1) + 1 = n
      BY <1>1 DEF lines, LinesAt
    <3> QED BY <3>1 DEF Has
  <2>4. live <=> History(d, w) # {}
    <3>1. DOMAIN lines = 1..Len(lines)
      BY <1>1, SeqElements
    <3> QED BY <2>1 DEF KeysWith, WordsIn
  <2>5. live => s.tracked
    <3>1. SUFFICES ASSUME live, ~ s.tracked PROVE FALSE
      OBVIOUS
    <3>2. TotalLines(s.tracker) = 0 /\ Len(Blame(s.tracker)) = Len(lines)
      BY <1>3, <3>1 DEF Follows, DeleteAll, TotalLines, ChunkCount
    <3>3. Len(Blame(s.tracker)) = TotalLines(s.tracker)
      BY <1>1, BlameType DEF StateOK
    <3>4. \E i \in 1..Len(lines) : w \in lines[i]
      BY <1>1, <3>1, SeqWords
    <3> QED BY <1>1, <3>2, <3>3, <3>4
  <2> HIDE DEF B, A, live
  <2>6. CASE live
    <3>1. s.tracked /\ History(d, w) # {}
      BY <2>4, <2>5, <2>6
    <3>2. A = Complete(B, head)
      <4> HIDE DEF head
      <4>1. /\ head \in B => A = B
            /\ head \notin B => A = IF B = {} THEN {head} ELSE InsertRange(B, LastBit(B), head + 1)
        BY <1>4, <3>1 DEF A, B
      <4> QED BY <4>1 DEF Complete
    <3>3. BitsFit(B, TRUE, past, w, n, F)
      BY <2>1, <2>6 DEF BitsFit
    <3>4. /\ BitArguments(B, n, F, n - 1) /\ A = Complete(B, n - 1)
      BY <2>2, <3>2
    <3>5. /\ SameBelow(A, B, F) /\ A \subseteq 0..(n - 1) /\ B \subseteq A /\ n - 1 \in A
          /\ BitsFit(A, live, past, w, n, n)
      BY ONLY <3>3, <3>4, BitsFinal
    <3> QED BY <3>5 DEF A, B, live
  <2>7. CASE ~ live
    <3>1. A = B
      <4>1. s.tracked => A = B
        BY <1>4, <2>4, <2>7 DEF A, B
      <4>2. ~ s.tracked => A = B
        BY <1>2 DEF A, B, e, d
      <4> QED BY <4>1, <4>2
    <3>2. BitsFit(B, FALSE, past, w, n, F)
      BY <2>1 DEF BitsFit
    <3>3. BitsFit(B, FALSE, past, w, n, n)
      BY <1>1, <3>2, BitsDead
    <3>4. BitsFit(B, live, past, w, n, n)
      BY <2>7, <3>3 DEF BitsFit
    <3>5. ~ Has(past, w, n - 1)
      BY <2>3, <2>7
    <3> QED BY <2>1, <3>1, <3>4, <3>5 DEF A, B, live, SameBelow
  <2> QED BY <2>6, <2>7
<1>7. Follows(u, lines)
  BY <1>2, <1>3, <1>5 DEF Follows, e, d
<1>8. Marked(e, past, n)
  BY <1>3, <1>5 DEF Marked
<1>9. \A i \in 1..Len(lines) : Blame(u.tracker)[i].commit < n
  BY <1>2, <1>3
<1>10. Settled(u, past, n, n)
  BY ONLY <1>6, <1>7, <1>8, <1>9 DEF Settled, lines, e
<1>11. FileSettled(u, past, n, n)
  BY <1>1, <1>2, <1>10 DEF FileSettled
<1>12. KeepsPast(s, u, F)
  BY <1>6 DEF KeepsPast, d, e
<1>13. \A w \in Words : /\ Bitmap(s.document, w) \subseteq Bitmap(u.document, w)
                        /\ Has(past, w, n - 1) => n - 1 \in Bitmap(u.document, w)
  BY <1>6 DEF d, e
<1> QED BY <1>11, <1>12, <1>13 DEF u

\* A history that goes on further.
LEMMA LongerStep ==
  ASSUME NEW s, NEW past, NEW longer, NEW n, NEW F, FileSettled(s, past, n, F), Setting(longer, n, F),
         \A c \in 1..Len(past) : longer[c] = past[c]
  PROVE  FileSettled(s, longer, n, F)
<1> DEFINE lines == LinesAt(past, n)
           d == s.document
<1>1. /\ Setting(past, n, F) /\ StateOK(s) /\ Settled(s, past, n, F)
      /\ n \in Nat /\ F \in Nat /\ F <= n /\ n <= Len(past) /\ Len(past) \in Nat
  BY SettingFacts, SeqElements DEF FileSettled, Setting
<1>2. \A c \in 1..n : longer[c] = past[c]
  BY <1>1
<1>3. LinesAt(longer, n) = lines
  <2>1. n # 0 => n \in 1..n
    BY <1>1
  <2> QED BY <1>2, <2>1 DEF LinesAt
<1>4. /\ Follows(s, lines) /\ Marked(d, past, n)
      /\ \A i \in 1..Len(lines) : Blame(s.tracker)[i].commit < n
  BY <1>1 DEF Settled
<1>5. Marked(d, longer, n)
  <2>1. \A c \in 1..(n - 1) : longer[c + 1] = past[c + 1] /\ longer[c] = past[c]
    <3>1. \A c \in 1..(n - 1) : c + 1 \in 1..n /\ c \in 1..n
      BY <1>1
    <3> QED BY <1>2, <3>1
  <2> QED BY <1>4, <2>1 DEF Marked
<1>6. ASSUME NEW w \in Words
      PROVE  /\ Bitmap(d, w) \subseteq 0..(n - 1)
             /\ BitsFit(Bitmap(d, w), w \in WordsIn(lines), longer, w, n, F)
  <2> DEFINE B == Bitmap(d, w)
             live == w \in WordsIn(lines)
             top == n - 1
  <2>1. B \subseteq 0..top /\ BitsFit(B, live, past, w, n, F)
    BY <1>1 DEF Settled
  <2>2. BitArguments(B, n, F, top) /\ top = n - 1
    BY <1>1, <2>1 DEF BitArguments
  <2> HIDE DEF B, live, top
  <2>3. BitsFit(B, live, longer, w, n, F)
    BY ONLY <1>2, <2>1, <2>2, BitsOfLonger
  <2> QED BY <2>1, <2>2, <2>3 DEF B, live
<1> HIDE DEF lines, d
<1>7. Settled(s, longer, n, F)
  BY ONLY <1>3, <1>4, <1>5, <1>6 DEF Settled, d
<1> QED BY <1>1, <1>7 DEF FileSettled

-----------------------------------------------------------------------------
(* What any change of a file does to its document, searchable or not.      *)

LiveHasBits(d) == \A w \in Words : History(d, w) # {} => Bitmap(d, w) # {}

\* A change of commit c that marks `words`.
Touch(s, u, words, c) ==
  /\ StateOK(u)
  /\ DOMAIN u.document.words = DOMAIN s.document.words \cup words
  /\ u.document.doc_modified_commits \subseteq s.document.doc_modified_commits \cup {c}
  /\ LiveHasBits(s.document) => LiveHasBits(u.document)

\* Nothing is a change too.
LEMMA NoTouch ==
  ASSUME NEW s, StateOK(s), NEW c
  PROVE  Touch(s, s, {}, c)
BY DEF Touch

\* add_new_lines is a change that marks the words of the lines.
LEMMA AddTouch ==
  ASSUME NEW s, NEW c, NEW at, NEW from, NEW lines, AddArguments(s, c, at, from, lines)
  PROVE  Touch(s, AddNewLines(s, c, at, from, lines), WordsIn(lines), c)
<1> DEFINE u == AddNewLines(s, c, at, from, lines)
           d == s.document
           e == u.document
<1>1. /\ StateOK(u)
      /\ DOMAIN e.words = DOMAIN d.words \cup WordsIn(lines)
      /\ e.doc_modified_commits = d.doc_modified_commits \cup {c}
  BY AddResult
<1>2. \A w : History(e, w) = History(d, w) \cup KeysWith(lines, NewKeys(Len(lines), c, from), w)
  BY AddResult
<1>3. /\ \A w \in WordsIn(lines) : Bitmap(e, w) = Bitmap(d, w) \cup {c}
      /\ \A w : w \notin WordsIn(lines) => Bitmap(e, w) = Bitmap(d, w)
  BY AddResult
<1>4. \A w : w \notin WordsIn(lines) => KeysWith(lines, NewKeys(Len(lines), c, from), w) = {}
  BY TokensResult DEF AddArguments
<1> HIDE DEF u, d, e
<1>5. LiveHasBits(d) => LiveHasBits(e)
  <2>1. SUFFICES ASSUME LiveHasBits(d), NEW w \in Words, History(e, w) # {} PROVE Bitmap(e, w) # {}
    BY DEF LiveHasBits
  <2>2. CASE w \in WordsIn(lines)
    BY <1>3, <2>2
  <2>3. CASE w \notin WordsIn(lines)
    <3>1. History(e, w) = History(d, w)
      BY <1>2, <1>4, <2>3
    <3> QED BY <1>3, <2>1, <2>3, <3>1 DEF LiveHasBits
  <2> QED BY <2>2, <2>3
<1> QED BY <1>1, <1>5 DEF Touch, u, d, e

\* delete_lines is a change that marks nothing.
LEMMA RemoveTouch ==
  ASSUME NEW s, NEW c, NEW start, NEW lines, RemoveArguments(s, start, lines)
  PROVE  /\ Touch(s, RemoveLines(s, c, start, lines), {}, c)
         /\ RemoveLines(s, c, start, lines).tracked = s.tracked
<1> DEFINE u == RemoveLines(s, c, start, lines)
           d == s.document
           e == u.document
           keys == Part(Blame(s.tracker), start, Len(lines))
<1>1. /\ StateOK(u) /\ u.tracked = s.tracked
      /\ DOMAIN e.words = DOMAIN d.words
      /\ e.doc_modified_commits = d.doc_modified_commits \cup {c}
  BY RemoveResult
<1>2. \A w : History(e, w) = History(d, w) \ KeysWith(lines, keys, w)
  BY RemoveResult
<1>3. \A w : \/ w \notin WordsIn(lines) \/ w \notin DOMAIN d.words \/ History(e, w) # {}
             => Bitmap(e, w) = Bitmap(d, w)
  <2>1. ASSUME NEW w, w \notin WordsIn(lines) \/ w \notin DOMAIN d.words \/ History(e, w) # {}
        PROVE  Bitmap(e, w) = Bitmap(d, w)
    <3>1. RemoveArguments(s, start, lines)
      OBVIOUS
    <3> QED BY ONLY <2>1, <3>1, KeptBits
  <2> QED BY ONLY <2>1
<1> HIDE DEF u, d, e, keys
<1>4. LiveHasBits(d) => LiveHasBits(e)
  <2>1. SUFFICES ASSUME LiveHasBits(d), NEW w \in Words, History(e, w) # {} PROVE Bitmap(e, w) # {}
    BY DEF LiveHasBits
  <2>2. History(d, w) # {} /\ Bitmap(e, w) = Bitmap(d, w)
    BY <1>2, <1>3, <2>1
  <2> QED BY <2>1, <2>2 DEF LiveHasBits
<1> QED BY <1>1, <1>4 DEF Touch, u, d, e

\* delete_entire_file of a tracked file.
LEMMA DeleteTouch ==
  ASSUME NEW s, StateOK(s), NEW c
  PROVE  Touch(s, DeleteEntireFile(s, c), {}, c)
<1> DEFINE u == DeleteEntireFile(s, c)
           d == s.document
           e == u.document
<1>1. StateOK(u) /\ e = RemoveDocument(d, c)
  BY DeleteResult
<1>2. IsDocument(d)
  BY DEF StateOK
<1> HIDE DEF u, d, e
<1>3. /\ DOMAIN e.words = DOMAIN d.words
      /\ e.doc_modified_commits = d.doc_modified_commits \cup {c}
  BY ONLY <1>1, <1>2, RemoveDocumentResult
<1>4. \A w : History(e, w) = {}
  BY ONLY <1>1, <1>2, RemoveDocumentResult
<1>5. LiveHasBits(e)
  BY <1>4 DEF LiveHasBits
<1> QED BY <1>1, <1>3, <1>5 DEF Touch, u, d, e

\* The end of a run.
LEMMA FinalTouch ==
  ASSUME NEW s, StateOK(s), NEW head
  PROVE  LET u == Finalized(s, head)
         IN  /\ StateOK(u)
             /\ DOMAIN u.document.words = DOMAIN s.document.words
             /\ u.document.doc_modified_commits = s.document.doc_modified_commits
             /\ LiveHasBits(s.document) => LiveHasBits(u.document)
<1> DEFINE u == Finalized(s, head)
           d == s.document
           e == u.document
<1>1. StateOK(u) /\ e = IF s.tracked THEN Finalize(d, head) ELSE d
  BY FinalizedResult
<1>2. IsDocument(d)
  BY DEF StateOK
<1> HIDE DEF u, d, e
<1>3. CASE ~ s.tracked
  BY <1>1, <1>3 DEF u, d, e
<1>4. CASE s.tracked
  <2>1. e = Finalize(d, head)
    BY <1>1, <1>4
  <2>2. DOMAIN e.words = DOMAIN d.words /\ e.doc_modified_commits = d.doc_modified_commits
    BY ONLY <1>2, <2>1, FinalizeResult
  <2>3. ASSUME NEW w
        PROVE  /\ History(e, w) = History(d, w)
               /\ head \in Bitmap(d, w) \/ History(d, w) = {} => Bitmap(e, w) = Bitmap(d, w)
               /\ head \notin Bitmap(d, w) /\ History(d, w) # {} =>
                    Bitmap(e, w) = IF Bitmap(d, w) = {} THEN {head}
                                   ELSE InsertRange(Bitmap(d, w), LastBit(Bitmap(d, w)), head + 1)
    BY ONLY <1>2, <2>1, FinalizeResult
  <2>4. \A B, m, n : B # {} => InsertRange(B, m, n) # {}
    BY DEF InsertRange
  <2>5. ASSUME NEW w, Bitmap(d, w) # {} PROVE Bitmap(e, w) # {}
    BY <2>3, <2>4, <2>5
  <2>6. LiveHasBits(d) => LiveHasBits(e)
    BY <2>3, <2>5 DEF LiveHasBits
  <2> QED BY <1>1, <2>2, <2>6 DEF u, d, e
<1> QED BY <1>3, <1>4

\* One hunk of any file whose tracker has the lines that the hunk deletes.
LEMMA HunkTouch ==
  ASSUME NEW s, StateOK(s), NEW c \in CommitIndexes, NEW old, NEW new, NEW at, NEW to,
         HunkArguments(old, new, at, to), IsBoundary(LineTexts, old, new, to),
         LET hunk == HunkBetween(old, new, at, to)
         IN  hunk.deleted = <<>> \/ CanDelete(s, hunk.prev_start - 1, Len(hunk.deleted))
  PROVE  Touch(s, ApplyHunk(c, HunkBetween(old, new, at, to), s),
               WordsIn(HunkBetween(old, new, at, to).added), c)
<1> DEFINE hunk == HunkBetween(old, new, at, to)
           x == at[1]
           z == at[2]
           added == hunk.added
           deleted == hunk.deleted
           r == RemoveLines(s, c, hunk.prev_start - 1, deleted)
           u == ApplyHunk(c, hunk, s)
<1>1. /\ deleted \in Seq(LineTexts) /\ added \in Seq(LineTexts)
      /\ x \in Nat /\ z \in Nat
      /\ x < to[1] => deleted # <<>> /\ hunk.prev_start - 1 = x
      /\ z < to[2] => added # <<>> /\ hunk.new_start - 1 = z
      /\ x = to[1] => deleted = <<>> /\ hunk.prev_start = to[1] /\ z < to[2]
      /\ z = to[2] => added = <<>> /\ x < to[1]
  BY HunkOf
<1>2. x <= to[1] /\ z <= to[2] /\ to[1] \in Nat /\ to[2] \in Nat
  BY DEF HunkArguments, IsBoundary, Boundaries
<1>3. deleted = <<>> \/ CanDelete(s, hunk.prev_start - 1, Len(deleted))
  OBVIOUS
<1>4. u = IF deleted = <<>> THEN AddNewLines(s, c, hunk.prev_start, hunk.new_start - 1, added)
          ELSE IF added = <<>> THEN r
          ELSE AddNewLines(r, c, hunk.prev_start - 1, hunk.new_start - 1, added)
  BY DEF ApplyHunk
<1>5. CASE x = to[1]
  <2>1. AddArguments(s, c, hunk.prev_start, hunk.new_start - 1, added)
    BY <1>1, <1>2, <1>5 DEF AddArguments
  <2>2. u = AddNewLines(s, c, hunk.prev_start, hunk.new_start - 1, added)
    BY <1>1, <1>4, <1>5
  <2> QED BY ONLY <2>1, <2>2, AddTouch
<1>6. CASE x < to[1]
  <2>1. RemoveArguments(s, x, deleted) /\ r = RemoveLines(s, c, x, deleted) /\ deleted # <<>>
    BY <1>1, <1>3, <1>6 DEF RemoveArguments, CanDelete
  <2> HIDE DEF r
  <2>2. Touch(s, r, {}, c)
    BY ONLY <2>1, RemoveTouch
  <2>3. CASE z = to[2]
    <3>1. u = r /\ WordsIn(added) = {}
      BY <1>1, <1>4, <2>1, <2>3 DEF WordsIn
    <3> QED BY <2>2, <3>1
  <2>4. CASE z < to[2]
    <3>1. AddArguments(r, c, x, z, added)
      BY <1>1, <2>2 DEF AddArguments, Touch
    <3>2. u = AddNewLines(r, c, x, z, added)
      BY <1>1, <1>4, <1>6, <2>1, <2>4
    <3> HIDE DEF added, u
    <3>3. Touch(r, u, WordsIn(added), c)
      BY ONLY <3>1, <3>2, AddTouch
    <3>4. Touch(s, u, WordsIn(added), c)
      BY <2>2, <3>3 DEF Touch
    <3> QED BY <3>4 DEF added, u
  <2> QED BY <1>2, <1>1, <2>3, <2>4
<1> QED BY <1>1, <1>2, <1>5, <1>6

-----------------------------------------------------------------------------
(* The inductive invariant.                                                *)

\* The lines of f at each commit of a history.
LinesOf(history, f) == [c \in 1..Len(history) |-> history[c][f].lines]

Past(f) == LinesOf(repo, f)

\* An indexed file is in step with its history: amid a delta, or between two.
FileOK(f) ==
  IF f \in patching THEN FileArguments(index[f], Past(f), commits - 1, finalized, left)
  ELSE FileSettled(index[f], Past(f), Applied(f), finalized)

\* Any file, whether or not a change of it was lost.
DocumentOK(f) ==
  /\ StateOK(index[f])
  /\ DOMAIN index[f].document.words \subseteq Words
  /\ index[f].document.doc_modified_commits \subseteq 0..(commits - 1)
  /\ LiveHasBits(index[f].document)

Shapes ==
  /\ repo \in Seq([Files -> Contents]) /\ Len(repo) <= MaxCommits
  /\ commits \in 0..Len(repo) /\ target \in 0..Len(repo) /\ finalized \in 0..commits
  /\ phase \in {"idle", "walking", "panicked"}
  /\ patching = {} \/ \E f \in todo : patching = {f}
  /\ left \in Nat \X Nat
  /\ todo \subseteq Files /\ ignored \subseteq Files /\ lost \subseteq Files
  /\ ever \in [Words -> SUBSET Files]
  /\ index = [f \in Files |-> index[f]]

\* Where a run is, and where in a file it is.
Control ==
  /\ todo # {} => phase # "idle" /\ finalized < commits
  /\ phase # "idle" => commits <= target /\ target > 0
  /\ patching # {} => phase = "walking"
  /\ \A f \in patching :
       /\ commits > 1 /\ f \notin ignored
       /\ left \in Boundaries(PrevTree[f].lines, Tree[f].lines)
       /\ MoreHunks(PrevTree[f].lines, Tree[f].lines, left)

IndexInv ==
  /\ Shapes
  /\ Control
  /\ \A f \in Files : DocumentOK(f)
  /\ LookupMatchesDocuments
  /\ \A f \in Searchable : FileOK(f)

-----------------------------------------------------------------------------
(* Facts of the history.                                                   *)

\* The lines of a file, of which absent and binary ones have none.
LEMMA ContentLines ==
  ASSUME NEW content \in Contents
  PROVE  /\ content.lines \in Seq(LineTexts)
         /\ content.kind \in {"absent", "binary"} => content.lines = <<>>
<1>1. \A n \in Nat : BoundedSeq(LineTexts, n) \subseteq Seq(LineTexts)
  BY DEF BoundedSeq, SeqOf
<1>2. MaxLines \in Nat /\ MaxBomLines \in Nat
  BY IndexerAssumption
<1>3. CASE content = Absent
  BY <1>3 DEF Absent
<1>4. CASE content = Binary
  BY <1>4 DEF Binary
<1>5. ASSUME NEW s \in BoundedSeq(LineTexts, MaxLines), content = Text(s)
      PROVE  content.lines \in Seq(LineTexts) /\ content.kind = "text"
  BY <1>1, <1>2, <1>5 DEF Text
<1>6. ASSUME NEW s \in BoundedSeq(LineTexts, MaxBomLines), content = Bom(s)
      PROVE  content.lines \in Seq(LineTexts) /\ content.kind = "bom"
  BY <1>1, <1>2, <1>6 DEF Bom
<1> QED BY <1>3, <1>4, <1>5, <1>6 DEF Contents

\* The kinds of file.
LEMMA ContentKind ==
  ASSUME NEW content \in Contents
  PROVE  content.kind \in {"absent", "binary", "text", "bom"}
<1>1. CASE content \in {Absent} \cup (IF Binaries THEN {Binary} ELSE {})
  BY <1>1 DEF Absent, Binary
<1>2. ASSUME NEW s, content = Text(s) \/ content = Bom(s)
      PROVE  content.kind \in {"text", "bom"}
  BY <1>2 DEF Text, Bom
<1> QED BY <1>1, <1>2 DEF Contents

\* The words of lines are words.
LEMMA WordsOfLines ==
  ASSUME NEW lines \in Seq(LineTexts)
  PROVE  WordsIn(lines) \subseteq Words
BY IndexerAssumption DEF WordsIn

\* What is in the history of a file.
LEMMA LinesFacts ==
  ASSUME NEW history \in Seq([Files -> Contents]), NEW f \in Files
  PROVE  LET past == LinesOf(history, f)
         IN  /\ past \in Seq(Seq(LineTexts)) /\ Len(past) = Len(history) /\ Len(history) \in Nat
             /\ \A c \in 1..Len(history) : /\ history[c][f] \in Contents
                                           /\ past[c] = history[c][f].lines
                                           /\ history[c][f].lines \in Seq(LineTexts)
<1>1. Len(history) \in Nat /\ \A c \in 1..Len(history) : history[c][f] \in Contents
  OBVIOUS
<1>2. \A c \in 1..Len(history) : history[c][f].lines \in Seq(LineTexts)
  BY <1>1, ContentLines
<1>3. LinesOf(history, f) \in Seq(Seq(LineTexts)) /\ Len(LinesOf(history, f)) = Len(history)
  BY <1>1, <1>2, MakeSeq DEF LinesOf
<1>4. \A c \in 1..Len(history) : LinesOf(history, f)[c] = history[c][f].lines
  BY DEF LinesOf
<1> QED BY <1>1, <1>2, <1>3, <1>4

\* What is in the repository's history of a file.
LEMMA PastFacts ==
  ASSUME Shapes, NEW f \in Files
  PROVE  /\ Past(f) \in Seq(Seq(LineTexts)) /\ Len(Past(f)) = Len(repo)
         /\ MaxCommits \in Nat /\ Len(repo) \in Nat
         /\ \A c \in 1..Len(repo) : /\ repo[c][f] \in Contents
                                    /\ Past(f)[c] = repo[c][f].lines
                                    /\ repo[c][f].lines \in Seq(LineTexts)
BY IndexerAssumption, LinesFacts DEF Past, Shapes

\* Of the commit being indexed, and the one before it.
LEMMA CommitFacts ==
  ASSUME Shapes, Control, todo # {}, NEW f \in Files
  PROVE  /\ commits \in Nat /\ commits > 0 /\ CommitIndex \in CommitIndexes
         /\ commits - 1 \in Nat /\ (commits - 1) + 1 = commits
         /\ Setting(Past(f), commits - 1, finalized) /\ commits - 1 < Len(Past(f))
         /\ Tree[f] \in Contents /\ Tree[f].lines \in Seq(LineTexts)
         /\ Past(f)[commits] = Tree[f].lines
         /\ commits = 1 => LinesAt(Past(f), commits - 1) = <<>>
         /\ commits > 1 => /\ PrevTree[f] \in Contents /\ PrevTree[f].lines \in Seq(LineTexts)
                           /\ LinesAt(Past(f), commits - 1) = PrevTree[f].lines
<1>1. /\ commits \in Nat /\ finalized \in Nat /\ finalized < commits /\ commits <= Len(repo)
      /\ Len(repo) \in Nat /\ Len(repo) <= MaxCommits /\ MaxCommits \in Nat
  BY IndexerAssumption DEF Shapes, Control
<1>2. /\ Past(f) \in Seq(Seq(LineTexts)) /\ Len(Past(f)) = Len(repo)
      /\ \A c \in 1..Len(repo) : /\ repo[c][f] \in Contents
                                 /\ Past(f)[c] = repo[c][f].lines
                                 /\ repo[c][f].lines \in Seq(LineTexts)
  BY PastFacts
<1>3. Setting(Past(f), commits - 1, finalized) /\ commits - 1 < Len(Past(f))
  BY <1>1, <1>2 DEF Setting
<1>4. /\ Tree[f] \in Contents /\ Tree[f].lines \in Seq(LineTexts)
      /\ Past(f)[commits] = Tree[f].lines
  BY <1>1, <1>2 DEF Tree
<1>5. ASSUME commits > 1
      PROVE  /\ PrevTree[f] \in Contents /\ PrevTree[f].lines \in Seq(LineTexts)
             /\ LinesAt(Past(f), commits - 1) = PrevTree[f].lines
  <2>1. commits - 1 \in 1..Len(repo) /\ commits - 1 # 0
    BY <1>1, <1>5
  <2>2. LinesAt(Past(f), commits - 1) = Past(f)[commits - 1]
    BY <2>1 DEF LinesAt
  <2> QED BY <1>2, <2>1, <2>2 DEF PrevTree
<1>6. commits = 1 => LinesAt(Past(f), commits - 1) = <<>>
  BY DEF LinesAt
<1> QED BY <1>1, <1>3, <1>4, <1>5, <1>6 DEF CommitIndex, CommitIndexes

-----------------------------------------------------------------------------
(* The actions on one file.                                                *)

\* Before an action on f.
Ready(f) ==
  /\ Shapes /\ Control
  /\ \A g \in Files : DocumentOK(g)
  /\ \A g \in Searchable : FileOK(g)
  /\ phase = "walking" /\ f \in todo /\ patching \subseteq {f}

\* The file's index after an action, and the words that were marked.
Becomes(f, u, words) ==
  /\ Touch(index[f], u, words, CommitIndex) /\ words \subseteq Words
  /\ index' = [index EXCEPT ![f] = u]
  /\ ever' = [w \in Words |-> IF w \in words THEN ever[w] \cup {f} ELSE ever[w]]

\* The commit is applied to f, which stays in step unless the change was lost.
Applies(f, u) ==
  f \in Files \ (ignored' \cup lost') =>
    FileSettled(u, Past(f), commits, finalized) /\ KeepsPast(index[f], u, finalized)

\* Hunks of the commit are applied to f, down to boundary p.
AppliesTo(f, u, p) ==
  /\ f \notin lost =>
       FileArguments(u, Past(f), commits - 1, finalized, p) /\ KeepsPast(index[f], u, finalized)
  /\ commits > 1 /\ f \notin ignored
  /\ p \in Boundaries(PrevTree[f].lines, Tree[f].lines)
  /\ MoreHunks(PrevTree[f].lines, Tree[f].lines, p)

FileStep(f) ==
  /\ UNCHANGED <<repo, commits, target, finalized>>
  /\ ignored' \in {ignored, ignored \cup {f}} /\ lost' \in {lost, lost \cup {f}}
  /\ \E u, words :
       /\ Becomes(f, u, words)
       /\ \/ /\ phase' \in {"walking", "panicked"}
             /\ DoneWith(f)
             /\ Applies(f, u)
          \/ /\ UNCHANGED <<phase, todo, ignored, lost>>
             /\ patching' = {f} /\ left' \in Nat \X Nat
             /\ AppliesTo(f, u, left')

\* What is known before an action on f.
LEMMA ReadyFacts ==
  ASSUME NEW f, Ready(f)
  PROVE  /\ f \in Files /\ todo # {} /\ f \in todo /\ phase = "walking"
         /\ StateOK(index[f]) /\ Shapes /\ Control
         /\ f \in Searchable /\ f \notin patching =>
              FileSettled(index[f], Past(f), commits - 1, finalized)
         /\ f \in Searchable /\ f \in patching =>
              FileArguments(index[f], Past(f), commits - 1, finalized, left)
<1>1. f \in Files
  BY DEF Ready, Shapes
<1> QED BY <1>1 DEF Ready, DocumentOK, FileOK, Applied

\* Without a change, what was published stays.
LEMMA SamePast ==
  ASSUME NEW s, NEW F
  PROVE  KeepsPast(s, s, F)
BY DEF KeepsPast, SameBelow

\* Nothing is done to the file.
LEMMA Unchanged ==
  ASSUME NEW f, Ready(f), UNCHANGED <<index, ever>>
  PROVE  Becomes(f, index[f], {})
<1>1. index = [g \in Files |-> index[g]] /\ ever \in [Words -> SUBSET Files]
  BY DEF Ready, Shapes
<1>2. index' = [index EXCEPT ![f] = index[f]]
  BY <1>1
<1>3. ever' = [w \in Words |-> IF w \in {} THEN ever[w] \cup {f} ELSE ever[w]]
  BY <1>1
<1> QED BY <1>2, <1>3, ReadyFacts, NoTouch DEF Becomes

\* The lines of the file stay as they are.
LEMMA SkipApplies ==
  ASSUME NEW f, Ready(f), f \notin patching, LinesAt(Past(f), commits - 1) = Past(f)[commits],
         ignored \subseteq ignored', lost \subseteq lost'
  PROVE  Applies(f, index[f])
<1>1. SUFFICES ASSUME f \in Files \ (ignored' \cup lost')
               PROVE  /\ FileSettled(index[f], Past(f), commits, finalized)
                      /\ KeepsPast(index[f], index[f], finalized)
  BY DEF Applies
<1> DEFINE n == commits - 1
           s == index[f]
<1>2. FileSettled(s, Past(f), n, finalized)
  BY <1>1, ReadyFacts DEF Searchable
<1>3. n < Len(Past(f)) /\ n + 1 = commits /\ LinesAt(Past(f), n) = Past(f)[n + 1]
  BY ReadyFacts, CommitFacts
<1> HIDE DEF n, s
<1>4. FileSettled(s, Past(f), n + 1, finalized)
  BY ONLY <1>2, <1>3, SkipStep
<1> QED BY <1>3, <1>4, SamePast DEF s

\* Lines of any kind given to a file that the walk has not begun.
LEMMA AddBecomes ==
  ASSUME NEW f, Ready(f), NEW lines \in Seq(LineTexts),
         Update(f, AddNewLines(index[f], CommitIndex, 0, 0, lines), WordsIn(lines))
  PROVE  Becomes(f, AddNewLines(index[f], CommitIndex, 0, 0, lines), WordsIn(lines))
<1> DEFINE n == commits - 1
           s == index[f]
           zero == 0
           u == AddNewLines(s, n, zero, zero, lines)
<1>1. n \in CommitIndexes /\ StateOK(s)
  BY ReadyFacts, CommitFacts DEF CommitIndex
<1>2. AddArguments(s, n, zero, zero, lines) /\ zero = 0
  BY <1>1 DEF AddArguments
<1> HIDE DEF zero
<1>3. Touch(s, u, WordsIn(lines), n)
  BY ONLY <1>2, AddTouch
<1>4. u = AddNewLines(index[f], CommitIndex, 0, 0, lines)
  BY <1>2 DEF CommitIndex
<1> HIDE DEF u, n
<1> QED BY <1>1, <1>3, <1>4, WordsOfLines DEF Becomes, Update, CommitIndex, n

\* Lines given to a file that has none.
LEMMA AddApplies ==
  ASSUME NEW f, Ready(f), f \notin patching, LinesAt(Past(f), commits - 1) = <<>>,
         ignored \subseteq ignored', lost \subseteq lost',
         Update(f, AddNewLines(index[f], CommitIndex, 0, 0, Tree[f].lines), WordsIn(Tree[f].lines))
  PROVE  LET u == AddNewLines(index[f], CommitIndex, 0, 0, Tree[f].lines)
         IN  Becomes(f, u, WordsIn(Tree[f].lines)) /\ Applies(f, u)
<1> DEFINE n == commits - 1
           s == index[f]
           lines == Tree[f].lines
           zero == 0
           u == AddNewLines(s, n, zero, zero, lines)
<1>1. /\ lines \in Seq(LineTexts) /\ n \in CommitIndexes /\ StateOK(s)
      /\ n < Len(Past(f)) /\ n + 1 = commits /\ Past(f)[n + 1] = lines
  BY ReadyFacts, CommitFacts DEF CommitIndex
<1>2. zero = 0
  OBVIOUS
<1> HIDE DEF zero
<1>3. Becomes(f, AddNewLines(index[f], CommitIndex, 0, 0, lines), WordsIn(lines))
  BY <1>1, AddBecomes
<1>4. u = AddNewLines(index[f], CommitIndex, 0, 0, Tree[f].lines)
  BY <1>2 DEF CommitIndex
<1> HIDE DEF u, n, lines
<1>5. Becomes(f, u, WordsIn(lines))
  BY <1>3, <1>4 DEF lines
<1>6. ASSUME f \in Files \ (ignored' \cup lost')
      PROVE  FileSettled(u, Past(f), commits, finalized) /\ KeepsPast(s, u, finalized)
  <2>1. FileSettled(s, Past(f), n, finalized)
    BY <1>6, ReadyFacts DEF Searchable, n
  <2>2. LinesAt(Past(f), n) = <<>>
    BY DEF n
  <2>3. u = AddNewLines(s, n, 0, 0, Past(f)[n + 1])
    BY <1>1, <1>2 DEF u
  <2> HIDE DEF s
  <2>4. FileSettled(u, Past(f), n + 1, finalized) /\ KeepsPast(s, u, finalized)
    BY ONLY <1>1, <2>1, <2>2, <2>3, AddAll
  <2> QED BY <1>1, <2>4
<1>7. Applies(f, u)
  BY <1>6 DEF Applies
<1> QED BY <1>4, <1>5, <1>7 DEF lines

\* A file the walk is through with.
LEMMA DoneStep ==
  ASSUME NEW f, Ready(f), DoneWith(f),
         UNCHANGED <<repo, commits, target, finalized>>,
         ignored' \in {ignored, ignored \cup {f}}, lost' \in {lost, lost \cup {f}},
         phase' \in {"walking", "panicked"},
         NEW u, NEW words, Becomes(f, u, words), Applies(f, u)
  PROVE  FileStep(f)
BY DEF FileStep

\* A file of the first commit (index_tree).
LEMMA IndexTreeStep ==
  ASSUME NEW f, Ready(f), patching = {}, IndexTree(f), DoneWith(f),
         UNCHANGED <<repo, commits, target, finalized>>
  PROVE  FileStep(f)
<1>1. /\ commits = 1 /\ phase = "walking" /\ phase' = phase /\ f \notin patching
      /\ LinesAt(Past(f), commits - 1) = <<>> /\ Past(f)[commits] = Tree[f].lines
      /\ Tree[f] \in Contents /\ CommitIndex = 0
  BY ReadyFacts, CommitFacts DEF IndexTree, CommitIndex
<1>2. CASE /\ Tree[f].kind = "text"
           /\ Update(f, AddNewLines(index[f], 0, 0, 0, Tree[f].lines), WordsIn(Tree[f].lines))
           /\ UNCHANGED <<ignored, lost>>
  <2>1. Update(f, AddNewLines(index[f], CommitIndex, 0, 0, Tree[f].lines), WordsIn(Tree[f].lines))
    BY <1>1, <1>2
  <2> DEFINE u == AddNewLines(index[f], CommitIndex, 0, 0, Tree[f].lines)
  <2>2. Becomes(f, u, WordsIn(Tree[f].lines)) /\ Applies(f, u)
    BY <1>1, <1>2, <2>1, AddApplies
  <2> HIDE DEF u
  <2> QED BY <1>1, <1>2, <2>2, DoneStep
<1>3. CASE /\ Tree[f].kind = "binary"
           /\ ignored' = ignored \cup {f}
           /\ UNCHANGED <<index, ever, lost>>
  <2>1. Becomes(f, index[f], {})
    BY <1>3, Unchanged
  <2>2. Applies(f, index[f])
    BY <1>3 DEF Applies
  <2> QED BY <1>1, <1>3, <2>1, <2>2, DoneStep
<1>4. ASSUME NEW lines \in BoundedSeq(LineTexts, MaxLines),
             Update(f, AddNewLines(index[f], 0, 0, 0, lines), WordsIn(lines)),
             lost' = lost \cup {f}, UNCHANGED ignored
      PROVE  FileStep(f)
  <2>1. lines \in Seq(LineTexts)
    BY <1>4 DEF BoundedSeq, SeqOf
  <2> DEFINE u == AddNewLines(index[f], CommitIndex, 0, 0, lines)
  <2>2. Becomes(f, u, WordsIn(lines))
    BY <1>1, <1>4, <2>1, AddBecomes
  <2>3. Applies(f, u)
    BY <1>4 DEF Applies
  <2> HIDE DEF u
  <2> QED BY <1>1, <1>4, <2>2, <2>3, DoneStep
<1>5. CASE /\ Tree[f].kind # "text"
           /\ lost' = IF IsText(Tree[f]) THEN lost \cup {f} ELSE lost
           /\ UNCHANGED <<index, ever, ignored>>
  <2>1. Becomes(f, index[f], {})
    BY <1>5, Unchanged
  <2>2. CASE IsText(Tree[f])
    <3>1. Applies(f, index[f])
      BY <1>5, <2>2 DEF Applies
    <3> QED BY <1>1, <1>5, <2>1, <2>2, <3>1, DoneStep
  <2>3. CASE ~ IsText(Tree[f])
    <3>1. Tree[f].lines = <<>>
      BY <1>1, <2>3, ContentKind, ContentLines DEF IsText
    <3>2. Applies(f, index[f])
      BY <1>1, <1>5, <2>3, <3>1, SkipApplies
    <3> QED BY <1>1, <1>5, <2>1, <2>3, <3>2, DoneStep
  <2> QED BY <2>2, <2>3
<1> QED BY <1>2, <1>3, <1>4, <1>5 DEF IndexTree

\* A delta git flags as binary.
LEMMA BinaryDeltaStep ==
  ASSUME NEW f, Ready(f), BinaryDelta(f), DoneWith(f),
         UNCHANGED <<repo, commits, target, finalized>>
  PROVE  FileStep(f)
<1>1. Becomes(f, index[f], {})
  BY Unchanged DEF BinaryDelta
<1>2. Applies(f, index[f])
  BY DEF BinaryDelta, Applies
<1> QED BY <1>1, <1>2, ReadyFacts, DoneStep DEF BinaryDelta

\* A file of which there is nothing to do.
LEMMA SkipDeltaStep ==
  ASSUME NEW f, Ready(f), patching = {}, SkipDelta(f), DoneWith(f),
         UNCHANGED <<repo, commits, target, finalized>>
  PROVE  FileStep(f)
<1>1. Becomes(f, index[f], {})
  BY Unchanged DEF SkipDelta
<1>2. CASE f \in ignored
  <2>1. Applies(f, index[f])
    BY <1>2 DEF SkipDelta, Applies
  <2> QED BY <1>1, <2>1, ReadyFacts, DoneStep DEF SkipDelta
<1>3. CASE f \notin ignored
  <2>1. PrevTree[f].lines = Tree[f].lines
    BY <1>3 DEF SkipDelta
  <2>2. LinesAt(Past(f), commits - 1) = Past(f)[commits]
    BY <2>1, ReadyFacts, CommitFacts DEF SkipDelta
  <2>3. Applies(f, index[f])
    BY <2>2, SkipApplies DEF SkipDelta
  <2> QED BY <1>1, <2>3, ReadyFacts, DoneStep DEF SkipDelta
<1> QED BY <1>2, <1>3

\* An added file.
LEMMA AddedDeltaStep ==
  ASSUME NEW f, Ready(f), patching = {}, AddedDelta(f), DoneWith(f),
         UNCHANGED <<repo, commits, target, finalized>>
  PROVE  FileStep(f)
<1>1. /\ commits > 1 /\ ignored' = ignored /\ PrevTree[f].kind = "absent"
      /\ phase' = phase /\ lost' = lost
      /\ Update(f, AddNewLines(index[f], CommitIndex, 0, 0, Tree[f].lines), WordsIn(Tree[f].lines))
  BY DEF AddedDelta, TextDelta
<1>2. LinesAt(Past(f), commits - 1) = <<>>
  BY <1>1, ReadyFacts, CommitFacts, ContentLines
<1> DEFINE u == AddNewLines(index[f], CommitIndex, 0, 0, Tree[f].lines)
<1>3. Becomes(f, u, WordsIn(Tree[f].lines)) /\ Applies(f, u)
  BY <1>1, <1>2, AddApplies
<1> HIDE DEF u
<1> QED BY <1>1, <1>3, ReadyFacts, DoneStep

\* A deleted file: tracked, it is emptied; else the walk panics and the change is lost.
LEMMA DeletedDeltaStep ==
  ASSUME NEW f, Ready(f), patching = {}, DeletedDelta(f), DoneWith(f),
         UNCHANGED <<repo, commits, target, finalized>>
  PROVE  FileStep(f)
<1>1. /\ commits > 1 /\ ignored' = ignored /\ Tree[f].kind = "absent" /\ ever' = ever
  BY DEF DeletedDelta, TextDelta
<1>2. CASE ~ index[f].tracked
  <2>1. phase' = "panicked" /\ lost' = lost \cup {f} /\ UNCHANGED index
    BY <1>2 DEF DeletedDelta
  <2>2. Becomes(f, index[f], {})
    BY <1>1, <2>1, Unchanged
  <2>3. Applies(f, index[f])
    BY <2>1 DEF Applies
  <2> QED BY <1>1, <2>1, <2>2, <2>3, DoneStep
<1>3. CASE index[f].tracked
  <2> DEFINE n == commits - 1
             s == index[f]
             u == DeleteEntireFile(s, n)
  <2>1. index' = [index EXCEPT ![f] = u] /\ phase' = phase /\ lost' = lost
    BY <1>3 DEF DeletedDelta, CommitIndex
  <2>2. /\ Past(f)[n + 1] = <<>> /\ n < Len(Past(f)) /\ n + 1 = commits /\ StateOK(s)
    BY <1>1, ReadyFacts, CommitFacts, ContentLines
  <2>3. Touch(s, u, {}, n)
    BY <2>2, DeleteTouch
  <2>4. f \in Searchable => FileSettled(s, Past(f), n, finalized)
    BY ReadyFacts
  <2> HIDE DEF n, s, u
  <2>5. ever' = [w \in Words |-> IF w \in {} THEN ever[w] \cup {f} ELSE ever[w]]
    BY <1>1 DEF Ready, Shapes
  <2>6. Becomes(f, u, {})
    BY <2>1, <2>3, <2>5 DEF Becomes, CommitIndex, n, s
  <2>7. ASSUME f \in Files \ (ignored' \cup lost')
        PROVE  FileSettled(u, Past(f), commits, finalized) /\ KeepsPast(s, u, finalized)
    <3>1. FileSettled(s, Past(f), n, finalized)
      BY <1>1, <2>1, <2>4, <2>7 DEF Searchable
    <3>2. FileSettled(DeleteEntireFile(s, n), Past(f), n + 1, finalized)
          /\ KeepsPast(s, DeleteEntireFile(s, n), finalized)
      BY ONLY <2>2, <3>1, DeleteStep
    <3> QED BY <2>2, <3>2 DEF u
  <2>8. Applies(f, u)
    BY <2>7 DEF Applies, s
  <2> QED BY <1>1, <2>1, <2>6, <2>8, ReadyFacts, DoneStep
<1> QED BY <1>2, <1>3

\* A hunk of a modified file: the file's first, one in between, or its last.
LEMMA ModifiedDeltaStep ==
  ASSUME NEW f, Ready(f), ModifiedDelta(f), UNCHANGED <<repo, commits, target, finalized>>
  PROVE  FileStep(f)
<1> DEFINE n == commits - 1
           s == index[f]
           past == Past(f)
           old == PrevTree[f].lines
           new == Tree[f].lines
           top == IF f \in patching THEN left ELSE End(old, new)
<1>1. PICK at \in Boundaries(old, new), to \in Boundaries(old, new) :
        /\ MayKeep(old, new, to, top)
        /\ f \in patching => to # top
        /\ at[1] <= to[1] /\ at[2] <= to[2] /\ at # to
        /\ \/ /\ MoreHunks(old, new, at)
              /\ PatchWith(f, HunkBetween(old, new, at, to))
              /\ patching' = {f} /\ left' = at
              /\ UNCHANGED todo
           \/ /\ MayKeep(old, new, Start, at)
              /\ PatchWith(f, HunkBetween(old, new, at, to))
              /\ DoneWith(f)
           \/ /\ MoreHunks(old, new, at) \/ MayKeep(old, new, Start, at)
              /\ PanicOver(f, HunkBetween(old, new, at, to))
              /\ DoneWith(f)
  BY DEF ModifiedDelta
<1>2. /\ commits > 1 /\ f \notin ignored /\ ignored' = ignored /\ f \in Files
      /\ StateOK(s) /\ n \in CommitIndexes /\ n + 1 = commits
      /\ n < Len(past) /\ Setting(past, n, finalized)
      /\ LinesAt(past, n) = old /\ past[n + 1] = new
      /\ old \in Seq(LineTexts) /\ new \in Seq(LineTexts)
  BY ReadyFacts, CommitFacts DEF ModifiedDelta, TextDelta, CommitIndex
<1> DEFINE hunk == HunkBetween(old, new, at, to)
           u == ApplyHunk(n, hunk, s)
<1>3. /\ HunkArguments(old, new, at, to) /\ IsBoundary(LineTexts, old, new, to)
      /\ IsBoundary(LineTexts, old, new, at)
  BY <1>1, <1>2 DEF HunkArguments, IsBoundary
<1>4. ASSUME f \notin lost
      PROVE  FileArguments(s, past, n, finalized, to)
  <2>1. IsBoundary(LineTexts, old, new, top) /\ Amid(s, past, n, top, finalized)
    <3>1. CASE f \in patching
      <4>1. FileArguments(s, past, n, finalized, left)
        BY <1>2, <1>4, <3>1, ReadyFacts DEF Searchable
      <4> QED BY <1>2, <3>1, <4>1 DEF FileArguments
    <3>2. CASE f \notin patching
      <4>1. Settled(s, past, n, finalized)
        BY <1>2, <1>4, <3>2, ReadyFacts DEF Searchable, FileSettled
      <4> HIDE DEF n, s, past
      <4>2. /\ Amid(s, past, n, End(LinesAt(past, n), past[n + 1]), finalized)
            /\ IsBoundary(LineTexts, LinesAt(past, n), past[n + 1], End(LinesAt(past, n), past[n + 1]))
        BY ONLY <1>2, <4>1, Begin
      <4> QED BY <1>2, <3>2, <4>2
    <3> QED BY <3>1, <3>2
  <2> HIDE DEF n, s, past, old, new, top
  <2>2. Amid(s, past, n, to, finalized)
    BY <1>1, <1>2, <1>3, <2>1, Keep
  <2> QED BY <1>2, <1>3, <2>2 DEF FileArguments
<1> HIDE DEF n, s, past, old, new, hunk, u
<1>5. ASSUME f \notin lost
      PROVE  /\ FileArguments(u, past, n, finalized, at) /\ KeepsPast(s, u, finalized)
             /\ n \in u.document.doc_modified_commits
  <2>1. FileArguments(s, past, n, finalized, to)
    BY <1>4, <1>5
  <2>2. HunkArguments(LinesAt(past, n), past[n + 1], at, to)
    BY <1>2, <1>3
  <2>3. u = ApplyHunk(n, HunkBetween(LinesAt(past, n), past[n + 1], at, to), s)
    BY <1>2 DEF u, hunk
  <2> QED BY ONLY <2>1, <2>2, <2>3, HunkStep
<1>6. CASE PatchWith(f, hunk)
  <2>1. /\ CanApply(f, hunk) /\ Update(f, u, WordsIn(hunk.added))
        /\ phase' = phase /\ lost' = lost
    BY <1>6 DEF PatchWith, u, CommitIndex, n, s
  <2>2. hunk.deleted = <<>> \/ CanDelete(s, hunk.prev_start - 1, Len(hunk.deleted))
    BY <2>1 DEF CanApply, s
  <2>3. Touch(s, u, WordsIn(hunk.added), n)
    BY ONLY <1>2, <1>3, <2>2, HunkTouch DEF u, hunk
  <2>4. WordsIn(hunk.added) \subseteq Words
    BY <1>3, HunkOf, WordsOfLines DEF hunk
  <2>5. Becomes(f, u, WordsIn(hunk.added))
    BY <2>1, <2>3, <2>4 DEF Becomes, Update, CommitIndex, n, s
  <2>6. CASE MoreHunks(old, new, at) /\ patching' = {f} /\ left' = at /\ UNCHANGED todo
    <3>1. AppliesTo(f, u, left')
      BY <1>1, <1>2, <1>5, <2>6 DEF AppliesTo, n, s, past, old, new
    <3>2. left' \in Nat \X Nat
      BY <1>1, <2>6 DEF Boundaries
    <3> QED BY <1>2, <2>1, <2>5, <2>6, <3>1, <3>2 DEF FileStep
  <2>7. CASE MayKeep(old, new, Start, at) /\ DoneWith(f)
    <3>1. ASSUME f \in Files \ (ignored' \cup lost')
          PROVE  FileSettled(u, past, commits, finalized) /\ KeepsPast(s, u, finalized)
      <4>1. /\ FileArguments(u, past, n, finalized, at) /\ KeepsPast(s, u, finalized)
            /\ n \in u.document.doc_modified_commits
        BY <1>5, <2>1, <3>1
      <4>2. MayKeep(LinesAt(past, n), past[n + 1], Start, at)
        BY <1>2, <2>7
      <4>3. Settled(u, past, n + 1, finalized)
        BY ONLY <4>1, <4>2, Finish
      <4>4. Setting(past, n + 1, finalized) /\ StateOK(u)
        BY <1>2, <4>1, SettingFacts DEF FileArguments
      <4> QED BY <1>2, <4>1, <4>3, <4>4 DEF FileSettled
    <3>2. Applies(f, u)
      BY <3>1 DEF Applies, past, s
    <3> QED BY <1>2, <2>1, <2>5, <2>7, <3>2, ReadyFacts, DoneStep
  <2>8. CASE PanicOver(f, hunk)
    BY <2>1, <2>8 DEF PanicOver
  <2> QED BY <1>1, <2>6, <2>7, <2>8 DEF hunk
<1>7. CASE PanicOver(f, hunk) /\ DoneWith(f)
  <2>1. phase' = "panicked" /\ lost' = lost \cup {f} /\ UNCHANGED <<index, ever>>
    BY <1>7 DEF PanicOver
  <2>2. Becomes(f, index[f], {})
    BY <2>1, Unchanged
  <2>3. Applies(f, index[f])
    BY <2>1 DEF Applies
  <2> QED BY <1>2, <1>7, <2>1, <2>2, <2>3, DoneStep
<1> QED BY <1>1, <1>6, <1>7 DEF hunk

\* Whatever the walk does for a file is such a step.
LEMMA IndexFileStep ==
  ASSUME IndexInv, NEW f \in Files, IndexFile(f)
  PROVE  Ready(f) /\ FileStep(f)
<1>1. Ready(f)
  BY DEF IndexInv, Ready, IndexFile
<1>2. UNCHANGED <<repo, commits, target, finalized>>
  BY DEF IndexFile
<1>3. CASE patching \subseteq {f} /\ ModifiedDelta(f)
  BY <1>1, <1>2, <1>3, ModifiedDeltaStep
<1>4. CASE patching = {} /\ DoneWith(f)
  <2>1. CASE IndexTree(f)
    BY <1>1, <1>2, <1>4, <2>1, IndexTreeStep
  <2>2. CASE BinaryDelta(f)
    BY <1>1, <1>2, <1>4, <2>2, BinaryDeltaStep
  <2>3. CASE SkipDelta(f)
    BY <1>1, <1>2, <1>4, <2>3, SkipDeltaStep
  <2>4. CASE AddedDelta(f)
    BY <1>1, <1>2, <1>4, <2>4, AddedDeltaStep
  <2>5. CASE DeletedDelta(f)
    BY <1>1, <1>2, <1>4, <2>5, DeletedDeltaStep
  <2> QED BY <1>3, <1>4, <2>1, <2>2, <2>3, <2>4, <2>5 DEF IndexFile
<1> QED BY <1>1, <1>3, <1>4 DEF IndexFile

-----------------------------------------------------------------------------
(* The invariant holds initially, and every action preserves it.           *)

\* A file that was never indexed.
LEMMA UntrackedFacts ==
  /\ StateOK(Untracked) /\ DOMAIN Untracked.document.words = {}
  /\ Untracked.document.doc_modified_commits = {} /\ LiveHasBits(Untracked.document)
  /\ \A w : Bitmap(Untracked.document, w) = {}
  /\ \A past : Setting(past, 0, 0) => FileSettled(Untracked, past, 0, 0)
<1> DEFINE d == Untracked.document
           nothing == {}
           none == [w \in nothing |-> DefaultWordIndex]
           no == FALSE
<1>1. d = Record(none, <<>>, {}, no) /\ ~ Untracked.tracked /\ Untracked.tracker = DeleteAll
  BY DEF Untracked, EmptyDocument, Record
<1>2. /\ IsDocument(d) /\ DOMAIN d.words = {} /\ d.doc_modified_commits = {}
  <2> DEFINE all == <<>>
  <2>1. /\ none = [w \in nothing |-> none[w]] /\ \A w \in nothing : IsIndex(none[w])
        /\ nothing = {}
    OBVIOUS
  <2>2. d = Record(none, all, nothing, no)
    BY <1>1
  <2> HIDE DEF d, none, no, nothing, all
  <2>3. IsDocument(d) /\ DOMAIN d.words = nothing /\ d.doc_modified_commits = nothing
    BY ONLY <2>1, <2>2, MakeDocument
  <2> QED BY <2>1, <2>3
<1>3. \A w : History(d, w) = {} /\ Bitmap(d, w) = {}
  <2> HIDE DEF d
  <2> QED BY <1>2 DEF History, Bitmap, IndexOf, DefaultWordIndex
<1>4. StateOK(Untracked)
  BY <1>1, <1>2, NoLines DEF StateOK, Untracked
<1> HIDE DEF d
<1>5. ASSUME NEW past, Setting(past, 0, 0)
      PROVE  FileSettled(Untracked, past, 0, 0)
  <2>1. LinesAt(past, 0) = <<>> /\ Len(<<>>) = 0 /\ WordsIn(<<>>) = {}
    BY DEF LinesAt, WordsIn
  <2>2. Len(Blame(Untracked.tracker)) = 0
    BY <1>1, NoLines
  <2>3. \A b, w : KeysWith(<<>>, b, w) = {}
    BY DEF KeysWith
  <2>7. Follows(Untracked, <<>>)
    <3> DEFINE s == Untracked
               blame == Blame(s.tracker)
    <3>1. s.tracker = DeleteAll /\ Len(blame) = Len(<<>>)
      BY <1>1, <2>1, <2>2
    <3>2. \A w : History(s.document, w) = KeysWith(<<>>, blame, w)
      BY <1>3, <2>3 DEF d
    <3> HIDE DEF s
    <3>3. \A i, j \in 1..Len(<<>>) : blame[i] = blame[j] => i = j
      BY <2>1
    <3>4. Follows(s, <<>>)
      BY <3>1, <3>2, <3>3 DEF Follows
    <3> QED BY <3>4 DEF s
  <2>4. \A w : BitsFit(Bitmap(d, w), w \in WordsIn(<<>>), past, w, 0, 0)
    BY <1>3, <2>1 DEF BitsFit
  <2>5. Marked(d, past, 0)
    BY DEF Marked
  <2>6. Settled(Untracked, past, 0, 0)
    BY <1>3, <2>1, <2>7, <2>4, <2>5 DEF Settled, d
  <2> QED BY <1>4, <1>5, <2>6 DEF FileSettled
<1> QED BY <1>2, <1>3, <1>4, <1>5 DEF LiveHasBits, d

\* The invariant holds of a new indexer.
LEMMA Started ==
  ASSUME Init
  PROVE  IndexInv
<1>1. Shapes
  BY IndexerAssumption DEF Init, Shapes, Start
<1>2. Control
  BY DEF Init, Control
<1>3. \A f \in Files : index[f] = Untracked
  BY DEF Init
<1>4. \A f \in Files : DocumentOK(f)
  BY <1>3, UntrackedFacts DEF DocumentOK
<1>5. LookupMatchesDocuments
  BY <1>3, UntrackedFacts DEF LookupMatchesDocuments, Init
<1>6. ASSUME NEW f \in Searchable PROVE FileOK(f)
  <2>1. f \in Files /\ f \notin patching /\ Applied(f) = 0 /\ finalized = 0
    BY <1>6 DEF Searchable, Init, Applied
  <2>2. Setting(Past(f), 0, 0)
    BY <1>1, <2>1, PastFacts DEF Setting, Shapes
  <2> QED BY <1>3, <2>1, <2>2, UntrackedFacts DEF FileOK
<1> QED BY <1>1, <1>2, <1>4, <1>5, <1>6 DEF IndexInv

\* A file's part of a commit.
LEMMA FileKeeps ==
  ASSUME IndexInv, NEW f, Ready(f), FileStep(f)
  PROVE  IndexInv'
<1>1. /\ UNCHANGED <<repo, commits, target, finalized>>
      /\ ignored' \in {ignored, ignored \cup {f}} /\ lost' \in {lost, lost \cup {f}}
  BY DEF FileStep
<1>2. PICK u, words :
        /\ Becomes(f, u, words)
        /\ \/ /\ phase' \in {"walking", "panicked"}
              /\ DoneWith(f)
              /\ Applies(f, u)
           \/ /\ UNCHANGED <<phase, todo, ignored, lost>>
              /\ patching' = {f} /\ left' \in Nat \X Nat
              /\ AppliesTo(f, u, left')
  BY DEF FileStep
<1>3. /\ f \in Files /\ f \in todo /\ phase = "walking" /\ patching \subseteq {f}
      /\ Shapes /\ Control /\ LookupMatchesDocuments
      /\ \A g \in Files : DocumentOK(g)
      /\ commits \in Nat /\ commits > 0 /\ CommitIndex = commits - 1
  BY ReadyFacts, CommitFacts DEF Ready, IndexInv, CommitIndex
<1>4. /\ index' = [index EXCEPT ![f] = u] /\ index = [g \in Files |-> index[g]]
      /\ ever' = [w \in Words |-> IF w \in words THEN ever[w] \cup {f} ELSE ever[w]]
      /\ words \subseteq Words /\ Touch(index[f], u, words, commits - 1)
  BY <1>2, <1>3 DEF Becomes, Shapes
<1>5. index'[f] = u /\ \A g \in Files \ {f} : index'[g] = index[g]
  BY <1>3, <1>4
<1>6. \/ /\ todo' = todo \ {f} /\ patching' = {} /\ left' = Start
         /\ phase' \in {"walking", "panicked"}
      \/ todo' = todo /\ patching' = {f} /\ left' \in Nat \X Nat /\ phase' = "walking"
  BY <1>2, <1>3 DEF DoneWith
<1>7. Shapes'
  <2>1. index' = [g \in Files |-> index'[g]]
    BY <1>4
  <2>2. ever' \in [Words -> SUBSET Files]
    BY <1>3, <1>4 DEF Shapes
  <2>3. /\ patching' = {} \/ \E g \in todo' : patching' = {g}
        /\ left' \in Nat \X Nat /\ phase' \in {"idle", "walking", "panicked"} /\ todo' \subseteq Files
    BY <1>3, <1>6 DEF Start, Shapes
  <2>4. ignored' \subseteq Files /\ lost' \subseteq Files
    BY <1>1, <1>3 DEF Shapes
  <2> QED BY <1>1, <1>3, <2>1, <2>2, <2>3, <2>4 DEF Shapes
<1>8. Control'
  <2>1. ASSUME NEW g \in patching'
        PROVE  /\ commits' > 1 /\ g \notin ignored'
               /\ left' \in Boundaries(PrevTree[g].lines, Tree[g].lines)'
               /\ MoreHunks(PrevTree[g].lines, Tree[g].lines, left)'
    <3>1. g = f /\ patching' = {f}
      BY <1>6, <2>1
    <3>2. AppliesTo(f, u, left') /\ ignored' = ignored
      BY <1>2, <3>1 DEF DoneWith
    <3>3. /\ (PrevTree[f].lines)' = PrevTree[f].lines /\ (Tree[f].lines)' = Tree[f].lines
      BY <1>1 DEF PrevTree, Tree
    <3> QED BY <1>1, <3>1, <3>2, <3>3 DEF AppliesTo
  <2>2. finalized < commits /\ commits <= target /\ target > 0
    BY <1>3 DEF Control
  <2> QED BY <1>1, <1>6, <2>1, <2>2 DEF Control
<1>9. ASSUME NEW g \in Files PROVE DocumentOK(g)'
  <2>1. CASE g # f
    BY <1>1, <1>3, <1>5, <2>1 DEF DocumentOK
  <2>2. CASE g = f
    <3>1. DocumentOK(f) /\ commits - 1 \in 0..(commits - 1)
      BY <1>3
    <3>2. /\ StateOK(u) /\ DOMAIN u.document.words \subseteq Words
          /\ u.document.doc_modified_commits \subseteq 0..(commits - 1)
          /\ LiveHasBits(u.document)
      BY <1>4, <3>1 DEF Touch, DocumentOK
    <3> QED BY <1>1, <1>5, <2>2, <3>2 DEF DocumentOK
  <2> QED BY <2>1, <2>2
<1>10. LookupMatchesDocuments'
  <2>1. SUFFICES ASSUME NEW g \in Files, NEW w \in Words
                 PROVE  g \in ever'[w] <=> w \in DOMAIN index'[g].document.words
    BY DEF LookupMatchesDocuments
  <2>2. g \in ever[w] <=> w \in DOMAIN index[g].document.words
    BY <1>3 DEF LookupMatchesDocuments
  <2>3. ever'[w] = IF w \in words THEN ever[w] \cup {f} ELSE ever[w]
    BY <1>4
  <2>4. DOMAIN u.document.words = DOMAIN index[f].document.words \cup words
    BY <1>4 DEF Touch
  <2> QED BY <1>5, <2>2, <2>3, <2>4
<1>11. ASSUME NEW g \in Searchable' PROVE FileOK(g)'
  <2>1. g \in Searchable /\ g \in Files /\ g \notin ignored' /\ g \notin lost'
    BY <1>1, <1>11 DEF Searchable
  <2>2. Past(g)' = Past(g)
    BY <1>1 DEF Past
  <2>3. CASE g # f
    <3>1. g \notin patching /\ g \notin patching' /\ (g \in todo' <=> g \in todo)
      BY <1>3, <1>6, <2>3
    <3>2. FileSettled(index[g], Past(g), Applied(g), finalized)
      BY <2>1, <3>1 DEF IndexInv, FileOK
    <3>3. Applied(g)' = Applied(g)
      BY <1>1, <3>1 DEF Applied
    <3> QED BY <1>1, <1>5, <2>1, <2>2, <2>3, <3>1, <3>2, <3>3 DEF FileOK
  <2>4. CASE g = f /\ DoneWith(f)
    <3>1. f \notin patching' /\ f \notin todo'
      BY <2>4 DEF DoneWith
    <3>2. FileSettled(u, Past(f), commits, finalized)
      BY <1>2, <2>1, <2>4, <3>1 DEF Applies
    <3>3. Applied(f)' = commits
      BY <1>1, <3>1 DEF Applied
    <3> QED BY <1>1, <1>5, <2>2, <2>4, <3>1, <3>2, <3>3 DEF FileOK
  <2>5. CASE g = f /\ patching' = {f}
    <3>1. FileArguments(u, Past(f), commits - 1, finalized, left')
      BY <1>2, <2>1, <2>5 DEF AppliesTo, DoneWith
    <3> QED BY <1>1, <1>5, <2>2, <2>5, <3>1 DEF FileOK
  <2> QED BY <1>2, <2>3, <2>4, <2>5
<1> QED BY <1>7, <1>8, <1>9, <1>10, <1>11 DEF IndexInv

\* Someone commits: the history of each file goes on.
LEMMA CommitKeeps ==
  ASSUME IndexInv, NEW tree \in [Files -> Contents], Commit(tree)
  PROVE  IndexInv'
<1>1. /\ Shapes /\ Control /\ phase = "idle" /\ Len(repo) < MaxCommits
      /\ repo' = Append(repo, tree) /\ UNCHANGED indexerVars
      /\ repo \in Seq([Files -> Contents]) /\ Len(repo) \in Nat /\ MaxCommits \in Nat
  BY IndexerAssumption DEF Commit, IndexInv, Shapes
<1>2. /\ repo' \in Seq([Files -> Contents]) /\ Len(repo') = Len(repo) + 1
      /\ \A c \in 1..Len(repo) : repo'[c] = repo[c]
  BY <1>1
<1>3. todo = {} /\ patching = {}
  BY <1>1 DEF Control
<1>4. Shapes'
  BY <1>1, <1>2, <1>3 DEF Shapes, indexerVars
<1>5. Control'
  BY <1>1, <1>3 DEF Control, indexerVars
<1>6. \A f \in Files : DocumentOK(f)'
  BY <1>1 DEF DocumentOK, indexerVars, IndexInv
<1>7. LookupMatchesDocuments'
  BY <1>1 DEF LookupMatchesDocuments, indexerVars, IndexInv
<1>8. ASSUME NEW f \in Searchable' PROVE FileOK(f)'
  <2> DEFINE s == index[f]
             past == Past(f)
             longer == Past(f)'
  <2>1. f \in Searchable /\ f \in Files
    BY <1>1, <1>8 DEF Searchable, indexerVars
  <2>2. FileSettled(s, past, commits, finalized)
    BY <1>3, <2>1 DEF IndexInv, FileOK, Applied
  <2>3. Len(past) = Len(repo) /\ \A c \in 1..Len(repo) : past[c] = repo[c][f].lines
    BY <1>1, <2>1, PastFacts
  <2>4. /\ longer \in Seq(Seq(LineTexts)) /\ Len(longer) = Len(repo')
        /\ \A c \in 1..Len(repo') : longer[c] = repo'[c][f].lines
    <3> DEFINE history == repo'
    <3>1. history \in Seq([Files -> Contents]) /\ longer = LinesOf(history, f)
      BY <1>2 DEF Past
    <3> HIDE DEF history, longer
    <3>2. /\ longer \in Seq(Seq(LineTexts)) /\ Len(longer) = Len(history)
          /\ \A c \in 1..Len(history) : longer[c] = history[c][f].lines
      BY ONLY <2>1, <3>1, LinesFacts
    <3> QED BY <3>2 DEF history
  <2> HIDE DEF past, longer
  <2>5. ASSUME NEW c \in 1..Len(past)
        PROVE  longer[c] = past[c]
    <3>1. c \in 1..Len(repo) /\ c \in 1..Len(repo')
      BY <1>1, <1>2, <2>3
    <3>2. longer[c] = repo'[c][f].lines /\ past[c] = repo[c][f].lines
      BY <2>3, <2>4, <3>1
    <3>3. repo'[c] = repo[c]
      BY <1>2, <3>1
    <3> QED BY <3>2, <3>3
  <2>6. Setting(longer, commits, finalized)
    BY <1>1, <1>2, <2>4 DEF Setting, Shapes
  <2> HIDE DEF s
  <2>7. FileSettled(s, longer, commits, finalized)
    BY ONLY <2>2, <2>5, <2>6, LongerStep
  <2> QED BY <1>1, <1>3, <2>7 DEF FileOK, Applied, indexerVars, s, longer
<1> QED BY <1>4, <1>5, <1>6, <1>7, <1>8 DEF IndexInv

\* A run starts.
LEMMA StartRunKeeps ==
  ASSUME IndexInv, StartRun
  PROVE  IndexInv'
<1>1. /\ Shapes /\ Control /\ phase = "idle" /\ phase' = "walking" /\ target' = Len(repo)
      /\ UNCHANGED <<repo, commits, todo, patching, left, index, ever, ignored, finalized, lost>>
      /\ Len(repo) \in Nat /\ Len(repo) > 0
  BY DEF StartRun, IndexInv, Shapes
<1>2. todo = {} /\ patching = {}
  BY <1>1 DEF Control
<1>3. Shapes'
  BY <1>1 DEF Shapes
<1>4. Control'
  BY <1>1, <1>2 DEF Control, Shapes
<1>5. \A f \in Files : DocumentOK(f)'
  BY <1>1 DEF DocumentOK, IndexInv
<1>6. LookupMatchesDocuments'
  BY <1>1 DEF LookupMatchesDocuments, IndexInv
<1>7. ASSUME NEW f \in Searchable' PROVE FileOK(f)'
  <2>1. FileOK(f) /\ Past(f)' = Past(f) /\ Applied(f)' = Applied(f)
    BY <1>1, <1>7 DEF Searchable, IndexInv, Past, Applied
  <2> QED BY <1>1, <1>2, <2>1 DEF FileOK
<1> QED BY <1>3, <1>4, <1>5, <1>6, <1>7 DEF IndexInv

\* A commit is recorded, and every file has its part to be applied.
LEMMA RecordCommitKeeps ==
  ASSUME IndexInv, RecordCommit
  PROVE  IndexInv'
<1>1. /\ Shapes /\ Control /\ phase = "walking" /\ todo = {} /\ commits < target
      /\ commits' = commits + 1 /\ todo' = Files
      /\ UNCHANGED <<repo, phase, target, patching, left, index, ever, ignored, finalized, lost>>
      /\ commits \in Nat /\ target \in Nat /\ finalized \in Nat
      /\ finalized <= commits /\ target <= Len(repo) /\ Len(repo) \in Nat
  BY DEF RecordCommit, IndexInv, Shapes
<1>2. patching = {}
  BY <1>1 DEF Shapes
<1>3. Shapes'
  BY <1>1, <1>2 DEF Shapes
<1>4. Control'
  BY <1>1, <1>2 DEF Control
<1>5. ASSUME NEW f \in Files PROVE DocumentOK(f)'
  <2>1. DocumentOK(f) /\ 0..(commits - 1) \subseteq 0..(commits' - 1)
    BY <1>1 DEF IndexInv
  <2> QED BY <1>1, <2>1 DEF DocumentOK
<1>6. LookupMatchesDocuments'
  BY <1>1 DEF LookupMatchesDocuments, IndexInv
<1>7. ASSUME NEW f \in Searchable' PROVE FileOK(f)'
  <2>1. FileOK(f) /\ Past(f)' = Past(f)
    BY <1>1, <1>7 DEF Searchable, IndexInv, Past
  <2>2. f \in Files /\ Applied(f) = commits /\ Applied(f)' = commits
    BY <1>1, <1>7 DEF Searchable, Applied
  <2> QED BY <1>1, <1>2, <2>1, <2>2 DEF FileOK
<1> QED BY <1>3, <1>4, <1>5, <1>6, <1>7 DEF IndexInv

\* What a completed run does to each file.
LEMMA FinishedFile ==
  ASSUME IndexInv, FinishRun
  PROVE  /\ Shapes /\ Control /\ patching = {} /\ todo = {} /\ commits = target
         /\ commits \in Nat /\ commits > 0 /\ finalized \in Nat /\ finalized <= commits
         /\ commits <= Len(repo) /\ Len(repo) \in Nat
         /\ \A f \in Files : index'[f] = Finalized(index[f], commits - 1)
         /\ index' = [f \in Files |-> index'[f]]
         /\ \A f \in Searchable : FileSettled(index[f], Past(f), commits, finalized)
<1>1. /\ Shapes /\ Control /\ patching = {} /\ todo = {} /\ commits = target
      /\ commits \in Nat /\ commits > 0 /\ finalized \in Nat /\ finalized <= commits
      /\ commits <= Len(repo) /\ Len(repo) \in Nat
  BY DEF FinishRun, IndexInv, Shapes, Control
<1>2. \A f \in Files : index'[f] = Finalized(index[f], commits - 1)
  BY DEF FinishRun, Finalized, CommitIndex
<1>3. index' = [f \in Files |-> index'[f]]
  BY DEF FinishRun
<1>4. \A f \in Searchable : FileSettled(index[f], Past(f), commits, finalized)
  BY <1>1 DEF IndexInv, FileOK, Applied
<1> QED BY <1>1, <1>2, <1>3, <1>4

\* A run completes.
LEMMA FinishRunKeeps ==
  ASSUME IndexInv, FinishRun
  PROVE  IndexInv'
<1>1. /\ Shapes /\ Control /\ patching = {} /\ todo = {} /\ commits = target
      /\ commits \in Nat /\ commits > 0 /\ finalized \in Nat /\ finalized <= commits
      /\ \A f \in Files : index'[f] = Finalized(index[f], commits - 1)
      /\ index' = [f \in Files |-> index'[f]]
      /\ \A f \in Searchable : FileSettled(index[f], Past(f), commits, finalized)
  BY FinishedFile
<1>2. /\ phase' = "idle" /\ finalized' = commits
      /\ UNCHANGED <<repo, commits, target, todo, patching, left, ever, ignored, lost>>
  BY DEF FinishRun
<1>3. Shapes'
  BY <1>1, <1>2 DEF Shapes
<1>4. Control'
  BY <1>1, <1>2 DEF Control
<1>5. \A f \in Files :
        /\ DocumentOK(f) /\ StateOK(index'[f])
        /\ DOMAIN index'[f].document.words = DOMAIN index[f].document.words
        /\ index'[f].document.doc_modified_commits = index[f].document.doc_modified_commits
        /\ LiveHasBits(index[f].document) => LiveHasBits(index'[f].document)
  BY <1>1, FinalTouch DEF IndexInv, DocumentOK
<1>6. \A f \in Files : DocumentOK(f)'
  BY <1>2, <1>5 DEF DocumentOK
<1>7. LookupMatchesDocuments'
  BY <1>2, <1>5 DEF LookupMatchesDocuments, IndexInv
<1>8. ASSUME NEW f \in Searchable' PROVE FileOK(f)'
  <2>1. f \in Searchable /\ f \in Files /\ Past(f)' = Past(f)
    BY <1>2, <1>8 DEF Searchable, Past
  <2> DEFINE s == index[f]
             past == Past(f)
             u == Finalized(s, commits - 1)
  <2>2. FileSettled(s, past, commits, finalized) /\ index'[f] = u
    BY <1>1, <2>1
  <2> HIDE DEF s, past
  <2>3. FileSettled(u, past, commits, commits)
    BY ONLY <1>1, <2>2, FinalStep
  <2> QED BY <1>1, <1>2, <2>1, <2>2, <2>3 DEF FileOK, Applied, past
<1> QED BY <1>3, <1>4, <1>6, <1>7, <1>8 DEF IndexInv

\* A run ends early.
LEMMA AbandonRunKeeps ==
  ASSUME IndexInv, AbandonRun
  PROVE  IndexInv'
<1>1. /\ Shapes /\ Control /\ patching = {} /\ phase' = "idle" /\ todo' = {}
      /\ UNCHANGED <<repo, target, patching, left, finalized>>
      /\ commits \in Nat /\ commits <= Len(repo) /\ Len(repo) \in Nat /\ finalized \in Nat
  BY DEF AbandonRun, IndexInv, Shapes
<1>2. CASE finalized = 0
  <2>1. /\ commits' = 0 /\ index' = [f \in Files |-> Untracked]
        /\ ever' = [w \in Words |-> {}] /\ ignored' = {} /\ lost' = {}
    BY <1>2 DEF AbandonRun
  <2>2. Shapes'
    BY <1>1, <1>2, <2>1 DEF Shapes
  <2>3. Control'
    BY <1>1 DEF Control
  <2>4. \A f \in Files : index'[f] = Untracked
    BY <2>1
  <2>5. \A f \in Files : DocumentOK(f)'
    BY <2>4, UntrackedFacts DEF DocumentOK
  <2>6. LookupMatchesDocuments'
    BY <2>1, <2>4, UntrackedFacts DEF LookupMatchesDocuments
  <2>7. ASSUME NEW f \in Searchable' PROVE FileOK(f)'
    <3>1. f \in Files /\ Past(f)' = Past(f) /\ Applied(f)' = 0
      BY <1>1, <2>1, <2>7 DEF Searchable, Past, Applied
    <3>2. Setting(Past(f), 0, 0)
      BY <1>1, <3>1, PastFacts DEF Setting, Shapes
    <3> QED BY <1>1, <1>2, <2>4, <3>1, <3>2, UntrackedFacts DEF FileOK
  <2> QED BY <2>2, <2>3, <2>5, <2>6, <2>7 DEF IndexInv
<1>3. CASE finalized # 0
  <2>1. /\ lost' = lost \cup todo /\ UNCHANGED <<commits, index, ever, ignored>>
    BY <1>3 DEF AbandonRun
  <2>2. Shapes'
    BY <1>1, <2>1 DEF Shapes
  <2>3. Control'
    BY <1>1 DEF Control
  <2>4. \A f \in Files : DocumentOK(f)'
    BY <2>1 DEF DocumentOK, IndexInv
  <2>5. LookupMatchesDocuments'
    BY <2>1 DEF LookupMatchesDocuments, IndexInv
  <2>6. ASSUME NEW f \in Searchable' PROVE FileOK(f)'
    <3>1. /\ f \in Searchable /\ f \notin todo /\ Past(f)' = Past(f)
      BY <1>1, <2>1, <2>6 DEF Searchable, Past
    <3>2. FileOK(f) /\ Applied(f) = commits /\ Applied(f)' = commits
      BY <1>1, <2>1, <3>1 DEF IndexInv, Applied
    <3> QED BY <1>1, <2>1, <3>1, <3>2 DEF FileOK
  <2> QED BY <2>2, <2>3, <2>4, <2>5, <2>6 DEF IndexInv
<1> QED BY <1>2, <1>3

\* Every step preserves the invariant.
LEMMA EveryStep ==
  ASSUME IndexInv, [Next]_vars
  PROVE  IndexInv'
<1>1. ASSUME NEW tree \in [Files -> Contents], Commit(tree) PROVE IndexInv'
  BY <1>1, CommitKeeps
<1>2. CASE StartRun
  BY <1>2, StartRunKeeps
<1>3. CASE RecordCommit
  BY <1>3, RecordCommitKeeps
<1>4. ASSUME NEW f \in Files, IndexFile(f) PROVE IndexInv'
  BY <1>4, IndexFileStep, FileKeeps
<1>5. CASE FinishRun
  BY <1>5, FinishRunKeeps
<1>6. CASE AbandonRun
  BY <1>6, AbandonRunKeeps
<1>7. CASE UNCHANGED vars
  <2>1. \A f : Past(f)' = Past(f) /\ Applied(f)' = Applied(f)
    BY <1>7 DEF vars, indexerVars, Past, Applied
  <2>2. Shapes' /\ Control' /\ LookupMatchesDocuments' /\ \A f \in Files : DocumentOK(f)'
    BY <1>7 DEF vars, indexerVars, IndexInv, Shapes, Control, LookupMatchesDocuments, DocumentOK,
                Tree, PrevTree
  <2>3. \A f \in Searchable' : FileOK(f)'
    BY <1>7, <2>1 DEF vars, indexerVars, IndexInv, Searchable, FileOK
  <2> QED BY <2>2, <2>3 DEF IndexInv
<1> QED BY <1>1, <1>2, <1>3, <1>4, <1>5, <1>6, <1>7 DEF Next

\* The invariant holds at all times: each searchable file is in step with the history,
\* hunk by hunk, each run where it should be, and lookup and documents agree.
THEOREM IndexInvariant == Spec => []IndexInv
BY Started, EveryStep, PTL DEF Spec

-----------------------------------------------------------------------------
(* What follows from the invariant.                                        *)

\* The invariant implies the type invariant,
LEMMA InvTypes ==
  ASSUME IndexInv
  PROVE  TypeOK
<1>1. Shapes /\ \A f \in Files : DocumentOK(f)
  BY DEF IndexInv
<1>2. \A c \in DOMAIN repo : repo[c] \in [Files -> Contents]
  BY <1>1 DEF Shapes
<1>3. \A f \in Files : TrackerShape(index[f].tracker, 0..(MaxCommits - 1))
  BY <1>1 DEF DocumentOK, StateOK, CommitIndexes
<1> QED BY <1>1, <1>2, <1>3 DEF TypeOK, Shapes, DocumentOK

\* The lines of a searchable file, and what its index says of them.
LEMMA CurrentFacts ==
  ASSUME IndexInv, NEW f \in Searchable
  PROVE  /\ Follows(index[f], CurrentLines(f))
         /\ CurrentLines(f) \in Seq(LineTexts)
         /\ Marked(index[f].document, Past(f), Applied(f))
         /\ Len(Blame(index[f].tracker)) = TotalLines(index[f].tracker)
<1>1. f \in Files /\ Shapes /\ Control /\ FileOK(f)
  BY DEF IndexInv, Searchable
<1>2. Len(Blame(index[f].tracker)) = TotalLines(index[f].tracker)
  BY <1>1, BlameType DEF IndexInv, DocumentOK, StateOK
<1>3. CASE f \in patching
  <2>1. commits > 1 /\ f \in todo
    BY <1>1, <1>3 DEF Control, Shapes
  <2>2. FileArguments(index[f], Past(f), commits - 1, finalized, left) /\ Applied(f) = commits - 1
    BY <1>1, <1>3, <2>1 DEF FileOK, Applied
  <2>3. /\ LinesAt(Past(f), commits - 1) = PrevTree[f].lines
        /\ Past(f)[(commits - 1) + 1] = Tree[f].lines
    BY <1>1, <2>1, CommitFacts
  <2>4. CurrentLines(f) = Halfway(PrevTree[f].lines, Tree[f].lines, left)
    BY <1>3 DEF CurrentLines, Halfway
  <2>5. CurrentLines(f) \in Seq(LineTexts)
    BY <2>2, <2>3, <2>4, HalfwayFacts DEF FileArguments
  <2>6. Follows(index[f], CurrentLines(f)) /\ Marked(index[f].document, Past(f), commits - 1)
    BY <2>2, <2>3, <2>4 DEF FileArguments, Amid
  <2> QED BY <1>2, <2>2, <2>5, <2>6
<1>4. CASE f \notin patching
  <2>1. FileSettled(index[f], Past(f), Applied(f), finalized)
    BY <1>1, <1>4 DEF FileOK
  <2>2. Applied(f) \in 0..Len(repo)
    BY <2>1, <1>1, PastFacts DEF FileSettled, Setting
  <2>3. CurrentLines(f) = LinesAt(Past(f), Applied(f))
    <3>1. CASE Applied(f) = 0
      BY <1>4, <3>1 DEF CurrentLines, LinesAt
    <3>2. CASE Applied(f) # 0
      <4>1. Past(f)[Applied(f)] = repo[Applied(f)][f].lines
        BY <1>1, <2>2, <3>2, PastFacts
      <4> QED BY <1>4, <3>2, <4>1 DEF CurrentLines, LinesAt
    <3> QED BY <3>1, <3>2
  <2>4. CurrentLines(f) \in Seq(LineTexts)
    BY <2>1, <2>3, SettingFacts DEF FileSettled
  <2>5. Follows(index[f], CurrentLines(f)) /\ Marked(index[f].document, Past(f), Applied(f))
    BY <2>1, <2>3 DEF FileSettled, Settled
  <2> QED BY <1>2, <2>4, <2>5
<1> QED BY <1>3, <1>4

\* that histories and keys are those of the current lines,
LEMMA InvBlame ==
  ASSUME IndexInv
  PROVE  HistoryIsBlame /\ KeysAreUnique
<1>1. ASSUME NEW f \in Searchable
      PROVE  /\ Len(Blame(index[f].tracker)) = Len(CurrentLines(f))
             /\ \A w \in Words :
                  IndexOf(index[f].document, w).word_history =
                    {Blame(index[f].tracker)[i] : i \in {j \in DOMAIN CurrentLines(f) : w \in CurrentLines(f)[j]}}
             /\ IsInjective(Blame(index[f].tracker))
  <2>1. /\ Follows(index[f], CurrentLines(f)) /\ CurrentLines(f) \in Seq(LineTexts)
        /\ Len(Blame(index[f].tracker)) = TotalLines(index[f].tracker)
    BY CurrentFacts
  <2>2. DOMAIN Blame(index[f].tracker) = 1..Len(CurrentLines(f))
    BY <2>1 DEF Follows, Blame
  <2>3. IsInjective(Blame(index[f].tracker))
    BY <2>1, <2>2 DEF Follows, IsInjective
  <2> QED BY <2>1, <2>3 DEF Follows, History, KeysWith
<1> QED BY <1>1 DEF HistoryIsBlame, KeysAreUnique

\* that changes are marked,
LEMMA InvMarked ==
  ASSUME IndexInv
  PROVE  ChangesAreMarked
<1>1. ASSUME NEW f \in Searchable, NEW c \in 1..(Applied(f) - 1),
             repo[c + 1][f].lines # repo[c][f].lines
      PROVE  c \in index[f].document.doc_modified_commits
  <2>1. /\ Marked(index[f].document, Past(f), Applied(f)) /\ f \in Files /\ Shapes
    BY CurrentFacts DEF IndexInv, Searchable
  <2>2. commits \in Nat /\ commits <= Len(repo) /\ Len(repo) \in Nat
    BY <2>1 DEF Shapes
  <2>3. c \in 1..Len(repo) /\ c + 1 \in 1..Len(repo)
    BY <2>2 DEF Applied
  <2>4. Past(f)[c] = repo[c][f].lines /\ Past(f)[c + 1] = repo[c + 1][f].lines
    BY <2>1, <2>3, PastFacts
  <2> QED BY <1>1, <2>1, <2>4 DEF Marked
<1> QED BY <1>1 DEF ChangesAreMarked

\* and that the lookup and the bitmaps are there for every word.
LEMMA InvLookup ==
  ASSUME IndexInv
  PROVE  LookupMatchesDocuments /\ LiveWordsHaveBits
BY DEF IndexInv, DocumentOK, LiveHasBits, LiveWordsHaveBits, History, Bitmap, Bits

\* The variables of the indexer keep their types; every tracker stays well formed, that of a
\* file whose changes were lost too (index_history, index_diff).
THEOREM TypeCorrect == Spec => []TypeOK
BY IndexInvariant, InvTypes, PTL

\* Hunk by hunk, a tracker has one key per line of the file and a word's history the keys
\* of exactly the lines that contain it (index_git_delta, add_lines, delete_lines).
THEOREM HistoryFollowsFile == Spec => []HistoryIsBlame
BY IndexInvariant, InvBlame, PTL

\* No key occurs twice in a file, however lines were added, deleted and added again, so
\* remove_words never takes a word from a line that stays.
THEOREM KeysStayUnique == Spec => []KeysAreUnique
BY IndexInvariant, InvBlame, PTL

\* word_to_file_id_ever_contained names a file for a word exactly when the file's document
\* has the word (add_new_lines updates both).
THEOREM LookupIsExact == Spec => []LookupMatchesDocuments
BY IndexInvariant, InvLookup, PTL

\* A word with history has a bit, so the unwrap in remove_document never fails.
THEOREM LiveWordsKeepBits == Spec => []LiveWordsHaveBits
BY IndexInvariant, InvLookup, PTL

\* Every commit that changed the lines of a searchable file is in the document's
\* doc_modified_commits, where a search looks.
THEOREM ChangesStayMarked == Spec => []ChangesAreMarked
BY IndexInvariant, InvMarked, PTL

-----------------------------------------------------------------------------
(* The refinement: each action is a step of the promise, or changes nothing it sees. *)

\* What the promise sees of an index.
Contained(history) ==
  [c \in DOMAIN history |-> [f \in Files |-> WordsIn(history[c][f].lines)]]

Published(f, w) == Bits(f, w) \cap 0..(finalized - 1)

\* What is found of f stays as it is.
LEMMA SameFound ==
  ASSUME NEW f \in Files, KeepsPast(index[f], index'[f], finalized), finalized' = finalized
  PROVE  \A w \in Words : Published(f, w)' = Published(f, w)
BY DEF KeepsPast, SameBelow, Published, Bits, Bitmap

GivesUp ==
  /\ repo' = repo /\ finalized' = finalized
  /\ ignored \cup lost \subseteq ignored' \cup lost'
  /\ \A f \in Searchable' : \A w \in Words : Published(f, w)' = Published(f, w)

\* What changes for no searchable file is a step of the promise.
LEMMA GiveUpStep ==
  ASSUME GivesUp
  PROVE  Promise!GiveUp
BY DEF GivesUp, Promise!GiveUp, Published, Searchable

\* Applying a hunk or a file changes nothing that is published of a searchable file.
LEMMA IndexFileGivesUp ==
  ASSUME IndexInv, NEW f \in Files, IndexFile(f)
  PROVE  GivesUp
<1>1. Ready(f) /\ FileStep(f)
  BY IndexFileStep
<1>2. /\ UNCHANGED <<repo, commits, target, finalized>>
      /\ ignored' \in {ignored, ignored \cup {f}} /\ lost' \in {lost, lost \cup {f}}
  BY <1>1 DEF FileStep
<1>3. PICK u, words :
        /\ Becomes(f, u, words)
        /\ \/ DoneWith(f) /\ Applies(f, u)
           \/ UNCHANGED <<phase, todo, ignored, lost>> /\ AppliesTo(f, u, left')
  BY <1>1 DEF FileStep
<1>4. index'[f] = u /\ \A g \in Files \ {f} : index'[g] = index[g]
  BY <1>1, <1>3 DEF Becomes, Ready, Shapes
<1>5. ASSUME NEW g \in Searchable' PROVE KeepsPast(index[g], index'[g], finalized)
  <2>1. g \in Files /\ g \notin ignored' /\ g \notin lost'
    BY <1>5 DEF Searchable
  <2>2. CASE g # f
    BY <1>4, <2>1, <2>2, SamePast
  <2>3. CASE g = f
    BY <1>3, <1>4, <2>1, <2>3 DEF Applies, AppliesTo
  <2> QED BY <2>2, <2>3
<1>6. \A g \in Searchable' : \A w \in Words : Published(g, w)' = Published(g, w)
  BY <1>2, <1>5, SameFound DEF Searchable
<1> QED BY <1>2, <1>6 DEF GivesUp

\* The end of a run publishes the commits applied, if there are any new ones.
LEMMA FinishRunFile ==
  ASSUME IndexInv, FinishRun, NEW f \in Searchable, NEW w \in Words
  PROVE  /\ Published(f, w)' \cap 0..(finalized - 1) = Published(f, w)
         /\ \A c \in Published(f, w)' : c < commits /\ c \in Nat /\ Has(Past(f), w, c)
         /\ \A c \in finalized..(commits - 1) :
              Has(Past(f), w, c) /\ (c = 0 \/ ~ Has(Past(f), w, c - 1)) => c \in Published(f, w)'
         /\ Has(Past(f), w, commits - 1) => commits - 1 \in Published(f, w)'
<1> DEFINE s == index[f]
           past == Past(f)
           n == commits
           F == finalized
           u == Finalized(s, n - 1)
           A == Bitmap(u.document, w)
           B == Bitmap(s.document, w)
<1>1. /\ FileSettled(s, past, n, F) /\ n > 0 /\ n \in Nat /\ F \in Nat /\ F <= n
      /\ f \in Files /\ index'[f] = u /\ finalized' = n
  BY FinishedFile DEF Searchable, FinishRun
<1>2. Published(f, w)' = A \cap 0..(n - 1) /\ Published(f, w) = B \cap 0..(F - 1)
  BY <1>1 DEF Published, Bits, Bitmap
<1>3. /\ B \subseteq 0..(n - 1) /\ BitsFit(B, w \in WordsIn(LinesAt(past, n)), past, w, n, F)
  BY <1>1 DEF FileSettled, Settled
<1> HIDE DEF s, past, n, F
<1>4. /\ FileSettled(u, past, n, n) /\ KeepsPast(s, u, F)
      /\ \A v \in Words : /\ Bitmap(s.document, v) \subseteq Bitmap(u.document, v)
                          /\ Has(past, v, n - 1) => n - 1 \in Bitmap(u.document, v)
  BY ONLY <1>1, FinalStep
<1>5. /\ SameBelow(A, B, F) /\ B \subseteq A
      /\ Has(past, w, n - 1) => n - 1 \in A
      /\ A \subseteq 0..(n - 1) /\ \A c \in A : Has(past, w, c)
  BY <1>4 DEF KeepsPast, FileSettled, Settled, BitsFit
<1> HIDE DEF u, A, B
<1>6. Published(f, w)' = A /\ A \cap 0..(F - 1) = B \cap 0..(F - 1)
  BY <1>2, <1>5 DEF SameBelow
<1>7. \A c \in A : c < n /\ c \in Nat /\ Has(past, w, c)
  BY <1>1, <1>5
<1>8. \A c \in F..(n - 1) : Has(past, w, c) /\ (c = 0 \/ ~ Has(past, w, c - 1)) => c \in A
  BY <1>3, <1>5 DEF BitsFit
<1> QED BY <1>2, <1>5, <1>6, <1>7, <1>8 DEF n, F, past

\* The end of a run publishes, or changes nothing that is published.
LEMMA FinishRunStep ==
  ASSUME IndexInv, FinishRun
  PROVE  Promise!Next
<1>1. /\ Shapes /\ commits \in Nat /\ commits > 0 /\ finalized \in Nat /\ finalized <= commits
      /\ commits <= Len(repo) /\ Len(repo) \in Nat
      /\ finalized' = commits /\ repo' = repo /\ ignored' = ignored /\ lost' = lost
  BY FinishedFile DEF FinishRun
<1>2. CASE finalized = commits
  <2>1. ASSUME NEW f \in Searchable', NEW w \in Words
        PROVE  Published(f, w)' = Published(f, w)
    <3>1. f \in Searchable
      BY <1>1, <2>1 DEF Searchable
    <3>2. Published(f, w)' \cap 0..(finalized - 1) = Published(f, w)
      BY <3>1, FinishRunFile
    <3>3. Published(f, w)' \subseteq 0..(finalized - 1)
      BY <1>1, <1>2 DEF Published
    <3> QED BY <3>2, <3>3
  <2>2. GivesUp
    BY <1>1, <1>2, <2>1 DEF GivesUp
  <2> QED BY <2>2, GiveUpStep DEF Promise!Next
<1>3. CASE finalized < commits
  <2>1. ASSUME NEW f \in Searchable, NEW w \in Words
        PROVE  /\ Promise!PastUnchanged(f, w) /\ Promise!FoundWherePresent(f, w)
               /\ Promise!IntroductionsFound(f, w) /\ Promise!HeadFound(f, w)
    <3>1. f \in Files
      BY DEF Searchable
    <3>2. \A c \in 0..(commits - 1) :
            Has(Past(f), w, c) <=> w \in WordsIn(repo[c + 1][f].lines)
      <4>1. \A c \in 0..(commits - 1) : c + 1 \in 1..Len(repo)
        BY <1>1
      <4>2. \A c \in 0..(commits - 1) : Past(f)[c + 1] = repo[c + 1][f].lines
        BY <1>1, <3>1, <4>1, PastFacts
      <4> QED BY <4>2 DEF Has
    <3>3. \A c \in 0..(commits - 1) : Promise!Contains(f, w, c) <=> Has(Past(f), w, c)
      <4>1. \A c \in 0..(commits - 1) : c + 1 \in DOMAIN repo
        BY <1>1 DEF Shapes
      <4> QED BY <3>1, <3>2, <4>1 DEF Promise!Contains
    <3> DEFINE found == Published(f, w)
               new == Published(f, w)'
    <3>4. /\ new \cap 0..(finalized - 1) = found
          /\ \A c \in new : c < commits /\ c \in Nat /\ Has(Past(f), w, c)
          /\ \A c \in finalized..(commits - 1) :
               Has(Past(f), w, c) /\ (c = 0 \/ ~ Has(Past(f), w, c - 1)) => c \in new
          /\ Has(Past(f), w, commits - 1) => commits - 1 \in new
      BY FinishRunFile
    <3>5. new = Bits(f, w)' \cap 0..(finalized' - 1) /\ found = Bits(f, w) \cap 0..(finalized - 1)
      BY DEF Published
    <3> HIDE DEF new, found
    <3>6. Promise!PastUnchanged(f, w)
      BY <3>1, <3>4, <3>5 DEF Promise!PastUnchanged
    <3>7. \A c \in new : c < finalized' /\ Promise!Contains(f, w, c)
      BY <1>1, <3>3, <3>4
    <3>8. Promise!FoundWherePresent(f, w)
      BY <3>1, <3>5, <3>7 DEF Promise!FoundWherePresent
    <3>9. \A c \in finalized..(finalized' - 1) :
            Promise!Contains(f, w, c) /\ (c = 0 \/ ~ Promise!Contains(f, w, c - 1)) => c \in new
      BY <1>1, <3>3, <3>4
    <3>10. Promise!IntroductionsFound(f, w)
      BY <3>1, <3>5, <3>9 DEF Promise!IntroductionsFound
    <3>11. Promise!Contains(f, w, finalized' - 1) => finalized' - 1 \in new
      BY <1>1, <3>3, <3>4
    <3>12. Promise!HeadFound(f, w)
      BY <3>1, <3>5, <3>11 DEF Promise!HeadFound
    <3> QED BY <3>6, <3>8, <3>10, <3>12
  <2>2. Files \ (ignored \cup lost) = Searchable
    BY DEF Searchable
  <2>3. Len(Contained(repo)) = Len(repo)
    BY <1>1 DEF Contained, Shapes
  <2>4. Promise!Publish
    BY <1>1, <1>3, <2>1, <2>2, <2>3 DEF Promise!Publish, Contained
  <2> QED BY <2>4 DEF Promise!Next
<1> QED BY <1>1, <1>2, <1>3

\* A commit extends the history.
LEMMA CommitExtends ==
  ASSUME IndexInv, NEW tree \in [Files -> Contents], Commit(tree)
  PROVE  Promise!Extend
<1>1. /\ repo' = Append(repo, tree) /\ UNCHANGED indexerVars
      /\ repo \in Seq([Files -> Contents]) /\ Len(repo) \in Nat
  BY DEF Commit, IndexInv, Shapes
<1>2. /\ DOMAIN repo = 1..Len(repo) /\ DOMAIN repo' = 1..(Len(repo) + 1)
      /\ \A c \in 1..Len(repo) : repo'[c] = repo[c] /\ c \in 1..(Len(repo) + 1)
  BY <1>1
<1>3. Len(Contained(repo)) = Len(repo)
  BY <1>1, <1>2 DEF Contained
<1>4. Len(Contained(repo')) = Len(repo) + 1
  <2> DEFINE m == Len(repo) + 1
  <2>1. m \in Nat /\ DOMAIN repo' = 1..m
    BY <1>1, <1>2
  <2> HIDE DEF m
  <2>2. Len(Contained(repo')) = m
    BY <2>1 DEF Contained
  <2> QED BY <2>2 DEF m
<1>5. \A c \in 1..Len(repo) : Contained(repo')[c] = Contained(repo)[c]
  BY <1>2 DEF Contained
<1>6. \A f, w : Bits(f, w)' = Bits(f, w)
  BY <1>1 DEF indexerVars, Bits
<1> QED BY <1>1, <1>3, <1>4, <1>5, <1>6 DEF Promise!Extend, Contained, indexerVars

\* A failed run starts over, or gives up the files it left.
LEMMA AbandonRunStep ==
  ASSUME IndexInv, AbandonRun
  PROVE  Promise!Next
<1>1. repo' = repo /\ finalized' = finalized /\ finalized \in Nat
  BY DEF AbandonRun, IndexInv, Shapes
<1>2. CASE finalized = 0
  <2>1. ignored' \cup lost' = {}
    BY <1>2 DEF AbandonRun
  <2>2. \A f, w : Published(f, w)' = {} /\ Published(f, w) = {}
    BY <1>1, <1>2 DEF Published
  <2>3. Promise!StartOver
    BY <1>1, <1>2, <2>1, <2>2 DEF Promise!StartOver, Published
  <2> QED BY <2>3 DEF Promise!Next
<1>3. CASE finalized # 0
  <2>1. GivesUp
    BY <1>1, <1>3 DEF AbandonRun, GivesUp, Published, Bits
  <2> QED BY <2>1, GiveUpStep DEF Promise!Next
<1> QED BY <1>2, <1>3

\* A new indexer has published nothing.
LEMMA PromiseStarted ==
  ASSUME Init
  PROVE  Promise!Init
<1>1. repo = <<>> /\ finalized = 0 /\ ignored \cup lost = {}
  BY DEF Init
<1>2. DOMAIN repo = {}
  BY <1>1
<1>3. Contained(repo) = <<>>
  BY <1>2, SeqEqual DEF Contained
<1>4. \A f, w : Published(f, w) = {}
  BY <1>1 DEF Published
<1> QED BY <1>1, <1>3, <1>4 DEF Promise!Init, Contained, Published

\* Every step of the indexer is a step of the promise, or a stutter.
LEMMA PromiseStep ==
  ASSUME IndexInv, [Next]_vars
  PROVE  [Promise!Next]_Promise!vars
<1>1. ASSUME NEW tree \in [Files -> Contents], Commit(tree) PROVE Promise!Next
  BY <1>1, CommitExtends DEF Promise!Next
<1>2. ASSUME StartRun \/ RecordCommit \/ UNCHANGED vars PROVE UNCHANGED Promise!vars
  BY <1>2 DEF StartRun, RecordCommit, vars, indexerVars, Promise!vars, Bits
<1>3. ASSUME NEW f \in Files, IndexFile(f) PROVE Promise!Next
  BY <1>3, IndexFileGivesUp, GiveUpStep DEF Promise!Next
<1>4. CASE FinishRun
  BY <1>4, FinishRunStep
<1>5. CASE AbandonRun
  BY <1>5, AbandonRunStep
<1> QED BY <1>1, <1>2, <1>3, <1>4, <1>5 DEF Next

\* The indexer keeps the promise of HistoryIndex: commits appear all at once when a run
\* completes, with every introduction of a word and the head found and nothing found where it is
\* not, and what was published stays as it was (index_history, finalize).
THEOREM IndexKeepsPromise == Spec => KeepsPromise
<1>1. Init => Promise!Init
  BY PromiseStarted
<1>2. IndexInv /\ [Next]_vars => [Promise!Next]_Promise!vars
  BY PromiseStep
<1> QED BY <1>1, <1>2, IndexInvariant, PTL DEF Spec, KeepsPromise, Promise!Spec
=============================================================================
