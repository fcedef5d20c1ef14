---------------------------- MODULE SearchProofs ----------------------------
(***************************************************************************)
(* Proofs about GitSearch: what a search says of a file, at any time and   *)
(* for any query, lines, history and failures of runs.                     *)
(*                                                                         *)
(* The invariant of the indexer says which bits a document has.  Searches  *)
(* need three more facts of it: a commit that brings a line into a file    *)
(* has the bits of the line (Fresh), words of published commits are in the *)
(* two lists of words that were made when the run completed (Listed), and  *)
(* while no run has failed since, these lists are up to date (UpToDate).   *)
(*                                                                         *)
(* What a candidate is made of stands in the line: the first trigram where *)
(* the match starts, the last where it ends, all others somewhere in the   *)
(* line (Fits).  Joining the lists of two parts keeps that, so does taking *)
(* three copies for more, and expressions are finite trees, so that their  *)
(* candidates cover all that they match, by induction over their depth     *)
(* (Served, AllServed, InvCover).                                          *)
(***************************************************************************)
EXTENDS GitSearch, IndexerProofs, FiniteSetTheorems

-----------------------------------------------------------------------------
(* What an operation never takes from a document.                          *)

Grows(d, e) ==
  /\ d.doc_modified_commits \subseteq e.doc_modified_commits
  /\ \A w : Bitmap(d, w) \subseteq Bitmap(e, w)

SameList(d, e) == e.all_words = d.all_words

\* Commit c is searched, and has the bits of the lines.
Carries(d, c, lines) ==
  \A line \in lines : c \in d.doc_modified_commits /\ \A w \in line : c \in Bitmap(d, w)

LEMMA CarriesOn ==
  ASSUME NEW d, NEW e, Grows(d, e), NEW c, NEW lines, Carries(d, c, lines)
  PROVE  Carries(e, c, lines)
BY DEF Grows, Carries

\* add_words
LEMMA AddWordsGrows ==
  ASSUME NEW d, IsDocument(d), NEW c, NEW tokens
  PROVE  LET e == AddWords(d, c, tokens)
         IN  /\ Grows(d, e) /\ SameList(d, e) /\ IsDocument(e)
             /\ c \in e.doc_modified_commits
             /\ \A w \in DOMAIN tokens : c \in Bitmap(e, w)
<1> DEFINE e == AddWords(d, c, tokens)
<1>1. /\ IsDocument(e)
      /\ e.doc_modified_commits = d.doc_modified_commits \cup {c}
      /\ \A w \in DOMAIN tokens : Bitmap(e, w) = Bitmap(d, w) \cup {c}
      /\ \A w : w \notin DOMAIN tokens => Bitmap(e, w) = Bitmap(d, w)
  BY AddWordsResult
<1>2. PICK x : e = [d EXCEPT !.words = x, !.doc_modified_commits = @ \cup {c}]
  BY DEF AddWords
<1>3. SameList(d, e)
  BY <1>2, ModifiedDocument DEF Record, SameList
<1> HIDE DEF e
<1> QED BY <1>1, <1>3 DEF Grows, e

\* remove_words
LEMMA RemoveWordsGrows ==
  ASSUME NEW d, IsDocument(d), NEW c, NEW keys
  PROVE  LET e == RemoveWords(d, c, keys)
         IN  Grows(d, e) /\ SameList(d, e) /\ IsDocument(e)
<1> DEFINE e == RemoveWords(d, c, keys)
<1>1. /\ IsDocument(e)
      /\ DOMAIN e.words = DOMAIN d.words
      /\ e.doc_modified_commits = d.doc_modified_commits \cup {c}
      /\ \A w \in DOMAIN keys :
           /\ History(e, w) # {} \/ w \notin DOMAIN d.words => Bitmap(e, w) = Bitmap(d, w)
           /\ History(e, w) = {} /\ w \in DOMAIN d.words => Bitmap(e, w) = Filled(Bitmap(d, w), c)
      /\ \A w : w \notin DOMAIN keys => Bitmap(e, w) = Bitmap(d, w)
  BY RemoveWordsResult
<1>2. PICK x : e = [d EXCEPT !.words = x, !.doc_modified_commits = @ \cup {c}]
  BY DEF RemoveWords
<1>3. SameList(d, e)
  BY <1>2, ModifiedDocument DEF Record, SameList
<1>4. \A bits : bits \subseteq Filled(bits, c)
  BY DEF Filled, InsertRange
<1> HIDE DEF e
<1>5. \A w : Bitmap(d, w) \subseteq Bitmap(e, w)
  BY <1>1, <1>4
<1> QED BY <1>1, <1>3, <1>5 DEF Grows, e

\* remove_document
LEMMA RemoveDocumentGrows ==
  ASSUME NEW d, IsDocument(d), NEW c
  PROVE  Grows(d, RemoveDocument(d, c)) /\ SameList(d, RemoveDocument(d, c))
<1> DEFINE e == RemoveDocument(d, c)
<1>1. /\ e.doc_modified_commits = d.doc_modified_commits \cup {c}
      /\ \A w : Bitmap(e, w) = IF History(d, w) = {} THEN Bitmap(d, w)
                               ELSE InsertRange(Bitmap(d, w), LastBit(Bitmap(d, w)), c)
  BY RemoveDocumentResult
<1>2. PICK x : e = [d EXCEPT !.words = x, !.doc_modified_commits = @ \cup {c}, !.is_deleted = TRUE]
  BY DEF RemoveDocument
<1>3. SameList(d, e)
  <2> DEFINE r == [d EXCEPT !.words = x, !.doc_modified_commits = @ \cup {c}]
  <2>1. e = [r EXCEPT !.is_deleted = TRUE]
    BY <1>2, Zenon
  <2>2. r = Record(x, d.all_words, d.doc_modified_commits \cup {c}, d.is_deleted)
    BY ModifiedDocument
  <2> HIDE DEF r, e
  <2> QED BY <2>1, <2>2 DEF Record, SameList
<1>4. \A bits, m, n : bits \subseteq InsertRange(bits, m, n)
  BY DEF InsertRange
<1> HIDE DEF e
<1> QED BY <1>1, <1>3, <1>4 DEF Grows, e

\* finalize
LEMMA FinalizeGrows ==
  ASSUME NEW d, IsDocument(d), NEW head
  PROVE  LET e == Finalize(d, head)
         IN  Grows(d, e) /\ DOMAIN e.words = DOMAIN d.words /\ e.all_words = <<DOMAIN e.words>>
<1> DEFINE e == Finalize(d, head)
<1>1. /\ DOMAIN e.words = DOMAIN d.words
      /\ e.doc_modified_commits = d.doc_modified_commits
      /\ \A w : /\ head \in Bitmap(d, w) \/ History(d, w) = {} => Bitmap(e, w) = Bitmap(d, w)
                /\ head \notin Bitmap(d, w) /\ History(d, w) # {} =>
                     Bitmap(e, w) = IF Bitmap(d, w) = {} THEN {head}
                                    ELSE InsertRange(Bitmap(d, w), LastBit(Bitmap(d, w)), head + 1)
  BY FinalizeResult
<1>2. PICK x : e = [d EXCEPT !.words = x, !.all_words = <<DOMAIN d.words>>]
  BY DEF Finalize
<1>3. e.all_words = <<DOMAIN d.words>>
  BY <1>2, FinalizedDocument DEF Record
<1>4. \A bits, m, n : bits \subseteq InsertRange(bits, m, n)
  BY DEF InsertRange
<1> HIDE DEF e
<1>5. \A w : Bitmap(d, w) \subseteq Bitmap(e, w)
  BY <1>1, <1>4
<1> QED BY <1>1, <1>3, <1>5 DEF Grows, e

-----------------------------------------------------------------------------
(* What an operation does for the lines it brings into a file.             *)

\* add_new_lines
LEMMA AddGrows ==
  ASSUME NEW s, IsDocument(s.document), NEW c, NEW at, NEW from, NEW lines \in Seq(LineTexts)
  PROVE  LET u == AddNewLines(s, c, at, from, lines)
         IN  /\ Grows(s.document, u.document) /\ SameList(s.document, u.document) /\ u.tracked
             /\ Carries(u.document, c, Range(lines))
<1> DEFINE keys == [i \in DOMAIN lines |-> LineKey(c, from + i - 1)]
           tokens == Tokens(lines, keys)
           u == AddNewLines(s, c, at, from, lines)
<1>1. u.tracked /\ u.document = AddWords(s.document, c, tokens)
  BY DEF AddNewLines
<1>2. DOMAIN tokens = WordsIn(lines)
  BY TokensResult
<1> HIDE DEF tokens, u
<1>3. /\ Grows(s.document, u.document) /\ SameList(s.document, u.document)
      /\ c \in u.document.doc_modified_commits
      /\ \A w \in WordsIn(lines) : c \in Bitmap(u.document, w)
  BY <1>1, <1>2, AddWordsGrows
<1>4. \A line \in Range(lines) : line \subseteq WordsIn(lines)
  BY DEF Range, WordsIn
<1> QED BY <1>1, <1>3, <1>4 DEF Carries, u

\* A hunk of a tracked file, or one without deletions.
LEMMA HunkGrows ==
  ASSUME NEW s, StateOK(s), NEW c, NEW hunk,
         hunk.deleted = <<>> \/ s.tracked, hunk.added \in Seq(LineTexts)
  PROVE  LET u == ApplyHunk(c, hunk, s)
         IN  /\ Grows(s.document, u.document) /\ SameList(s.document, u.document) /\ u.tracked
             /\ Carries(u.document, c, Range(hunk.added))
<1> DEFINE at == hunk.prev_start - 1
           r == RemoveLines(s, c, at, hunk.deleted)
           u == ApplyHunk(c, hunk, s)
<1>1. IsDocument(s.document)
  BY DEF StateOK
<1>2. u = IF hunk.deleted = <<>> THEN AddNewLines(s, c, hunk.prev_start, hunk.new_start - 1, hunk.added)
          ELSE IF hunk.added = <<>> THEN r
          ELSE AddNewLines(r, c, at, hunk.new_start - 1, hunk.added)
  BY DEF ApplyHunk
<1>3. CASE hunk.deleted = <<>>
  BY <1>1, <1>2, <1>3, AddGrows
<1>4. CASE hunk.deleted # <<>>
  <2>1. PICK t, keys : r = [s EXCEPT !.tracker = t, !.document = RemoveWords(s.document, c, keys)]
    BY DEF RemoveLines
  <2>2. r.tracked = s.tracked /\ r.document = RemoveWords(s.document, c, keys)
    BY <2>1 DEF StateOK
  <2> HIDE DEF r
  <2>3. Grows(s.document, r.document) /\ SameList(s.document, r.document) /\ IsDocument(r.document)
    BY <1>1, <2>2, RemoveWordsGrows
  <2>4. CASE hunk.added = <<>>
    <3>1. Range(hunk.added) = {}
      BY <2>4 DEF Range
    <3> QED BY <1>2, <1>4, <2>2, <2>3, <2>4, <3>1 DEF Carries
  <2>5. CASE hunk.added # <<>>
    <3>1. u = AddNewLines(r, c, at, hunk.new_start - 1, hunk.added)
      BY <1>2, <1>4, <2>5
    <3> HIDE DEF u
    <3>2. /\ Grows(r.document, u.document) /\ SameList(r.document, u.document) /\ u.tracked
          /\ Carries(u.document, c, Range(hunk.added))
      BY <2>3, <3>1, AddGrows
    <3> QED BY <2>3, <3>2 DEF Grows, SameList, u
  <2> QED BY <2>4, <2>5
<1> QED BY <1>3, <1>4

-----------------------------------------------------------------------------
(* Lines that commits bring into files.                                    *)

\* The lines after the first `from` that version c has and the one before has not.
Brought(past, c, from) ==
  {past[c + 1][j] : j \in (from + 1)..Len(past[c + 1])} \ Range(LinesAt(past, c))

\* Every commit applied carries the lines it brought; amid a delta, those after the boundary.
Fresh(f) ==
  LET d == index[f].document
  IN  /\ \A c \in 0..(Applied(f) - 1) : Carries(d, c, Brought(Past(f), c, 0))
      /\ f \in patching => Carries(d, commits - 1, Brought(Past(f), commits - 1, left[2]))

\* What an action on f has done for it.
Brings(f) ==
  LET s == index[f]
      u == index'[f]
      n == commits - 1
  IN  /\ Grows(s.document, u.document) /\ SameList(s.document, u.document)
      /\ u = s \/ u.tracked
      /\ \/ todo' = todo \ {f} /\ patching' = {} /\ Carries(u.document, n, Brought(Past(f), n, 0))
         \/ UNCHANGED todo /\ patching' = {f} /\ Carries(u.document, n, Brought(Past(f), n, left'[2]))

\* Lines that are all new, or none.
LEMMA BroughtLines ==
  ASSUME NEW past, NEW c, past[c + 1] \in Seq(LineTexts)
  PROVE  /\ Brought(past, c, 0) \subseteq Range(past[c + 1])
         /\ past[c + 1] = LinesAt(past, c) \/ past[c + 1] = <<>> => Brought(past, c, 0) = {}
<1>1. \A j \in (0 + 1)..Len(past[c + 1]) : j \in DOMAIN past[c + 1]
  OBVIOUS
<1> QED BY <1>1 DEF Brought, Range

\* The document stays as it is.
LEMMA GrowsNot ==
  ASSUME NEW d
  PROVE  Grows(d, d) /\ SameList(d, d)
BY DEF Grows, SameList

\* What is known before an action on a file that stays searchable.
LEMMA BringsFacts ==
  ASSUME IndexInv, NEW f \in Files, IndexFile(f)
  PROVE  /\ Shapes /\ Control /\ f \in todo /\ todo # {} /\ StateOK(index[f]) /\ commits \in Nat
         /\ index = [g \in Files |-> index[g]]
         /\ Past(f)[(commits - 1) + 1] = Tree[f].lines /\ Tree[f].lines \in Seq(LineTexts)
         /\ Tree[f] \in Contents
         /\ commits > 1 => LinesAt(Past(f), commits - 1) = PrevTree[f].lines
<1>1. Shapes /\ Control /\ f \in todo /\ StateOK(index[f])
  BY DEF IndexInv, IndexFile, DocumentOK
<1> QED BY <1>1, CommitFacts DEF Shapes

\* Nothing is done, and nothing was to be done.
LEMMA SkipBrings ==
  ASSUME IndexInv, NEW f \in Files, IndexFile(f), DoneWith(f), UNCHANGED index,
         \/ Tree[f].lines = <<>>
         \/ LinesAt(Past(f), commits - 1) = Tree[f].lines
  PROVE  Brings(f)
<1>1. Brought(Past(f), commits - 1, 0) = {}
  BY BringsFacts, BroughtLines
<1> QED BY <1>1, GrowsNot DEF Brings, Carries, DoneWith

\* All lines of the file are put in.
LEMMA AddBrings ==
  ASSUME IndexInv, NEW f \in Files, IndexFile(f), DoneWith(f), NEW c, c = commits - 1,
         Update(f, AddNewLines(index[f], c, 0, 0, Tree[f].lines), WordsIn(Tree[f].lines))
  PROVE  Brings(f)
<1> DEFINE u == AddNewLines(index[f], c, 0, 0, Tree[f].lines)
<1>1. /\ index = [g \in Files |-> index[g]] /\ StateOK(index[f]) /\ Tree[f].lines \in Seq(LineTexts)
      /\ Past(f)[(commits - 1) + 1] = Tree[f].lines
  BY BringsFacts
<1>2. index'[f] = u
  BY <1>1 DEF Update
<1>3. /\ Grows(index[f].document, u.document) /\ SameList(index[f].document, u.document)
      /\ u.tracked /\ Carries(u.document, c, Range(Tree[f].lines))
  BY <1>1, AddGrows DEF StateOK
<1> HIDE DEF u
<1>4. Carries(u.document, commits - 1, Brought(Past(f), commits - 1, 0))
  BY <1>1, <1>3, BroughtLines DEF Carries
<1> QED BY <1>2, <1>3, <1>4 DEF Brings, DoneWith

\* index_tree
LEMMA IndexTreeBrings ==
  ASSUME IndexInv, NEW f \in Files, IndexFile(f), IndexTree(f), DoneWith(f), f \in Searchable'
  PROVE  Brings(f)
<1>1. commits = 1 /\ Tree[f] \in Contents
  BY BringsFacts DEF IndexTree
<1>2. CASE Update(f, AddNewLines(index[f], 0, 0, 0, Tree[f].lines), WordsIn(Tree[f].lines))
  <2> DEFINE c == 0
  <2>1. c = commits - 1 /\ Update(f, AddNewLines(index[f], c, 0, 0, Tree[f].lines), WordsIn(Tree[f].lines))
    BY <1>1, <1>2
  <2> HIDE DEF c
  <2> QED BY <2>1, AddBrings
<1>3. CASE Tree[f].kind = "binary" /\ ignored' = ignored \cup {f}
  BY <1>3 DEF Searchable
<1>4. CASE Tree[f].kind = "binary" /\ lost' = lost \cup {f}
  BY <1>4 DEF Searchable
<1>5. CASE /\ Tree[f].kind # "text" /\ UNCHANGED <<index, ever, ignored>>
           /\ lost' = IF IsText(Tree[f]) THEN lost \cup {f} ELSE lost
  <2>1. Tree[f].kind \in {"absent", "binary"}
    BY <1>1, <1>5, ContentKind DEF Searchable, IsText
  <2>2. Tree[f].lines = <<>>
    BY <1>1, <2>1, ContentLines
  <2> QED BY <1>5, <2>2, SkipBrings
<1> QED BY <1>2, <1>3, <1>4, <1>5 DEF IndexTree

\* index_diff, of a file without hunks or as a whole.
LEMMA DeltaBrings ==
  ASSUME IndexInv, NEW f \in Files, IndexFile(f), DoneWith(f), f \in Searchable',
         BinaryDelta(f) \/ SkipDelta(f) \/ AddedDelta(f) \/ DeletedDelta(f)
  PROVE  Brings(f)
<1>1. /\ commits > 1 /\ Tree[f] \in Contents
      /\ LinesAt(Past(f), commits - 1) = PrevTree[f].lines
  BY BringsFacts DEF BinaryDelta, SkipDelta, AddedDelta, DeletedDelta, TextDelta
<1>2. CASE BinaryDelta(f)
  BY <1>2 DEF BinaryDelta, Searchable
<1>3. CASE SkipDelta(f)
  <2>1. UNCHANGED index /\ (PrevTree[f] = Tree[f] \/ Tree[f].lines = <<>>)
    BY <1>3 DEF SkipDelta, Searchable
  <2> QED BY <1>1, <2>1, SkipBrings
<1>4. CASE AddedDelta(f)
  BY <1>4, AddBrings DEF AddedDelta, CommitIndex
<1>5. CASE DeletedDelta(f)
  <2>1. index[f].tracked /\ index' = [index EXCEPT ![f] = DeleteEntireFile(@, CommitIndex)]
    BY <1>5 DEF DeletedDelta, Searchable
  <2> DEFINE s == index[f]
             u == DeleteEntireFile(s, CommitIndex)
  <2>2. /\ index = [g \in Files |-> index[g]] /\ StateOK(s)
        /\ Past(f)[(commits - 1) + 1] = Tree[f].lines /\ Tree[f].lines \in Seq(LineTexts)
    BY BringsFacts
  <2>3. index'[f] = u
    BY <2>1, <2>2
  <2>4. u.tracked = s.tracked /\ u.document = RemoveDocument(s.document, CommitIndex)
    BY <2>2, DeleteResult
  <2>5. Tree[f].lines = <<>>
    BY <1>1, <1>5, ContentLines DEF DeletedDelta
  <2>6. Brought(Past(f), commits - 1, 0) = {}
    BY <2>2, <2>5, BroughtLines
  <2> HIDE DEF u
  <2>7. Grows(s.document, u.document) /\ SameList(s.document, u.document)
    BY <2>2, <2>4, RemoveDocumentGrows DEF StateOK
  <2> QED BY <2>1, <2>3, <2>4, <2>6, <2>7 DEF Brings, Carries, DoneWith
<1> QED BY <1>2, <1>3, <1>4, <1>5

\* Kept lines are in the version before.
LEMMA KeptLines ==
  ASSUME NEW past, NEW n, NEW p, NEW q,
         IsBoundary(LineTexts, LinesAt(past, n), past[n + 1], p),
         IsBoundary(LineTexts, LinesAt(past, n), past[n + 1], q),
         MayKeep(LinesAt(past, n), past[n + 1], p, q)
  PROVE  Brought(past, n, p[2]) \subseteq Brought(past, n, q[2])
<1> DEFINE old == LinesAt(past, n)
           new == past[n + 1]
           a == p[1]
           b == p[2]
           x == q[1]
           y == q[2]
<1>1. /\ old \in Seq(LineTexts) /\ new \in Seq(LineTexts)
      /\ a \in Nat /\ b \in Nat /\ x \in 0..Len(old) /\ y \in 0..Len(new)
      /\ Len(old) \in Nat /\ Len(new) \in Nat
  BY DEF IsBoundary, Boundaries
<1>2. a <= x /\ x - a = y - b /\ \A i \in 1..(x - a) : old[a + i] = new[b + i]
  BY DEF MayKeep
<1> HIDE DEF old, new, a, b, x, y
<1>3. ASSUME NEW j \in (b + 1)..Len(new), new[j] \notin Range(old)
      PROVE  j \in (y + 1)..Len(new)
  <2>1. SUFFICES ASSUME j <= y PROVE FALSE
    BY <1>1
  <2>2. j - b \in 1..(x - a) /\ b + (j - b) = j
    BY <1>1, <1>2, <2>1
  <2>3. old[a + (j - b)] = new[j]
    BY <1>2, <2>2
  <2>4. a + (j - b) \in DOMAIN old
    BY <1>1, <1>2, <2>2
  <2> QED BY <1>3, <2>3, <2>4 DEF Range
<1> QED BY <1>3 DEF Brought, old, new, b, y

\* What is after the start of a hunk is the hunk's, or after its end.
LEMMA HunkLines ==
  ASSUME NEW past, NEW n, NEW from \in Nat, NEW to \in 0..Len(past[n + 1]), from <= to,
         past[n + 1] \in Seq(LineTexts)
  PROVE  Brought(past, n, from) \subseteq
           Range(SubSeq(past[n + 1], from + 1, to)) \cup Brought(past, n, to)
<1> DEFINE new == past[n + 1]
           part == SubSeq(new, from + 1, to)
<1>1. new \in Seq(LineTexts) /\ Len(new) \in Nat
  OBVIOUS
<1> HIDE DEF new
<1>2. part \in Seq(LineTexts) /\ Len(part) = to - from /\ \A i \in 1..(to - from) : part[i] = new[from + i]
  BY <1>1 DEF new
<1>3. ASSUME NEW j \in (from + 1)..to
      PROVE  new[j] \in Range(part)
  <2>1. j - from \in 1..(to - from) /\ from + (j - from) = j /\ j - from \in DOMAIN part
    BY <1>1, <1>2
  <2>2. part[j - from] = new[j]
    BY <1>2, <2>1
  <2> QED BY <2>1, <2>2 DEF Range
<1> HIDE DEF part
<1>4. \A j \in (from + 1)..Len(new) : j \in (from + 1)..to \/ j \in (to + 1)..Len(new)
  BY <1>1 DEF new
<1> QED BY <1>3, <1>4 DEF Brought, new, part

\* index_diff, hunk by hunk.
LEMMA ModifiedBrings ==
  ASSUME IndexInv, NEW f \in Files, IndexFile(f), ModifiedDelta(f), f \in Searchable', Fresh(f)
  PROVE  Brings(f)
<1> DEFINE n == commits - 1
           s == index[f]
           d == s.document
           past == Past(f)
           old == LinesAt(past, n)
           new == past[n + 1]
           top == IF f \in patching THEN left ELSE End(old, new)
<1>1. /\ commits > 1 /\ f \in todo /\ StateOK(s) /\ index = [g \in Files |-> index[g]]
      /\ n + 1 = commits /\ CommitIndex = n
      /\ old = PrevTree[f].lines /\ new = Tree[f].lines
      /\ old \in Seq(LineTexts) /\ new \in Seq(LineTexts)
      /\ Len(old) \in Nat /\ Len(new) \in Nat
  BY BringsFacts, CommitFacts DEF ModifiedDelta, TextDelta, CommitIndex
<1>2. PICK at \in Boundaries(old, new), to \in Boundaries(old, new) :
        /\ MayKeep(old, new, to, top)
        /\ at[1] <= to[1] /\ at[2] <= to[2] /\ at # to
        /\ \/ /\ MoreHunks(old, new, at)
              /\ PatchWith(f, HunkBetween(old, new, at, to))
              /\ patching' = {f} /\ left' = at
              /\ UNCHANGED todo
           \/ /\ MayKeep(old, new, Start, at)
              /\ PatchWith(f, HunkBetween(old, new, at, to))
              /\ DoneWith(f)
           \/ PanicOver(f, HunkBetween(old, new, at, to))
  <2> HIDE DEF old, new
  <2> QED BY <1>1 DEF ModifiedDelta
<1>3. /\ IsBoundary(LineTexts, old, new, at) /\ IsBoundary(LineTexts, old, new, to)
      /\ IsBoundary(LineTexts, old, new, Start)
  <2> HIDE DEF old, new
  <2> QED BY <1>1, <1>2 DEF IsBoundary, Boundaries, Start
<1>4. IsBoundary(LineTexts, old, new, top) /\ Carries(d, n, Brought(past, n, top[2]))
  <2>1. CASE f \in patching
    <3>1. left \in Boundaries(old, new)
      <4> HIDE DEF old, new
      <4> QED BY <1>1, <2>1, BringsFacts DEF Control
    <3>2. Carries(d, n, Brought(past, n, left[2]))
      BY <2>1 DEF Fresh
    <3> HIDE DEF old, new
    <3> QED BY <1>1, <2>1, <3>1, <3>2 DEF IsBoundary
  <2>2. CASE f \notin patching
    <3>1. top = <<Len(old), Len(new)>>
      BY <2>2 DEF End
    <3>2. Brought(past, n, Len(new)) = {}
      <4>1. \A j \in (Len(new) + 1)..Len(new) : FALSE
        BY <1>1
      <4> QED BY <4>1 DEF Brought
    <3> HIDE DEF old, new, top
    <3>3. top[2] = Len(new) /\ IsBoundary(LineTexts, old, new, top)
      BY <1>1, <3>1 DEF IsBoundary, Boundaries
    <3> QED BY <3>2, <3>3 DEF Carries
  <2> QED BY <2>1, <2>2
<1>5. Carries(d, n, Brought(past, n, to[2]))
  <2>1. Brought(past, n, to[2]) \subseteq Brought(past, n, top[2])
    <3> HIDE DEF top, n, past
    <3> QED BY <1>2, <1>3, <1>4, KeptLines
  <2> QED BY <1>4, <2>1 DEF Carries
<1> DEFINE hunk == HunkBetween(old, new, at, to)
           u == ApplyHunk(n, hunk, s)
<1>6. CASE PanicOver(f, hunk)
  BY <1>6 DEF PanicOver, Searchable
<1>7. CASE PatchWith(f, hunk)
  <2>1. CanApply(f, hunk) /\ index' = [index EXCEPT ![f] = u]
    <3> HIDE DEF hunk, n
    <3> QED BY <1>1, <1>7 DEF PatchWith, Update, n
  <2>2. index'[f] = u
    <3> HIDE DEF u
    <3> QED BY <1>1, <2>1
  <2>3. hunk.deleted = <<>> \/ s.tracked
    <3> HIDE DEF hunk
    <3> QED BY <2>1 DEF CanApply, CanDelete
  <2>4. hunk.added = SubSeq(new, at[2] + 1, to[2])
    BY DEF HunkBetween
  <2>5. at[2] \in Nat /\ to[2] \in 0..Len(new) /\ at[2] <= to[2]
    <3> HIDE DEF old, new
    <3> QED BY <1>1, <1>2 DEF Boundaries
  <2>6. hunk.added \in Seq(LineTexts)
    <3> HIDE DEF new, hunk
    <3>1. at[2] + 1 \in 1..(Len(new) + 1)
      BY <1>1, <2>5
    <3> QED BY <1>1, <2>4, <2>5, <3>1, SMTT(30)
  <2> HIDE DEF hunk
  <2>7. /\ Grows(d, u.document) /\ SameList(d, u.document) /\ u.tracked
        /\ Carries(u.document, n, Range(hunk.added))
    <3> HIDE DEF n
    <3> QED BY <1>1, <2>3, <2>6, HunkGrows
  <2> HIDE DEF u
  <2>8. Carries(u.document, n, Brought(past, n, at[2]))
    <3>1. Carries(u.document, n, Brought(past, n, to[2]))
      BY <1>5, <2>7, CarriesOn
    <3>2. Brought(past, n, at[2]) \subseteq Range(hunk.added) \cup Brought(past, n, to[2])
      <4> HIDE DEF n, past
      <4> QED BY <1>1, <2>4, <2>5, HunkLines
    <3> QED BY <2>7, <3>1, <3>2 DEF Carries
  <2>9. CASE patching' = {f} /\ left' = at /\ UNCHANGED todo
    BY <2>2, <2>7, <2>8, <2>9 DEF Brings
  <2>10. CASE MayKeep(old, new, Start, at) /\ DoneWith(f)
    <3>1. Brought(past, n, Start[2]) \subseteq Brought(past, n, at[2])
      <4> HIDE DEF n, past
      <4> QED BY <1>3, <2>10, KeptLines
    <3>2. Start[2] = 0
      BY DEF Start
    <3>3. Carries(u.document, n, Brought(past, n, 0))
      BY <2>8, <3>1, <3>2 DEF Carries
    <3> QED BY <2>2, <2>7, <2>10, <3>3 DEF Brings, DoneWith
  <2> QED BY <1>2, <1>6, <2>9, <2>10 DEF hunk
<1> QED BY <1>2, <1>6, <1>7

\* Every action on a file.
LEMMA IndexFileBrings ==
  ASSUME IndexInv, NEW f \in Files, IndexFile(f), f \in Searchable', Fresh(f)
  PROVE  Brings(f)
BY IndexTreeBrings, DeltaBrings, ModifiedBrings DEF IndexFile

-----------------------------------------------------------------------------
(* The invariant.                                                          *)

\* A file without a tracker was never given one.
Begun(f) == index[f].tracked \/ index[f] = Untracked

\* Of the indexer alone.
LinesInv ==
  /\ IndexInv
  /\ \A f \in Searchable : Fresh(f) /\ Begun(f)

\* A word of a published commit is in the words of the index and of the document.
Listed(f) ==
  LET all == index[f].document.all_words
  IN  \A w \in Words : Published(f, w) # {} => w \in all_words /\ all # <<>> /\ w \in all[1]

\* No run has failed since the last that completed, and the documents have listed their words.
UpToDate ==
  finalized = commits =>
    \A f \in Files : index[f].tracked =>
      index[f].document.all_words = <<DOMAIN index[f].document.words>>

\* An answer is that of the index as it is.
Answered ==
  \/ answer = NoAnswer
  \/ Searching /\ \E q \in Queries : answer = AnswerTo(q)

SearchInv ==
  /\ LinesInv
  /\ \A f \in Searchable : Listed(f)
  /\ UpToDate
  /\ Answered

-----------------------------------------------------------------------------
(* Every step of the indexer preserves its part.                           *)

\* Nothing of the file changes.
LEMMA SameFile ==
  ASSUME NEW f, Fresh(f), Begun(f), UNCHANGED <<repo, commits, left>>, index'[f] = index[f],
         f \in todo' <=> f \in todo, f \in patching' => f \in patching
  PROVE  Fresh(f)' /\ Begun(f)'
<1>1. Past(f)' = Past(f) /\ Applied(f)' = Applied(f)
  BY DEF Past, Applied
<1> QED BY <1>1 DEF Fresh, Begun

\* Where there is no hunk half done.
LEMMA FreshIdle ==
  ASSUME NEW f, f \notin patching', NEW n, n = Applied(f)',
         \A c \in 0..(n - 1) : Carries(index'[f].document, c, Brought(Past(f)', c, 0))
  PROVE  Fresh(f)'
BY DEF Fresh

LEMMA LinesStarted ==
  ASSUME Init
  PROVE  LinesInv
<1>1. IndexInv
  BY Started
<1>2. ASSUME NEW f \in Searchable PROVE Fresh(f) /\ Begun(f)
  <2>1. Applied(f) = 0 /\ f \notin patching /\ index[f] = Untracked
    BY <1>2 DEF Init, Applied, Searchable
  <2> QED BY <2>1 DEF Fresh, Begun
<1> QED BY <1>1, <1>2 DEF LinesInv

\* A commit adds to the history.
LEMMA CommitLines ==
  ASSUME LinesInv, NEW tree \in [Files -> Contents], Commit(tree), NEW f \in Searchable
  PROVE  Fresh(f)' /\ Begun(f)'
<1>1. /\ Shapes /\ Control /\ phase = "idle" /\ repo' = Append(repo, tree)
      /\ UNCHANGED <<commits, todo, patching, left, index>> /\ f \in Files
      /\ Fresh(f) /\ Begun(f) /\ patching = {}
  BY DEF LinesInv, IndexInv, Commit, indexerVars, Control, Searchable
<1>2. /\ repo \in Seq([Files -> Contents]) /\ Len(repo) \in Nat
      /\ commits \in Nat /\ commits <= Len(repo)
  BY <1>1 DEF Shapes
<1>3. \A c \in 1..Len(repo) : Past(f)'[c] = Past(f)[c]
  BY <1>1, <1>2 DEF Past, LinesOf
<1>4. ASSUME NEW c \in 0..(Applied(f) - 1)
      PROVE  Brought(Past(f)', c, 0) = Brought(Past(f), c, 0)
  <2>1. c \in Nat /\ c + 1 \in 1..Len(repo) /\ (c # 0 => c \in 1..Len(repo))
    BY <1>2 DEF Applied
  <2> DEFINE past == Past(f)
             longer == Past(f)'
  <2>2. longer[c + 1] = past[c + 1] /\ LinesAt(longer, c) = LinesAt(past, c)
    BY <1>3, <2>1 DEF LinesAt
  <2> HIDE DEF past, longer
  <2>3. Brought(longer, c, 0) = Brought(past, c, 0)
    BY <2>2 DEF Brought
  <2> QED BY <2>3 DEF past, longer
<1>5. Applied(f)' = Applied(f)
  BY <1>1 DEF Applied
<1>6. \A c \in 0..(Applied(f) - 1) : Carries(index'[f].document, c, Brought(Past(f)', c, 0))
  BY <1>1, <1>4 DEF Fresh
<1> QED BY <1>1, <1>5, <1>6, FreshIdle DEF Begun

\* The walk begins, or goes on to the next commit.
LEMMA WalkLines ==
  ASSUME LinesInv, StartRun \/ RecordCommit, NEW f \in Searchable
  PROVE  Fresh(f)' /\ Begun(f)'
<1>1. CASE StartRun
  BY <1>1, SameFile DEF StartRun, LinesInv
<1>2. CASE RecordCommit
  <2>1. /\ f \in Files /\ Fresh(f) /\ Begun(f) /\ todo = {} /\ patching = {} /\ commits \in Nat
        /\ commits' = commits + 1 /\ todo' = Files /\ UNCHANGED <<repo, index, patching>>
    BY <1>2 DEF RecordCommit, LinesInv, IndexInv, Shapes, Searchable
  <2>2. Applied(f) = commits /\ Applied(f)' = commits
    BY <2>1 DEF Applied
  <2>3. Past(f)' = Past(f)
    BY <2>1 DEF Past
  <2>4. \A c \in 0..(commits - 1) : Carries(index'[f].document, c, Brought(Past(f)', c, 0))
    BY <2>1, <2>2, <2>3 DEF Fresh
  <2> QED BY <2>1, <2>2, <2>4, FreshIdle DEF Begun
<1> QED BY <1>1, <1>2

\* A file's part of a commit.
LEMMA IndexFileLines ==
  ASSUME LinesInv, NEW f \in Files, IndexFile(f), NEW g \in Searchable'
  PROVE  Fresh(g)' /\ Begun(g)'
<1>1. Ready(f) /\ FileStep(f)
  BY IndexFileStep DEF LinesInv
<1>2. /\ UNCHANGED <<repo, commits>> /\ g \in Searchable
      /\ Shapes /\ f \in todo /\ patching \subseteq {f} /\ commits \in Nat
      /\ Past(g)' = Past(g)
  BY <1>1 DEF FileStep, Ready, Searchable, Shapes, Past
<1>3. Fresh(g) /\ Begun(g)
  BY <1>2 DEF LinesInv
<1>4. \/ todo' = todo \ {f} /\ patching' = {}
      \/ todo' = todo /\ patching' = {f}
  BY <1>1 DEF FileStep, DoneWith
<1>5. CASE g # f
  <2>1. index'[g] = index[g]
    BY <1>1, <1>2, <1>5 DEF FileStep, Becomes, Shapes, Searchable
  <2>2. g \notin patching' /\ (g \in todo' <=> g \in todo)
    BY <1>4, <1>5
  <2>3. Applied(g)' = Applied(g)
    BY <1>2, <2>2 DEF Applied
  <2>4. \A c \in 0..(Applied(g) - 1) : Carries(index'[g].document, c, Brought(Past(g)', c, 0))
    BY <1>2, <1>3, <2>1 DEF Fresh
  <2>5. Fresh(g)'
    BY <2>2, <2>3, <2>4, FreshIdle
  <2> QED BY <1>3, <2>1, <2>5 DEF Begun
<1>6. CASE g = f
  <2>1. Brings(f)
    BY <1>2, <1>3, <1>6, IndexFileBrings DEF LinesInv
  <2> DEFINE d == index[f].document
             e == index'[f].document
             n == commits - 1
  <2>2. \A c \in 0..(n - 1) : Carries(e, c, Brought(Past(f), c, 0))
    <3>1. \A c \in 0..(n - 1) : Carries(d, c, Brought(Past(f), c, 0))
      BY <1>2, <1>3, <1>6 DEF Fresh, Applied
    <3>2. Grows(d, e)
      BY <2>1 DEF Brings
    <3> QED BY <3>1, <3>2, CarriesOn
  <2>3. Begun(f)'
    BY <1>3, <1>6, <2>1 DEF Brings, Begun
  <2>4. CASE todo' = todo \ {f} /\ patching' = {} /\ Carries(e, n, Brought(Past(f), n, 0))
    <3>1. Applied(f)' = commits
      BY <1>2, <2>4 DEF Applied
    <3>2. \A c \in 0..(commits - 1) : c \in 0..(n - 1) \/ c = n
      BY <1>2
    <3>3. \A c \in 0..(commits - 1) : Carries(e, c, Brought(Past(f)', c, 0))
      BY <1>2, <1>6, <2>2, <2>4, <3>2
    <3> QED BY <1>6, <2>3, <2>4, <3>1, <3>3, FreshIdle
  <2>5. CASE UNCHANGED todo /\ patching' = {f} /\ Carries(e, n, Brought(Past(f), n, left'[2]))
    <3>1. Applied(f)' = n
      BY <1>2, <2>5 DEF Applied
    <3> QED BY <1>2, <1>6, <2>2, <2>3, <2>5, <3>1 DEF Fresh
  <2> QED BY <2>1, <2>4, <2>5 DEF Brings
<1> QED BY <1>5, <1>6

\* What completing a run makes of a document.
LEMMA FinishedDocument ==
  ASSUME IndexInv, FinishRun, NEW f \in Files
  PROVE  LET d == index[f].document
             e == index'[f].document
         IN  /\ Grows(d, e) /\ DOMAIN e.words = DOMAIN d.words
             /\ index'[f].tracked = index[f].tracked
             /\ ~ index[f].tracked => index'[f] = index[f]
             /\ index[f].tracked => e.all_words = <<DOMAIN e.words>>
<1> DEFINE s == index[f]
           u == index'[f]
<1>1. StateOK(s) /\ u = Finalized(s, commits - 1)
  BY FinishedFile DEF IndexInv, DocumentOK
<1> HIDE DEF u
<1>2. /\ u.tracked = s.tracked
      /\ u.document = IF s.tracked THEN Finalize(s.document, commits - 1) ELSE s.document
  BY <1>1, FinalizedResult
<1>3. ~ s.tracked => u = s
  BY <1>1 DEF Finalized
<1>4. CASE s.tracked
  <2>1. IsDocument(s.document) /\ u.document = Finalize(s.document, commits - 1)
    BY <1>1, <1>2, <1>4 DEF StateOK
  <2> HIDE DEF s
  <2> QED BY <1>2, <1>4, <2>1, FinalizeGrows DEF s, u
<1>5. CASE ~ s.tracked
  BY <1>3, <1>5, GrowsNot DEF u
<1> QED BY <1>4, <1>5

\* A run completes.
LEMMA FinishRunLines ==
  ASSUME LinesInv, FinishRun, NEW f \in Searchable
  PROVE  Fresh(f)' /\ Begun(f)'
<1>1. /\ f \in Files /\ Fresh(f) /\ Begun(f) /\ UNCHANGED <<repo, commits, todo, patching>>
      /\ todo = {} /\ patching = {}
  BY FinishedFile DEF LinesInv, FinishRun, Searchable
<1>2. /\ Past(f)' = Past(f) /\ Applied(f)' = Applied(f)
  BY <1>1 DEF Past, Applied
<1>3. /\ Grows(index[f].document, index'[f].document) /\ index'[f].tracked = index[f].tracked
      /\ ~ index[f].tracked => index'[f] = index[f]
  BY <1>1, FinishedDocument DEF LinesInv
<1>4. \A c \in 0..(Applied(f) - 1) : Carries(index'[f].document, c, Brought(Past(f)', c, 0))
  BY <1>1, <1>2, <1>3, CarriesOn DEF Fresh
<1> QED BY <1>1, <1>2, <1>3, <1>4, FreshIdle DEF Begun

\* A run ends early.
LEMMA AbandonRunLines ==
  ASSUME LinesInv, AbandonRun, NEW f \in Searchable'
  PROVE  Fresh(f)' /\ Begun(f)'
<1>1. f \in Files /\ patching = {} /\ todo' = {} /\ UNCHANGED <<repo, patching, left>>
  BY DEF AbandonRun, Searchable
<1>2. CASE finalized = 0
  <2>1. commits' = 0 /\ index'[f] = Untracked
    BY <1>1, <1>2 DEF AbandonRun
  <2>2. Applied(f)' = 0 /\ \A c \in 0..(0 - 1) : FALSE
    BY <1>1, <2>1 DEF Applied
  <2> QED BY <1>1, <2>1, <2>2, FreshIdle DEF Begun
<1>3. CASE finalized # 0
  <2>1. f \in Searchable /\ f \notin todo /\ UNCHANGED <<commits, index>>
    BY <1>3 DEF AbandonRun, Searchable
  <2> QED BY <1>1, <2>1, SameFile DEF LinesInv
<1> QED BY <1>2, <1>3

LEMMA LinesStep ==
  ASSUME LinesInv, [Next]_vars
  PROVE  LinesInv'
<1>1. IndexInv'
  BY EveryStep DEF LinesInv
<1>2. ASSUME NEW f \in Searchable' PROVE Fresh(f)' /\ Begun(f)'
  <2>1. ASSUME NEW tree \in [Files -> Contents], Commit(tree) PROVE Fresh(f)' /\ Begun(f)'
    BY <1>2, <2>1, CommitLines DEF Commit, indexerVars, Searchable
  <2>2. CASE StartRun
    BY <1>2, <2>2, WalkLines DEF StartRun, Searchable
  <2>3. CASE RecordCommit
    BY <1>2, <2>3, WalkLines DEF RecordCommit, Searchable
  <2>4. ASSUME NEW g \in Files, IndexFile(g) PROVE Fresh(f)' /\ Begun(f)'
    BY <1>2, <2>4, IndexFileLines
  <2>5. CASE FinishRun
    BY <1>2, <2>5, FinishRunLines DEF FinishRun, Searchable
  <2>6. CASE AbandonRun
    BY <1>2, <2>6, AbandonRunLines
  <2>7. CASE UNCHANGED vars
    BY <1>2, <2>7, SameFile DEF vars, indexerVars, LinesInv, Searchable
  <2> QED BY <2>1, <2>2, <2>3, <2>4, <2>5, <2>6, <2>7 DEF Next
<1> QED BY <1>1, <1>2 DEF LinesInv

\* The commits that bring lines in are the ones a search finds.
LEMMA LinesAreFound ==
  ASSUME LinesInv
  PROVE  NewLinesAreFound
<1>1. SUFFICES ASSUME NEW f \in Searchable, NEW c \in 0..(Applied(f) - 1),
                      NEW line \in Range(repo[c + 1][f].lines),
                      c = 0 \/ line \notin Range(repo[c][f].lines)
               PROVE  /\ c \in index[f].document.doc_modified_commits
                      /\ \A w \in line : c \in Bits(f, w)
  BY DEF NewLinesAreFound
<1>2. Shapes /\ f \in Files /\ Fresh(f)
  BY DEF LinesInv, IndexInv, Searchable
<1>3. commits \in Nat /\ commits <= Len(repo) /\ Len(repo) \in Nat
  BY <1>2 DEF Shapes
<1>4. c \in Nat /\ c + 1 \in 1..Len(repo) /\ (c # 0 => c \in 1..Len(repo))
  BY <1>3 DEF Applied
<1>5. /\ Past(f)[c + 1] = repo[c + 1][f].lines /\ repo[c + 1][f].lines \in Seq(LineTexts)
      /\ c # 0 => Past(f)[c] = repo[c][f].lines
  BY <1>2, <1>4, PastFacts
<1>6. line \notin Range(LinesAt(Past(f), c))
  BY <1>1, <1>5 DEF LinesAt, Range
<1>7. line \in Brought(Past(f), c, 0)
  <2>1. PICK j \in 1..Len(Past(f)[c + 1]) : line = Past(f)[c + 1][j]
    BY <1>5 DEF Range
  <2>2. j \in (0 + 1)..Len(Past(f)[c + 1])
    BY <2>1
  <2> QED BY <1>6, <2>1, <2>2 DEF Brought
<1> QED BY <1>2, <1>7 DEF Fresh, Carries, Bits, Bitmap

\* Every commit that brings a line into a searchable file is one that searches look at,
\* and has the bit of each word of the line (add_new_lines, add_words).
THEOREM NewLinesAreAlwaysFound == Spec => []NewLinesAreFound
BY LinesStarted, LinesStep, LinesAreFound, PTL DEF Spec

-----------------------------------------------------------------------------
(* Every step of the search preserves the invariant.                       *)

LEMMA SearchStarted ==
  ASSUME SearchInit
  PROVE  SearchInv
<1>1. LinesInv
  BY LinesStarted DEF SearchInit
<1>2. \A f \in Files : index[f] = Untracked
  BY DEF SearchInit, Init
<1>3. \A f, w : Published(f, w) = {}
  BY DEF SearchInit, Init, Published
<1>4. UpToDate
  BY <1>2 DEF UpToDate, Untracked
<1> QED BY <1>1, <1>3, <1>4 DEF SearchInv, Listed, Answered, SearchInit

\* A step of the indexer, whatever becomes of the words of the index.
LEMMA IndexerSteps ==
  ASSUME IndexerStep
  PROVE  Next
BY DEF IndexerStep, CompleteRun, Next

\* Where neither the documents nor what is published change.
LEMMA ListedStays ==
  ASSUME NEW f, Listed(f), \A w \in Words : Published(f, w)' = Published(f, w),
         index'[f].document.all_words = index[f].document.all_words, UNCHANGED all_words
  PROVE  Listed(f)'
<1> SUFFICES ASSUME NEW w \in Words, Published(f, w)' # {}
             PROVE  LET all == index'[f].document.all_words
                    IN  w \in all_words' /\ all # <<>> /\ w \in all[1]
  BY DEF Listed
<1>1. Published(f, w) # {}
  OBVIOUS
<1>2. LET all == index[f].document.all_words
      IN  w \in all_words /\ all # <<>> /\ w \in all[1]
  BY <1>1 DEF Listed
<1> QED BY <1>2

\* A word with a bit is a word of the document, and the lookup has the file for it.
LEMMA BitsOfWords ==
  ASSUME IndexInv, NEW f \in Files, NEW w, Bits(f, w) # {}
  PROVE  /\ w \in DOMAIN index[f].document.words /\ w \in Words
         /\ f \in ever[w]
         /\ Bits(f, w) = index[f].document.words[w].commit_inclutivity
<1>1. w \in DOMAIN index[f].document.words
  BY DEF Bits, IndexOf, DefaultWordIndex
<1>2. w \in Words
  BY <1>1 DEF IndexInv, DocumentOK
<1>3. f \in ever[w]
  BY <1>1, <1>2 DEF IndexInv, LookupMatchesDocuments
<1> QED BY <1>1, <1>2, <1>3 DEF Bits, IndexOf

\* What was never tracked has no words.
LEMMA UntrackedHasNone ==
  ASSUME NEW f, index[f] = Untracked
  PROVE  \A w : Bits(f, w) = {}
BY UntrackedFacts DEF Bits, Bitmap

\* A run completes, and lists the words that files ever had.
LEMMA CompleteRunLists ==
  ASSUME SearchInv, CompleteRun, NEW f \in Searchable
  PROVE  Listed(f)'
<1>1. /\ FinishRun /\ LinesInv /\ IndexInv /\ f \in Files /\ Begun(f)
      /\ all_words' = {w \in Words : ever[w] # {}} /\ ever' = ever
  BY DEF CompleteRun, FinishRun, SearchInv, LinesInv, Searchable
<1>2. IndexInv'
  BY <1>1, FinishRunKeeps
<1> DEFINE d == index[f].document
           e == index'[f].document
<1>3. /\ ~ index[f].tracked => index'[f] = index[f]
      /\ index[f].tracked => e.all_words = <<DOMAIN e.words>>
  BY <1>1, FinishedDocument
<1>4. ASSUME NEW w \in Words, Published(f, w)' # {}
      PROVE  w \in all_words' /\ e.all_words # <<>> /\ w \in e.all_words[1]
  <2>1. Bits(f, w)' # {}
    BY <1>4 DEF Published
  <2>2. w \in DOMAIN e.words /\ f \in ever'[w]
    <3>1. w \in DOMAIN e.words
      BY <2>1 DEF Bits, IndexOf, DefaultWordIndex
    <3> QED BY <1>1, <1>2, <3>1 DEF IndexInv, LookupMatchesDocuments
  <2>3. index[f].tracked
    <3>1. SUFFICES ASSUME index[f] = Untracked, index'[f] = Untracked PROVE FALSE
      BY <1>1, <1>3 DEF Begun
    <3>2. Bits(f, w)' = {}
      BY <3>1, UntrackedFacts DEF Bits, Bitmap
    <3> QED BY <2>1, <3>2
  <2>4. w \in all_words'
    BY <1>1, <2>2
  <2>5. e.all_words = <<DOMAIN e.words>>
    BY <1>3, <2>3
  <2>6. \A x : <<x>> # <<>> /\ <<x>>[1] = x
    OBVIOUS
  <2> HIDE DEF e
  <2> QED BY <2>2, <2>4, <2>5, <2>6
<1> QED BY <1>4 DEF Listed

\* What is published of a file is in the lists of words.
LEMMA ListedStep ==
  ASSUME SearchInv, IndexerStep, NEW f \in Searchable'
  PROVE  Listed(f)'
<1>1. CASE CompleteRun
  BY <1>1, CompleteRunLists DEF CompleteRun, FinishRun, Searchable
<1>2. CASE /\ (\E tree \in [Files -> Contents] : Commit(tree)) \/ StartRun \/ RecordCommit
           /\ UNCHANGED all_words
  <2>1. UNCHANGED <<index, finalized, ignored, lost>>
    BY <1>2 DEF Commit, StartRun, RecordCommit, indexerVars
  <2>2. f \in Searchable /\ \A w \in Words : Published(f, w)' = Published(f, w)
    BY <2>1 DEF Searchable, Published, Bits
  <2> QED BY <1>2, <2>1, <2>2, ListedStays DEF SearchInv
<1>3. ASSUME NEW g \in Files, IndexFile(g), UNCHANGED all_words PROVE Listed(f)'
  <2>1. LinesInv /\ IndexInv
    BY DEF SearchInv, LinesInv
  <2>2. GivesUp
    BY <1>3, <2>1, IndexFileGivesUp
  <2>3. f \in Searchable /\ \A w \in Words : Published(f, w)' = Published(f, w)
    BY <2>2 DEF GivesUp, Searchable
  <2>4. index'[f].document.all_words = index[f].document.all_words
    <3>1. CASE f = g
      BY <1>3, <2>1, <2>3, <3>1, IndexFileBrings DEF Brings, SameList, LinesInv
    <3>2. CASE f # g
      BY <1>3, <2>1, <2>3, <3>2, IndexFileStep DEF FileStep, Becomes, IndexInv, Shapes, Searchable
    <3> QED BY <3>1, <3>2
  <2> QED BY <1>3, <2>3, <2>4, ListedStays DEF SearchInv
<1>4. CASE AbandonRun /\ UNCHANGED all_words
  <2>1. CASE finalized = 0
    <3>1. \A w : Published(f, w)' = {}
      BY <1>4, <2>1 DEF AbandonRun, Published
    <3> QED BY <3>1 DEF Listed
  <2>2. CASE finalized # 0
    <3>1. UNCHANGED <<index, finalized>> /\ f \in Searchable
      BY <1>4, <2>2 DEF AbandonRun, Searchable
    <3>2. \A w \in Words : Published(f, w)' = Published(f, w)
      BY <3>1 DEF Published, Bits
    <3> QED BY <1>4, <3>1, <3>2, ListedStays DEF SearchInv
  <2> QED BY <2>1, <2>2
<1> QED BY <1>1, <1>2, <1>3, <1>4 DEF IndexerStep

\* While no run has failed, the documents' lists are up to date.
LEMMA UpToDateStep ==
  ASSUME SearchInv, IndexerStep
  PROVE  UpToDate'
<1>1. IndexInv /\ Shapes /\ Control /\ UpToDate /\ commits \in Nat /\ finalized \in Nat /\ finalized <= commits
  BY DEF SearchInv, LinesInv, IndexInv, Shapes
<1>2. CASE CompleteRun
  BY <1>1, <1>2, FinishedDocument DEF CompleteRun, UpToDate
<1>3. CASE (\E tree \in [Files -> Contents] : Commit(tree)) \/ StartRun
  BY <1>1, <1>3 DEF Commit, StartRun, indexerVars, UpToDate
<1>4. CASE RecordCommit
  BY <1>1, <1>4 DEF RecordCommit, UpToDate
<1>5. ASSUME NEW g \in Files, IndexFile(g) PROVE UpToDate'
  BY <1>1, <1>5 DEF IndexFile, Control, UpToDate
<1>6. CASE AbandonRun
  <2>1. CASE finalized = 0
    <3>1. \A f \in Files : index'[f] = Untracked
      BY <1>6, <2>1 DEF AbandonRun
    <3> QED BY <3>1 DEF UpToDate, Untracked
  <2>2. CASE finalized # 0
    BY <1>1, <1>6, <2>2 DEF AbandonRun, UpToDate
  <2> QED BY <2>1, <2>2
<1> QED BY <1>2, <1>3, <1>4, <1>5, <1>6 DEF IndexerStep

\* An answer stays what it is as long as the index does.
LEMMA SameAnswer ==
  ASSUME UNCHANGED <<vars, all_words>>, NEW q
  PROVE  AnswerTo(q)' = AnswerTo(q) /\ Searching' = Searching
BY DEF AnswerTo, View, Versions, Version, vars, indexerVars, Searching

LEMMA SearchStep ==
  ASSUME SearchInv, [SearchNext]_searchVars
  PROVE  SearchInv'
<1>1. LinesInv /\ UpToDate /\ Answered /\ \A f \in Searchable : Listed(f)
  BY DEF SearchInv
<1>2. CASE IndexerStep
  <2>1. LinesInv'
    BY <1>1, <1>2, IndexerSteps, LinesStep
  <2>2. Answered'
    BY <1>2 DEF IndexerStep, Answered
  <2> QED BY <1>2, <2>1, <2>2, ListedStep, UpToDateStep DEF SearchInv
<1>3. CASE UNCHANGED <<vars, all_words>>
  <2>1. LinesInv'
    BY <1>1, <1>3, LinesStep
  <2>2. \A f \in Searchable' : Listed(f)'
    BY <1>1, <1>3 DEF vars, indexerVars, Listed, Published, Bits, Searchable
  <2>3. UpToDate'
    BY <1>1, <1>3 DEF vars, indexerVars, UpToDate
  <2>4. ASSUME NEW q \in Queries, answer' = AnswerTo(q), Searching
        PROVE  Answered'
    BY <1>3, <2>4, SameAnswer DEF Answered
  <2>5. ASSUME answer' = NoAnswer
        PROVE  Answered'
    BY <2>5 DEF Answered
  <2>6. Answered'
    <3>1. ASSUME NEW q \in Queries, Ask(q) PROVE Answered'
      BY <2>4, <3>1 DEF Ask
    <3>2. CASE Dismiss
      BY <2>5, <3>2 DEF Dismiss
    <3>3. CASE UNCHANGED answer
      BY <1>1, <2>4, <2>5, <3>3 DEF Answered
    <3>4. CASE IndexerStep
      BY <2>5, <3>4 DEF IndexerStep
    <3> QED BY <3>1, <3>2, <3>3, <3>4 DEF SearchNext, searchVars
  <2> QED BY <2>1, <2>2, <2>3, <2>6 DEF SearchInv
<1> QED BY <1>2, <1>3 DEF SearchNext, Ask, Dismiss, searchVars

\* The invariant of a search holds at all times.
THEOREM SearchInvariant == SearchSpec => []SearchInv
BY SearchStarted, SearchStep, PTL DEF SearchSpec

-----------------------------------------------------------------------------
(* What a search sees.                                                     *)

LEMMA SearchFacts ==
  ASSUME SearchInv, Searching
  PROVE  /\ LinesInv /\ IndexInv /\ Shapes
         /\ commits \in Nat /\ commits > 0 /\ commits <= Len(repo) /\ Len(repo) \in Nat
         /\ finalized \in Nat /\ finalized > 0 /\ finalized <= commits
         /\ \A f \in Searchable :
              /\ f \in Files /\ Applied(f) = commits
              /\ FileSettled(index[f], Past(f), commits, finalized)
<1>1. LinesInv /\ IndexInv /\ Shapes /\ Control
  BY DEF SearchInv, LinesInv, IndexInv
<1>2. /\ commits \in Nat /\ commits <= Len(repo) /\ Len(repo) \in Nat
      /\ finalized \in Nat /\ finalized > 0 /\ finalized <= commits
  BY <1>1 DEF Shapes, Searching
<1>3. todo = {} /\ patching = {}
  BY <1>1 DEF Control, Searching
<1>4. \A f \in Searchable : f \in Files /\ Applied(f) = commits
  BY <1>3 DEF Searchable, Applied
<1>5. \A f \in Searchable : FileSettled(index[f], Past(f), commits, finalized)
  BY <1>1, <1>3, <1>4 DEF IndexInv, FileOK
<1> QED BY <1>1, <1>2, <1>4, <1>5

LEMMA ViewFacts ==
  /\ View.all_words = all_words /\ View.ever = ever /\ View.head = commits - 1
  /\ DOMAIN View.documents = {f \in Files : index[f].tracked}
  /\ \A f \in Files : index[f].tracked => View.documents[f] = index[f].document
BY DEF View

\* The files the lookup names for a word have it.
LEMMA LookupFacts ==
  ASSUME IndexInv, NEW f \in Files, NEW w
  PROVE  f \in DocsOf(View, w) <=> w \in DOMAIN index[f].document.words
<1>1. DOMAIN ever = Words /\ LookupMatchesDocuments /\ DOMAIN index[f].document.words \subseteq Words
  BY DEF IndexInv, Shapes, DocumentOK
<1>2. f \in DocsOf(View, w) <=> w \in Words /\ f \in ever[w]
  BY <1>1, ViewFacts DEF DocsOf
<1> QED BY <1>1, <1>2 DEF LookupMatchesDocuments

\* A commit with a bit has the file.
LEMMA ReadableAt ==
  ASSUME SearchInv, Searching, NEW f \in Searchable, NEW w, NEW c \in Bits(f, w)
  PROVE  c \in 0..(commits - 1) /\ Version(f, c).exists
<1>1. /\ f \in Files /\ IndexInv /\ Shapes /\ FileSettled(index[f], Past(f), commits, finalized)
      /\ commits \in Nat /\ commits <= Len(repo) /\ Len(repo) \in Nat
  BY SearchFacts
<1>2. w \in Words
  BY <1>1, BitsOfWords
<1>3. c \in 0..(commits - 1) /\ Has(Past(f), w, c)
  BY <1>1, <1>2 DEF FileSettled, Settled, BitsFit, Bits, Bitmap
<1>4. c + 1 \in 1..Len(repo)
  BY <1>1, <1>3
<1>5. Past(f)[c + 1] = repo[c + 1][f].lines
  BY <1>1, <1>4, PastFacts
<1>6. repo[c + 1][f] # Absent
  <2>1. WordsIn(Absent.lines) = {}
    BY DEF Absent, WordsIn
  <2> QED BY <1>3, <1>5, <2>1 DEF Has
<1>7. Version(f, c).exists
  BY <1>6 DEF Version, File
<1> QED BY <1>3, <1>7

\* A text takes a byte for each character, or more.
LEMMA ByteLenFacts ==
  ASSUME NEW text \in Seq(Chars)
  PROVE  ByteLen(text) \in Nat /\ Len(text) \in Nat /\ ByteLen(text) >= Len(text)
<1> DEFINE wide == {i \in DOMAIN text : text[i] \in WideChars}
<1>1. wide \subseteq 1..Len(text) /\ Len(text) \in Nat
  OBVIOUS
<1>2. IsFiniteSet(1..Len(text))
  BY <1>1, FS_Interval
<1>3. IsFiniteSet(wide)
  BY <1>1, <1>2, FS_Subset
<1>4. Cardinality(wide) \in Nat
  BY <1>3, FS_CardinalityType
<1> HIDE DEF wide
<1> QED BY <1>1, <1>4 DEF ByteLen, wide

\* A text that is not empty has a trigram.
LEMMA HasTrigrams ==
  ASSUME NEW text \in Seq(Chars), text # <<>>
  PROVE  TrigramsOf(text) # {}
<1>1. CASE Len(text) <= 2
  BY <1>1 DEF TrigramsOf
<1>2. CASE ~ (Len(text) <= 2)
  <2>1. 1 \in DOMAIN Windows(text)
    BY <1>2 DEF Windows
  <2>2. Windows(text)[1] \in Range(Windows(text))
    BY <2>1 DEF Range
  <2> QED BY <1>2, <2>2 DEF TrigramsOf
<1> QED BY <1>1, <1>2

\* The bitmaps of a tracked file's document are those of its words.
LEMMA BitmapsFacts ==
  ASSUME NEW f \in Files, index[f].tracked, NEW words
  PROVE  Bitmaps(View.documents[f], words)
           = {Bits(f, w) : w \in words \cap DOMAIN index[f].document.words}
<1>1. View.documents[f] = index[f].document
  BY ViewFacts
<1>2. \A w \in DOMAIN index[f].document.words :
        Bits(f, w) = index[f].document.words[w].commit_inclutivity
  BY DEF Bits, IndexOf
<1> QED BY <1>1, <1>2 DEF Bitmaps

-----------------------------------------------------------------------------
(* Searches do not panic.                                                  *)

\* Words of queries.
LEMMA QueryFacts ==
  ASSUME NEW q \in Queries
  PROVE  /\ q.kind \in {"empty", "plain", "regex"}
         /\ q.kind = "plain" => q.words \in Seq(Seq(Chars) \ {<<>>})
         /\ q.kind = "regex" => q.expression \in Expressions
<1>1. EmptyQuery.kind = "empty"
  BY DEF EmptyQuery
<1> QED BY <1>1, QueriesAssumption

\* The unwraps of find_matching_commit_histories_in_doc.
LEMMA WordsMatch ==
  ASSUME SearchInv, Searching, NEW f \in DOMAIN View.documents, NEW word \in Seq(Chars),
         f \in DocsWithWord(View, word), Len(word) >= 3 \/ finalized = commits
  PROVE  CanMatchWord(View.documents[f], word)
<1>1. /\ f \in Files /\ index[f].tracked /\ IndexInv /\ UpToDate
      /\ View.documents[f] = index[f].document /\ View.all_words = all_words
  BY SearchFacts, ViewFacts DEF SearchInv
<1> DEFINE d == index[f].document
<1>2. CASE ByteLen(word) <= 2
  <2>1. d.all_words = <<DOMAIN d.words>>
    BY <1>1, <1>2, ByteLenFacts DEF UpToDate
  <2>2. PICK w : f \in DocsOf(View, w) /\ IsWithin(word, w)
    BY <1>2 DEF DocsWithWord
  <2>3. w \in DOMAIN d.words
    BY <1>1, <2>2, LookupFacts
  <2>4. \A x : <<x>> # <<>> /\ <<x>>[1] = x
    OBVIOUS
  <2> HIDE DEF d
  <2>5. d.all_words # <<>> /\ w \in d.all_words[1] \cap DOMAIN d.words
    BY <2>1, <2>3, <2>4
  <2> QED BY <1>1, <1>2, <2>2, <2>5 DEF CanMatchWord, d
<1>3. CASE ~ (ByteLen(word) <= 2)
  <2>1. \A w \in TrigramsOf(word) : f \in DocsOf(View, w)
    BY <1>3 DEF DocsWithWord
  <2>2. TrigramsOf(word) \subseteq DOMAIN d.words
    BY <1>1, <2>1, LookupFacts
  <2> QED BY <1>1, <1>3, <2>2 DEF CanMatchWord
<1> QED BY <1>2, <1>3

LEMMA WordSearchEnds ==
  ASSUME SearchInv, Searching, NEW words \in Seq(Seq(Chars) \ {<<>>}), words # <<>>,
         (\A i \in DOMAIN words : Len(words[i]) >= 3) \/ finalized = commits
  PROVE  RawWordSearch(View, words).outcome = "ok"
<1> DEFINE docs == {f \in DOMAIN View.documents :
                      \A i \in DOMAIN words : f \in DocsWithWord(View, words[i])}
<1>1. ~ \E f \in docs, i \in DOMAIN words : ~CanMatchWord(View.documents[f], words[i])
  <2>1. ASSUME NEW f \in docs, NEW i \in DOMAIN words PROVE CanMatchWord(View.documents[f], words[i])
    <3>1. words[i] \in Seq(Chars)
      OBVIOUS
    <3> QED BY <2>1, <3>1, WordsMatch
  <2> QED BY <2>1
<1> QED BY <1>1 DEF RawWordSearch, Found

\* An answer is that of a query to the index as it is.
LEMMA AnswerFacts ==
  ASSUME SearchInv, answer # NoAnswer
  PROVE  /\ Searching /\ answer.query \in Queries /\ answer = AnswerTo(answer.query)
         /\ answer.outcome = Search(View, answer.query).outcome
         /\ answer.results =
              {[raw   |-> r,
                shown |-> FromRaw(answer.query, r.commits, Versions(r.file), commits - 1)] :
                 r \in Search(View, answer.query).results}
<1>1. PICK q \in Queries : Searching /\ answer = AnswerTo(q)
  BY DEF SearchInv, Answered
<1>2. /\ AnswerTo(q).query = q
      /\ AnswerTo(q).outcome = Search(View, q).outcome
      /\ AnswerTo(q).results =
              {[raw   |-> r,
                shown |-> FromRaw(q, r.commits, Versions(r.file), commits - 1)] :
                 r \in Search(View, q).results}
  BY DEF AnswerTo
<1> HIDE DEF AnswerTo
<1> QED BY <1>1, <1>2

LEMMA InvEnds ==
  ASSUME SearchInv
  PROVE  SearchesDoNotPanic
<1> DEFINE q == answer.query
<1>1. SUFFICES ASSUME q.kind = "plain", q.words # <<>>, LongWords(q) \/ finalized = commits
               PROVE  answer.outcome = "ok"
  BY DEF SearchesDoNotPanic
<1>2. answer # NoAnswer
  BY <1>1 DEF NoAnswer, EmptyQuery
<1>3. /\ Searching /\ q.words \in Seq(Seq(Chars) \ {<<>>})
      /\ answer.outcome = RawWordSearch(View, q.words).outcome
  BY <1>1, <1>2, AnswerFacts, QueryFacts DEF Search
<1> QED BY <1>1, <1>3, WordSearchEnds DEF LongWords

\* A search for words ends with an answer (find_overlapping_document and
\* find_matching_commit_histories_in_doc unwrap what the index lets them).
THEOREM SearchesNeverPanic == SearchSpec => []SearchesDoNotPanic
BY SearchInvariant, InvEnds, PTL

-----------------------------------------------------------------------------
(* Results can be read.                                                    *)

\* A raw result names a file and commits that have one of its words.
Sound(r) ==
  /\ r.file \in DOMAIN View.documents
  /\ \A c \in r.commits : /\ c \in CommitsToSearch(View, View.documents[r.file])
                          /\ \E w : c \in Bits(r.file, w)

LEMMA WordResults ==
  ASSUME SearchInv, Searching, NEW words \in Seq(Seq(Chars) \ {<<>>}),
         NEW r \in RawWordSearch(View, words).results
  PROVE  Sound(r)
<1> DEFINE docs == {f \in DOMAIN View.documents :
                      \A i \in DOMAIN words : f \in DocsWithWord(View, words[i])}
           doc(f) == View.documents[f]
           commitsOf(f) == {c \in CommitsToSearch(View, doc(f)) :
                              \A i \in DOMAIN words : c \in HistoryOfWord(View, doc(f), words[i])}
<1>1. /\ words # <<>> /\ \A f \in docs, i \in DOMAIN words : CanMatchWord(doc(f), words[i])
      /\ r \in {RawResult(f, commitsOf(f)) : f \in {d \in docs : commitsOf(d) # {}}}
  BY DEF RawWordSearch, Found, SearchPanics
<1>2. PICK f \in docs : r = RawResult(f, commitsOf(f))
  BY <1>1
<1>3. /\ f \in Files /\ index[f].tracked /\ doc(f) = index[f].document
  BY ViewFacts
<1>4. 1 \in DOMAIN words /\ words[1] \in Seq(Chars) /\ words[1] # <<>>
  BY <1>1
<1> DEFINE d == index[f].document
           short == ByteLen(words[1]) <= 2
           searched == IF short THEN {w \in doc(f).all_words[1] : IsWithin(words[1], w)}
                       ELSE TrigramsOf(words[1])
<1>5. searched \cap DOMAIN d.words # {}
  <2>1. CanMatchWord(doc(f), words[1])
    BY <1>1, <1>4
  <2>2. CASE short
    BY <1>3, <2>1, <2>2 DEF CanMatchWord
  <2>3. CASE ~ short
    BY <1>3, <1>4, <2>1, <2>3, HasTrigrams DEF CanMatchWord
  <2> QED BY <2>2, <2>3
<1>6. PICK w \in searched : w \in DOMAIN d.words
  BY <1>5
<1>7. ASSUME NEW c \in commitsOf(f) PROVE c \in CommitsToSearch(View, doc(f)) /\ c \in Bits(f, w)
  <2>1. c \in HistoryOfWord(View, doc(f), words[1])
    BY <1>4
  <2>2. \A bits \in Bitmaps(doc(f), searched) : c \in bits
    BY <2>1 DEF HistoryOfWord
  <2> HIDE DEF searched
  <2>3. Bits(f, w) \in Bitmaps(doc(f), searched)
    <3>1. Bitmaps(View.documents[f], searched) = {Bits(f, x) : x \in searched \cap DOMAIN d.words}
      BY <1>3, BitmapsFacts
    <3>2. w \in searched \cap DOMAIN d.words
      BY <1>6
    <3> HIDE DEF d
    <3> QED BY <3>1, <3>2
  <2> QED BY <2>2, <2>3
<1> HIDE DEF commitsOf
<1>8. r.file = f /\ r.commits = commitsOf(f)
  BY <1>2 DEF RawResult
<1> QED BY <1>7, <1>8 DEF Sound

LEMMA RegexResults ==
  ASSUME SearchInv, Searching, NEW e, NEW r \in RegexSearch(View, e).results
  PROVE  Sound(r)
<1> DEFINE candidates == Demanding(BuildCandidates(View, e).candidates)
           docs(cand) == {f \in CandidateDocs(View, cand) : CanMatchTrigrams(View.documents[f], cand)}
<1>1. r \in UNION {{RawResult(f, HistoryOfTrigrams(View, View.documents[f], cand))
                      : f \in docs(cand)} : cand \in candidates}
  BY DEF RegexSearch, Found, SearchPanics, SearchRefused
<1>2. PICK cand \in candidates :
        r \in {RawResult(f, HistoryOfTrigrams(View, View.documents[f], cand)) : f \in docs(cand)}
  BY <1>1
<1>3. PICK f \in docs(cand) : r = RawResult(f, HistoryOfTrigrams(View, View.documents[f], cand))
  BY <1>2
<1>4. PICK i \in DOMAIN cand : TRUE
  BY DEF Demanding
<1>5. f \in DOMAIN View.documents /\ f \in Files /\ index[f].tracked
  BY ViewFacts DEF CandidateDocs
<1>6. ASSUME NEW c \in HistoryOfTrigrams(View, View.documents[f], cand)
      PROVE  c \in CommitsToSearch(View, View.documents[f]) /\ \E w : c \in Bits(f, w)
  <2> DEFINE words == MatchingWords(cand[i], View.documents[f].all_words[1])
  <2>1. PICK bits \in Bitmaps(View.documents[f], words) : c \in bits
    BY <1>4 DEF HistoryOfTrigrams
  <2> HIDE DEF words
  <2>2. Bitmaps(View.documents[f], words) = {Bits(f, w) : w \in words \cap DOMAIN index[f].document.words}
    BY <1>5, BitmapsFacts
  <2>3. PICK w : bits = Bits(f, w)
    BY <2>2
  <2>4. c \in CommitsToSearch(View, View.documents[f])
    BY DEF HistoryOfTrigrams
  <2> QED BY <2>1, <2>3, <2>4
<1>7. r.file = f /\ r.commits = HistoryOfTrigrams(View, View.documents[f], cand)
  BY <1>3 DEF RawResult
<1> QED BY <1>5, <1>6, <1>7 DEF Sound

\* Whatever was asked.
LEMMA AllSound ==
  ASSUME SearchInv, answer # NoAnswer, NEW r \in Search(View, answer.query).results
  PROVE  Sound(r)
<1> DEFINE q == answer.query
<1>1. Searching /\ q \in Queries
  BY AnswerFacts
<1> HIDE DEF q
<1>2. r \in Search(View, q).results
  BY DEF q
<1>3. CASE q.kind = "empty"
  BY <1>2, <1>3 DEF Search, Found
<1>4. CASE q.kind = "plain"
  BY <1>1, <1>2, <1>4, QueryFacts, WordResults DEF Search
<1>5. CASE q.kind = "regex"
  BY <1>1, <1>2, <1>5, RegexResults DEF Search
<1> QED BY <1>1, <1>3, <1>4, <1>5, QueryFacts

LEMMA InvReadable ==
  ASSUME SearchInv
  PROVE  ResultsAreReadable
<1>1. SUFFICES ASSUME NEW result \in answer.results, result.raw.file \in Searchable,
                      NEW c \in result.raw.commits
               PROVE  Version(result.raw.file, c).exists
  BY DEF ResultsAreReadable
<1>2. answer # NoAnswer
  BY <1>1 DEF NoAnswer
<1>3. PICK r \in Search(View, answer.query).results : result.raw = r
  BY <1>1, <1>2, AnswerFacts
<1>4. Sound(r)
  BY <1>2, AllSound
<1>5. PICK w : c \in Bits(r.file, w)
  BY <1>1, <1>3, <1>4 DEF Sound
<1> QED BY <1>1, <1>2, <1>3, <1>5, AnswerFacts, ReadableAt

\* No search of a searchable file names a commit without the file, so that reading the
\* versions of a result never fails (CommitsToSearch, SearchResult::new).
THEOREM ResultsStayReadable == SearchSpec => []ResultsAreReadable
BY SearchInvariant, InvReadable, PTL

-----------------------------------------------------------------------------
(* Matches of words in lines: what the scan of a line finds.               *)

\* A function defined by recursion on 0..n, by its step g.
Iterates(h, s0, g, n) == h = [i \in 0..n |-> IF i = 0 THEN s0 ELSE g[<<h[i - 1], i>>]]

LEMMA IterateExists ==
  ASSUME NEW S, NEW s0 \in S, NEW n \in Nat, NEW g \in [S \X (1..n) -> S]
  PROVE  \E h \in [0..n -> S] : Iterates(h, s0, g, n)
<1> DEFINE To(h, m) == h \in [0..m -> S] /\ h[0] = s0 /\ \A i \in 1..m : h[i] = g[<<h[i - 1], i>>]
           D == {m \in 0..n : ~ \E h : To(h, m)}
<1>1. CASE D # {}
  <2>1. D \in SUBSET Nat
    OBVIOUS
  <2>2. PICK m \in D : \A k \in D : m <= k
    BY <1>1, <2>1, LeastNatural
  <2>3. m \in 0..n /\ ~ \E h : To(h, m)
    OBVIOUS
  <2>4. CASE m = 0
    <3>1. To([i \in 0..0 |-> s0], 0)
      OBVIOUS
    <3> QED BY <2>3, <2>4, <3>1
  <2>5. CASE m # 0
    <3>1. m - 1 \in 0..n /\ ~ (m <= m - 1) /\ m \in 1..n
      BY <2>3, <2>5
    <3>2. PICK h : To(h, m - 1)
      BY <2>2, <3>1
    <3>3. /\ h \in [0..(m - 1) -> S] /\ h[0] = s0
          /\ \A i \in 1..(m - 1) : h[i] = g[<<h[i - 1], i>>]
      BY <3>2
    <3> DEFINE k == [i \in 0..m |-> IF i = m THEN g[<<h[m - 1], m>>] ELSE h[i]]
    <3>4. \A i \in 0..m : i # m => i \in 0..(m - 1)
      BY <3>1
    <3>5. h[m - 1] \in S /\ g[<<h[m - 1], m>>] \in S
      BY <3>1, <3>3
    <3>6. k \in [0..m -> S]
      BY <3>3, <3>4, <3>5
    <3>7. k[0] = s0 /\ k[m - 1] = h[m - 1]
      BY <2>5, <3>1, <3>3
    <3>8. ASSUME NEW i \in 1..m PROVE k[i] = g[<<k[i - 1], i>>]
      <4>1. CASE i = m
        <5>1. m \in 0..m
          BY <3>1
        <5>2. k[m] = g[<<h[m - 1], m>>]
          BY <5>1
        <5> HIDE DEF k
        <5> QED BY <3>7, <4>1, <5>2
      <4>2. CASE i # m
        <5>1. i \in 1..(m - 1) /\ i - 1 \in 0..m /\ i - 1 # m /\ i \in 0..m
          BY <3>1, <4>2
        <5>2. k[i] = h[i] /\ k[i - 1] = h[i - 1]
          BY <4>2, <5>1
        <5> QED BY <3>3, <5>1, <5>2
      <4> QED BY <4>1, <4>2
    <3> HIDE DEF k
    <3>9. To(k, m)
      BY <3>6, <3>7, <3>8
    <3> QED BY <2>3, <3>9
  <2> QED BY <2>4, <2>5
<1>2. CASE D = {}
  <2>1. n \in 0..n
    OBVIOUS
  <2>2. PICK h : To(h, n)
    BY <1>2, <2>1
  <2>3. /\ h \in [0..n -> S] /\ h[0] = s0
        /\ \A i \in 1..n : h[i] = g[<<h[i - 1], i>>]
    BY <2>2
  <2>4. h = [i \in 0..n |-> h[i]]
    BY <2>3
  <2>5. \A i \in 0..n : h[i] = IF i = 0 THEN s0 ELSE g[<<h[i - 1], i>>]
    BY <2>3
  <2>6. h = [i \in 0..n |-> IF i = 0 THEN s0 ELSE g[<<h[i - 1], i>>]]
    BY <2>4, <2>5
  <2> QED BY <2>3, <2>6 DEF Iterates
<1> QED BY <1>1, <1>2

\* What WordMatches does with one place of the line.
PlacesAt(words, line, i) == {k \in DOMAIN words : i \in PlacesOf(words[k], line)}

ScanNext(words, line, state, i) ==
  IF i < state.free \/ PlacesAt(words, line, i) = {} THEN state
  ELSE [free  |-> i + Len(words[Min(PlacesAt(words, line, i))]),
        found |-> state.found \cup {<<i, Min(PlacesAt(words, line, i))>>}]

ScanStart == [free |-> 1, found |-> {}]
ScanStates == [free : Nat, found : SUBSET (Nat \X Nat)]

IsScan(words, line, h) ==
  h = [i \in 0..Len(line) |-> IF i = 0 THEN ScanStart ELSE ScanNext(words, line, h[i - 1], i)]

\* Words as in a query, and a line.
ScanArguments(words, line) ==
  words \in Seq(Seq(Chars) \ {<<>>}) /\ line \in Seq(Chars)

\* The least of a set of naturals.
LEMMA MinOf ==
  ASSUME NEW S \in SUBSET Nat, S # {}
  PROVE  Min(S) \in S /\ \A y \in S : Min(S) <= y
<1> DEFINE x == CHOOSE x \in S : \A y \in S : x =< y
<1>1. x \in S /\ \A y \in S : x =< y
  BY LeastNatural
<1> HIDE DEF x
<1> QED BY <1>1 DEF Min, x

LEMMA PlacesFacts ==
  ASSUME NEW words, NEW line, ScanArguments(words, line), NEW i
  PROVE  /\ PlacesAt(words, line, i) \subseteq 1..Len(words) /\ Len(words) \in Nat
         /\ PlacesAt(words, line, i) # {} =>
              /\ Min(PlacesAt(words, line, i)) \in PlacesAt(words, line, i)
              /\ Min(PlacesAt(words, line, i)) \in 1..Len(words)
              /\ Len(words[Min(PlacesAt(words, line, i))]) \in Nat
<1>1. words \in Seq(Seq(Chars) \ {<<>>}) /\ Len(words) \in Nat /\ \A k \in 1..Len(words) : Len(words[k]) \in Nat
  BY DEF ScanArguments
<1> DEFINE S == PlacesAt(words, line, i)
<1>2. S \subseteq 1..Len(words) /\ S \in SUBSET Nat
  BY <1>1 DEF PlacesAt
<1> HIDE DEF S
<1>3. S # {} => Min(S) \in S
  BY <1>2, MinOf
<1> QED BY <1>1, <1>2, <1>3 DEF S

\* One place of the line.
LEMMA ScanNextType ==
  ASSUME NEW words, NEW line, ScanArguments(words, line), NEW i \in Nat, NEW state \in ScanStates
  PROVE  ScanNext(words, line, state, i) \in ScanStates
<1> DEFINE S == PlacesAt(words, line, i)
<1>1. CASE i < state.free \/ S = {}
  BY <1>1 DEF ScanNext
<1>2. CASE ~ (i < state.free \/ S = {})
  <2>1. Min(S) \in Nat /\ Len(words[Min(S)]) \in Nat
    BY <1>2, PlacesFacts
  <2>2. state.found \in SUBSET (Nat \X Nat)
    BY DEF ScanStates
  <2> HIDE DEF S
  <2>3. state.found \cup {<<i, Min(S)>>} \in SUBSET (Nat \X Nat)
    BY <2>1, <2>2
  <2>4. i + Len(words[Min(S)]) \in Nat
    BY <2>1
  <2>5. ScanNext(words, line, state, i)
          = [free |-> i + Len(words[Min(S)]), found |-> state.found \cup {<<i, Min(S)>>}]
    BY <1>2 DEF ScanNext, S
  <2> QED BY <2>3, <2>4, <2>5 DEF ScanStates
<1> QED BY <1>1, <1>2

LEMMA ScanExists ==
  ASSUME NEW words, NEW line, ScanArguments(words, line)
  PROVE  \E h : IsScan(words, line, h)
<1> DEFINE n == Len(line)
           S == ScanStates
           s0 == ScanStart
           g == [x \in S \X (1..n) |-> ScanNext(words, line, x[1], x[2])]
<1>1. n \in Nat
  BY DEF ScanArguments
<1>2. s0 \in S
  BY DEF ScanStart, ScanStates
<1>3. g \in [S \X (1..n) -> S]
  <2>1. \A x \in S \X (1..n) : x[1] \in S /\ x[2] \in Nat
    BY <1>1
  <2> HIDE DEF n
  <2>2. \A x \in S \X (1..n) : ScanNext(words, line, x[1], x[2]) \in S
    BY <2>1, ScanNextType
  <2> QED BY <2>2
<1>4. \A x \in S, i \in 1..n : g[<<x, i>>] = ScanNext(words, line, x, i)
  OBVIOUS
<1> HIDE DEF n, S, s0, g
<1>5. PICK h \in [0..n -> S] : Iterates(h, s0, g, n)
  BY <1>1, <1>2, <1>3, IterateExists
<1>6. \A i \in 0..n : i # 0 => h[i - 1] \in S /\ i \in 1..n
  <2>1. \A i \in 0..n : i # 0 => i - 1 \in 0..n /\ i \in 1..n
    BY <1>1
  <2> QED BY <2>1
<1>7. \A i \in 0..n : (IF i = 0 THEN s0 ELSE g[<<h[i - 1], i>>])
                        = IF i = 0 THEN s0 ELSE ScanNext(words, line, h[i - 1], i)
  BY <1>4, <1>6
<1>8. h = [i \in 0..n |-> IF i = 0 THEN s0 ELSE ScanNext(words, line, h[i - 1], i)]
  BY <1>5, <1>7 DEF Iterates
<1> QED BY <1>8 DEF IsScan, n, s0

\* WordMatches, by its recursive function.
LEMMA MatchesByScan ==
  ASSUME NEW words, NEW line, ScanArguments(words, line)
  PROVE  \E h : IsScan(words, line, h) /\ WordMatches(words, line) = h[Len(line)].found
<1> DEFINE h == CHOOSE x : x = [i \in 0..Len(line) |->
                  IF i = 0 THEN ScanStart ELSE ScanNext(words, line, x[i - 1], i)]
<1>1. IsScan(words, line, h)
  BY ScanExists DEF IsScan
<1>2. WordMatches(words, line) = h[Len(line)].found
  BY DEF WordMatches, ScanNext, ScanStart, PlacesAt
<1> QED BY <1>1, <1>2

\* What has been found in the first m places, and that nothing was if no word is there.
ScanFound(words, line, state, m) ==
  /\ state \in ScanStates
  /\ \A hit \in state.found : hit[1] \in Nat /\ hit[2] \in PlacesAt(words, line, hit[1])
  /\ state.found = {} => state.free = 1 /\ \A i \in 1..m : PlacesAt(words, line, i) = {}

LEMMA ScanFoundNext ==
  ASSUME NEW words, NEW line, ScanArguments(words, line), NEW m \in Nat, m # 0,
         NEW state, ScanFound(words, line, state, m - 1)
  PROVE  ScanFound(words, line, ScanNext(words, line, state, m), m)
<1> DEFINE S == PlacesAt(words, line, m)
           u == ScanNext(words, line, state, m)
<1>1. u \in ScanStates /\ state.free \in Nat
  BY ScanNextType DEF ScanFound, ScanStates
<1>2. CASE m < state.free \/ S = {}
  <2>1. u = state
    BY <1>2 DEF ScanNext
  <2>2. ASSUME state.found = {}, NEW i \in 1..m PROVE PlacesAt(words, line, i) = {}
    <3>1. i \in 1..(m - 1) \/ i = m
      OBVIOUS
    <3>2. state.free = 1 /\ \A k \in 1..(m - 1) : PlacesAt(words, line, k) = {}
      BY <2>2 DEF ScanFound
    <3> QED BY <1>2, <3>1, <3>2
  <2> QED BY <2>1, <2>2 DEF ScanFound
<1>3. CASE ~ (m < state.free \/ S = {})
  <2>1. u = [free |-> m + Len(words[Min(S)]), found |-> state.found \cup {<<m, Min(S)>>}]
    BY <1>3 DEF ScanNext
  <2>2. Min(S) \in S
    BY <1>3, PlacesFacts
  <2> HIDE DEF u
  <2>3. u.found = state.found \cup {<<m, Min(S)>>}
    BY <2>1
  <2>4. ASSUME NEW hit \in u.found PROVE hit[1] \in Nat /\ hit[2] \in PlacesAt(words, line, hit[1])
    BY <2>2, <2>3 DEF ScanFound
  <2>5. u.found # {}
    BY <2>3
  <2> QED BY <1>1, <2>4, <2>5 DEF ScanFound, u
<1> QED BY <1>2, <1>3

\* A match is a word that is there; where no word is found, none is there.
LEMMA WordMatchesFacts ==
  ASSUME NEW words, NEW line, ScanArguments(words, line)
  PROVE  /\ \A hit \in WordMatches(words, line) :
              hit[1] \in Nat /\ hit[2] \in 1..Len(words) /\ PlacesOf(words[hit[2]], line) # {}
         /\ WordMatches(words, line) = {} =>
              \A k \in 1..Len(words) : PlacesOf(words[k], line) = {}
<1> DEFINE n == Len(line)
<1>1. n \in Nat /\ words \in Seq(Seq(Chars) \ {<<>>}) /\ Len(words) \in Nat
  BY DEF ScanArguments
<1>2. PICK h : IsScan(words, line, h) /\ WordMatches(words, line) = h[Len(line)].found
  BY MatchesByScan
<1>3. h[0] = ScanStart /\ \A i \in 1..n : h[i] = ScanNext(words, line, h[i - 1], i)
  <2>1. \A i \in 1..n : i \in 0..n /\ i # 0
    BY <1>1
  <2>2. 0 \in 0..n
    BY <1>1
  <2>3. h = [i \in 0..n |-> IF i = 0 THEN ScanStart ELSE ScanNext(words, line, h[i - 1], i)]
    BY <1>2 DEF IsScan
  <2> HIDE DEF n
  <2> QED BY <2>1, <2>2, <2>3
<1> DEFINE D == {i \in 0..n : ~ ScanFound(words, line, h[i], i)}
<1>4. D = {}
  <2>1. SUFFICES ASSUME D # {} PROVE FALSE
    OBVIOUS
  <2>2. D \in SUBSET Nat
    OBVIOUS
  <2>3. PICK m \in D : \A k \in D : m <= k
    BY <2>1, <2>2, LeastNatural
  <2>4. m \in 0..n /\ ~ ScanFound(words, line, h[m], m)
    OBVIOUS
  <2>5. m # 0
    <3>1. ScanFound(words, line, ScanStart, 0)
      BY DEF ScanFound, ScanStart, ScanStates
    <3> QED BY <1>3, <2>4, <3>1
  <2>6. m \in 1..n /\ m - 1 \in 0..n /\ ~ (m <= m - 1)
    BY <1>1, <2>4, <2>5
  <2>7. ScanFound(words, line, h[m - 1], m - 1)
    BY <2>3, <2>6
  <2>8. ScanFound(words, line, ScanNext(words, line, h[m - 1], m), m)
    BY <2>5, <2>6, <2>7, ScanFoundNext
  <2> QED BY <1>3, <2>4, <2>6, <2>8
<1>5. ScanFound(words, line, h[n], n)
  <2>1. n \in 0..n
    BY <1>1
  <2> QED BY <1>4, <2>1
<1>6. ASSUME NEW hit \in h[n].found
      PROVE  hit[1] \in Nat /\ hit[2] \in 1..Len(words) /\ PlacesOf(words[hit[2]], line) # {}
  <2>1. hit[1] \in Nat /\ hit[2] \in PlacesAt(words, line, hit[1])
    BY <1>5 DEF ScanFound
  <2>2. hit[2] \in DOMAIN words /\ hit[1] \in PlacesOf(words[hit[2]], line)
    BY <2>1 DEF PlacesAt
  <2>3. DOMAIN words = 1..Len(words)
    BY <1>1
  <2> QED BY <2>1, <2>2, <2>3
<1>7. ASSUME h[n].found = {}, NEW k \in 1..Len(words), NEW i \in PlacesOf(words[k], line)
      PROVE  FALSE
  <2>1. words[k] \in Seq(Chars) /\ words[k] # <<>> /\ k \in DOMAIN words
    BY <1>1
  <2>2. Len(words[k]) \in Nat /\ Len(words[k]) # 0
    BY <2>1
  <2>3. i \in 1..n
    BY <1>1, <1>7, <2>2 DEF PlacesOf
  <2>4. k \in PlacesAt(words, line, i)
    BY <1>7, <2>1 DEF PlacesAt
  <2> QED BY <1>5, <1>7, <2>3, <2>4 DEF ScanFound
<1> QED BY <1>2, <1>6, <1>7

-----------------------------------------------------------------------------
(* Matches of words in a version.                                          *)

\* Words as in a query, and the lines of a version.
VersionArguments(words, lines) ==
  words \in Seq(Seq(Chars) \ {<<>>}) /\ lines \in Seq(Seq(Chars))

AllMatches(words, lines) ==
  UNION {{Match(n, hit[1], hit[2]) : hit \in WordMatches(words, lines[n])} : n \in DOMAIN lines}

Before(m, o) == m.line < o.line \/ (m.line = o.line /\ m.col < o.col)

LEMMA FirstMatches ==
  ASSUME NEW words, NEW lines
  PROVE  FirstOfEachWord(words, lines) =
           {m \in AllMatches(words, lines) :
              \A o \in AllMatches(words, lines) : o.pattern = m.pattern => ~ Before(o, m)}
BY DEF FirstOfEachWord, AllMatches, Before

\* Every match is one of a word in a line.
LEMMA AllMatchesFacts ==
  ASSUME NEW words, NEW lines, VersionArguments(words, lines), NEW m \in AllMatches(words, lines)
  PROVE  /\ m = Match(m.line, m.col, m.pattern)
         /\ m.line \in DOMAIN lines /\ m.line \in Nat /\ m.col \in Nat
         /\ m.pattern \in 1..Len(words)
         /\ PlacesOf(words[m.pattern], lines[m.line]) # {}
<1>1. PICK n \in DOMAIN lines : m \in {Match(n, hit[1], hit[2]) : hit \in WordMatches(words, lines[n])}
  BY DEF AllMatches
<1>2. PICK hit \in WordMatches(words, lines[n]) : m = Match(n, hit[1], hit[2])
  BY <1>1
<1>3. n \in Nat /\ lines[n] \in Seq(Chars) /\ ScanArguments(words, lines[n])
  BY DEF VersionArguments, ScanArguments
<1>4. hit[1] \in Nat /\ hit[2] \in 1..Len(words) /\ PlacesOf(words[hit[2]], lines[n]) # {}
  BY <1>3, WordMatchesFacts
<1>5. m.line = n /\ m.col = hit[1] /\ m.pattern = hit[2]
  BY <1>2 DEF Match
<1> QED BY <1>2, <1>3, <1>4, <1>5

\* Two first matches of one word are the same.
LEMMA FirstUnique ==
  ASSUME NEW words, NEW lines, VersionArguments(words, lines),
         NEW m \in FirstOfEachWord(words, lines), NEW o \in FirstOfEachWord(words, lines),
         m.pattern = o.pattern
  PROVE  m = o
<1>1. m \in AllMatches(words, lines) /\ o \in AllMatches(words, lines) /\ ~ Before(o, m) /\ ~ Before(m, o)
  BY FirstMatches
<1>2. /\ m = Match(m.line, m.col, m.pattern) /\ m.line \in Nat /\ m.col \in Nat
      /\ o = Match(o.line, o.col, o.pattern) /\ o.line \in Nat /\ o.col \in Nat
  BY <1>1, AllMatchesFacts
<1>3. m.line = o.line /\ m.col = o.col
  BY <1>1, <1>2 DEF Before
<1> QED BY <1>2, <1>3

\* The word of a first match.
LEMMA PatternOf ==
  ASSUME NEW words, NEW lines, VersionArguments(words, lines)
  PROVE  LET found == FirstOfEachWord(words, lines)
             pattern == [m \in found |-> m.pattern]
         IN  /\ pattern \in Injection(found, 1..Len(words))
             /\ \A m \in found : \E n \in DOMAIN lines : PlacesOf(words[m.pattern], lines[n]) # {}
<1> DEFINE found == FirstOfEachWord(words, lines)
           pattern == [m \in found |-> m.pattern]
<1>1. \A m \in found : m \in AllMatches(words, lines)
  BY FirstMatches
<1>2. \A m, o \in found : m.pattern = o.pattern => m = o
  BY FirstUnique
<1> HIDE DEF found
<1>3. \A m \in found : /\ m.pattern \in 1..Len(words)
                       /\ \E n \in DOMAIN lines : PlacesOf(words[m.pattern], lines[n]) # {}
  BY <1>1, AllMatchesFacts
<1>4. pattern \in [found -> 1..Len(words)]
  BY <1>3
<1>5. \A a, b \in found : pattern[a] = pattern[b] => a = b
  BY <1>2
<1>6. pattern \in Injection(found, 1..Len(words))
  BY <1>4, <1>5 DEF Injection, IsInjective
<1> QED BY <1>3, <1>6 DEF found

\* In a match of a query each of its words is in a line.
LEMMA EveryWordIsThere ==
  ASSUME NEW q, q.kind = "plain", NEW lines, VersionArguments(q.words, lines),
         MatchesIn(q, lines) # {}, NEW k \in 1..Len(q.words)
  PROVE  \E n \in DOMAIN lines : PlacesOf(q.words[k], lines[n]) # {}
<1> DEFINE words == q.words
           found == FirstOfEachWord(words, lines)
           pattern == [m \in found |-> m.pattern]
           size == Len(words)
<1>1. Cardinality(found) = size
  BY DEF MatchesIn
<1>2. /\ pattern \in Injection(found, 1..size) /\ size \in Nat
      /\ \A m \in found : \E n \in DOMAIN lines : PlacesOf(words[m.pattern], lines[n]) # {}
  <2>1. VersionArguments(words, lines)
    OBVIOUS
  <2> HIDE DEF words
  <2>2. size \in Nat
    BY <2>1 DEF VersionArguments
  <2> QED BY <2>1, <2>2, PatternOf
<1> HIDE DEF found, words
<1>3. IsFiniteSet(1..size) /\ Cardinality(1..size) = size
  <2> HIDE DEF size
  <2>1. 1 \in Int /\ size \in Int /\ (IF 1 > size THEN 0 ELSE size - 1 + 1) = size
    BY <1>2
  <2> QED BY <2>1, FS_Interval
<1>4. pattern \in Surjection(found, 1..size)
  <2> HIDE DEF pattern, size
  <2> QED BY <1>1, <1>2, <1>3, FS_Injection
<1>5. PICK m \in found : pattern[m] = k
  BY <1>4 DEF Surjection, words
<1>6. m.pattern = k
  BY <1>5
<1> QED BY <1>2, <1>6 DEF words

\* A query of one word matches where the word is.
LEMMA SingleWord ==
  ASSUME NEW q, q.kind = "plain", NEW lines, VersionArguments(q.words, lines), Len(q.words) = 1,
         NEW n \in DOMAIN lines, PlacesOf(q.words[1], lines[n]) # {}
  PROVE  MatchesIn(q, lines) # {}
<1> DEFINE words == q.words
           all == AllMatches(words, lines)
           found == FirstOfEachWord(words, lines)
<1> HIDE DEF words
<1>1. VersionArguments(words, lines) /\ Len(words) = 1 /\ PlacesOf(words[1], lines[n]) # {}
  BY DEF words
<1>2. all # {}
  <2>1. ScanArguments(words, lines[n])
    BY <1>1 DEF VersionArguments, ScanArguments
  <2>2. WordMatches(words, lines[n]) # {}
    BY <1>1, <2>1, WordMatchesFacts
  <2>3. PICK hit \in WordMatches(words, lines[n]) : TRUE
    BY <2>2
  <2>4. Match(n, hit[1], hit[2]) \in all
    BY DEF AllMatches
  <2> QED BY <2>4
<1>3. \A m \in all : m.line \in Nat /\ m.col \in Nat /\ m.pattern = 1
  BY <1>1, AllMatchesFacts
<1> HIDE DEF all
<1> DEFINE L == {m.line : m \in all}
<1>4. PICK l \in L : \A k \in L : l <= k
  <2>1. L \in SUBSET Nat /\ L # {}
    BY <1>2, <1>3
  <2> QED BY <2>1, LeastNatural
<1> DEFINE C == {m.col : m \in {o \in all : o.line = l}}
<1>5. PICK c \in C : \A k \in C : c <= k
  <2>1. C \in SUBSET Nat /\ C # {}
    BY <1>3
  <2> QED BY <2>1, LeastNatural
<1>6. PICK m \in all : m.line = l /\ m.col = c
  OBVIOUS
<1>7. \A o \in all : ~ Before(o, m)
  <2>1. ASSUME NEW o \in all, Before(o, m) PROVE FALSE
    <3>1. o.line \in L /\ o.line \in Nat /\ o.col \in Nat /\ l \in Nat /\ c \in Nat
      BY <1>3, <1>6
    <3>2. l <= o.line /\ (o.line < l \/ (o.line = l /\ o.col < c))
      BY <1>4, <1>6, <2>1, <3>1 DEF Before
    <3>3. o.line = l /\ o.col < c
      BY <3>1, <3>2
    <3>4. o.col \in C
      BY <3>3
    <3>5. c <= o.col
      BY <1>5, <3>4
    <3> QED BY <3>1, <3>3, <3>5
  <2> QED BY <2>1
<1>8. m \in found
  BY <1>6, <1>7, FirstMatches DEF all
<1>9. \A o \in found : o = m
  <2>1. \A o \in found : o \in all
    BY FirstMatches DEF all
  <2> HIDE DEF found
  <2>2. \A o \in found : o.pattern = m.pattern
    BY <1>3, <1>6, <2>1
  <2> QED BY <1>1, <1>8, <2>2, FirstUnique DEF found
<1> HIDE DEF found
<1>10. found = {m}
  BY <1>8, <1>9
<1>11. Cardinality(found) = 1
  BY <1>10, FS_Singleton
<1> QED BY <1>1, <1>10, <1>11 DEF MatchesIn, found, words

-----------------------------------------------------------------------------
(* Matches of an expression in a version.                                  *)

\* An expression matches a version where it matches a line.
LEMMA RegexMatch ==
  ASSUME NEW q, q.kind = "regex", NEW lines \in Seq(Seq(Chars))
  PROVE  MatchesIn(q, lines) # {} <=> \E n \in DOMAIN lines : IsMatch(q.expression, lines[n])
<1> DEFINE e == q.expression
           hits == {n \in DOMAIN lines : IsMatch(e, lines[n])}
           first(n) == Min({span[1] : span \in Spans(e, lines[n])})
           shown == {n \in hits : Cardinality({m \in hits : m < n}) < MaxRegexMatches}
<1>1. MatchesIn(q, lines) = {Match(n, first(n) + 1, 0) : n \in shown}
  BY DEF MatchesIn, RegexMatches
<1>2. hits # {} => shown # {}
  <2>1. SUFFICES ASSUME hits # {} PROVE shown # {}
    OBVIOUS
  <2>2. hits \in SUBSET Nat
    OBVIOUS
  <2> HIDE DEF hits
  <2>3. PICK n \in hits : \A m \in hits : n <= m
    BY <2>1, <2>2, LeastNatural
  <2>4. {m \in hits : m < n} = {}
    <3>1. \A m \in hits : n \in Nat /\ m \in Nat /\ n <= m
      BY <2>2, <2>3
    <3>2. \A m \in hits : ~ (m < n)
      BY <3>1
    <3> QED BY <3>2
  <2>5. Cardinality({m \in hits : m < n}) = 0
    BY <2>4, FS_EmptySet
  <2>6. 0 < MaxRegexMatches
    BY DEF MaxRegexMatches
  <2> QED BY <2>3, <2>5, <2>6
<1>3. shown \subseteq hits
  OBVIOUS
<1> HIDE DEF shown, first
<1> QED BY <1>1, <1>2, <1>3

-----------------------------------------------------------------------------
(* Versions, and the words of their lines.                                 *)

\* A line that has a word has its trigrams.
LEMMA PlaceTrigrams ==
  ASSUME NEW word \in Seq(Chars), Len(word) >= 3, NEW line \in Seq(Chars), PlacesOf(word, line) # {}
  PROVE  TrigramsOf(word) \subseteq TrigramsOf(line)
<1> DEFINE m == Len(word)
           n == Len(line)
<1>1. m \in Nat /\ n \in Nat /\ m >= 3
  OBVIOUS
<1>2. PICK i \in 1..(n - m + 1) : SubSeq(line, i, i + m - 1) = word
  BY DEF PlacesOf
<1>3. n >= 3 /\ i \in Nat /\ i >= 1 /\ i + m - 1 <= n
  BY <1>1, <1>2
<1>4. \A x \in 1..m : word[x] = line[i + x - 1]
  <2>1. i \in 1..(n + 1) /\ i + m - 1 \in 0..n
    BY <1>1, <1>3
  <2>2. \A x \in 1..((i + m - 1) - i + 1) : SubSeq(line, i, i + m - 1)[x] = line[i + x - 1]
    BY <1>1, <2>1
  <2>3. (i + m - 1) - i + 1 = m
    BY <1>1, <1>3
  <2> QED BY <1>2, <2>2, <2>3
<1>5. ASSUME NEW j \in 1..(m - 2)
      PROVE  /\ i + j - 1 \in 1..(n - 2)
             /\ SubSeq(word, j, j + 2) = SubSeq(line, i + j - 1, (i + j - 1) + 2)
  <2> DEFINE k == i + j - 1
             s == SubSeq(word, j, j + 2)
             t == SubSeq(line, k, k + 2)
  <2>1. k \in 1..(n - 2) /\ j \in Nat /\ j >= 1 /\ j + 2 <= m
    BY <1>1, <1>3
  <2>2. j \in 1..(m + 1) /\ j + 2 \in 0..m /\ (j + 2) - j + 1 = 3
    BY <1>1, <2>1
  <2>3. s \in Seq(Chars) /\ Len(s) = 3 /\ \A x \in 1..3 : s[x] = word[j + x - 1]
    BY <2>2
  <2>4. k \in 1..(n + 1) /\ k + 2 \in 0..n /\ (k + 2) - k + 1 = 3
    BY <1>1, <2>1
  <2>5. t \in Seq(Chars) /\ Len(t) = 3 /\ \A x \in 1..3 : t[x] = line[k + x - 1]
    BY <2>4
  <2>6. ASSUME NEW x \in 1..3 PROVE word[j + x - 1] = line[k + x - 1]
    <3>1. j + x - 1 \in 1..m /\ i + (j + x - 1) - 1 = k + x - 1
      BY <1>1, <1>3, <2>1
    <3> QED BY <1>4, <3>1
  <2> HIDE DEF s, t, k
  <2>7. s = t
    <3>1. \A x \in 1..Len(s) : s[x] = t[x]
      BY <2>3, <2>5, <2>6
    <3> HIDE DEF m, n
    <3> QED BY ONLY <2>3, <2>5, <3>1, SeqEqual
  <2> QED BY <2>1, <2>7 DEF s, t, k
<1>6. TrigramsOf(word) = {SubSeq(word, j, j + 2) : j \in 1..(m - 2)}
  <2>1. word # <<>> /\ ~ (Len(word) <= 2)
    OBVIOUS
  <2>2. Range(Windows(word)) = {SubSeq(word, j, j + 2) : j \in 1..(m - 2)}
    BY DEF Range, Windows
  <2> QED BY <2>1, <2>2 DEF TrigramsOf
<1>7. TrigramsOf(line) = {SubSeq(line, j, j + 2) : j \in 1..(n - 2)}
  <2>1. line # <<>> /\ ~ (Len(line) <= 2)
    BY <1>3
  <2>2. Range(Windows(line)) = {SubSeq(line, j, j + 2) : j \in 1..(n - 2)}
    BY DEF Range, Windows
  <2> QED BY <2>1, <2>2 DEF TrigramsOf
<1> HIDE DEF m, n
<1> QED BY <1>5, <1>6, <1>7

\* The line of a text.
LEMMA LineOfFacts ==
  ASSUME NEW text \in LineTexts
  PROVE  LineOf[text] \in Seq(Chars) /\ TrigramsOf(LineOf[text]) = text
<1>1. Lines \subseteq Seq(Chars) /\ \E line \in Lines : TrigramsOf(line) = text
  BY LinesAssumption
<1>2. LineOf[text] = CHOOSE line \in Lines : TrigramsOf(line) = text
  BY DEF LineOf
<1>3. LineOf[text] \in Lines /\ TrigramsOf(LineOf[text]) = text
  BY <1>1, <1>2
<1> QED BY <1>1, <1>3

\* A version has a line for each text.
LEMMA VersionFacts ==
  ASSUME SearchInv, Searching, NEW f \in Files, NEW c \in 0..(commits - 1)
  PROVE  LET texts == repo[c + 1][f].lines
             lines == Version(f, c).lines
         IN  /\ texts \in Seq(LineTexts) /\ lines \in Seq(Seq(Chars))
             /\ DOMAIN lines = DOMAIN texts
             /\ \A n \in DOMAIN texts : /\ lines[n] = LineOf[texts[n]]
                                        /\ lines[n] \in Seq(Chars) /\ TrigramsOf(lines[n]) = texts[n]
             /\ Versions(f)[c] = Version(f, c)
<1> DEFINE content == repo[c + 1][f]
           texts == content.lines
           lines == Version(f, c).lines
           size == Len(texts)
<1>1. Shapes /\ commits \in Nat /\ commits <= Len(repo) /\ Len(repo) \in Nat
  BY SearchFacts
<1>2. c + 1 \in 1..Len(repo)
  BY <1>1
<1>3. texts \in Seq(LineTexts)
  BY <1>1, <1>2, PastFacts
<1>4. size \in Nat /\ DOMAIN texts = 1..size /\ \A n \in 1..size : texts[n] \in LineTexts
  BY <1>3
<1>5. lines = [n \in 1..size |-> LineOf[texts[n]]]
  <2>1. CASE content = Absent
    <3>1. texts = <<>> /\ size = 0
      BY <2>1 DEF Absent
    <3>2. lines = <<>>
      BY <2>1 DEF Version, NoFile
    <3> HIDE DEF texts, size, lines
    <3> QED BY <3>1, <3>2
  <2>2. CASE content # Absent
    BY <1>4, <2>2 DEF Version, File
  <2> QED BY <2>1, <2>2
<1> HIDE DEF content, lines, size
<1>6. \A n \in 1..size : lines[n] = LineOf[texts[n]]
  BY <1>5
<1>7. \A n \in 1..size : LineOf[texts[n]] \in Seq(Chars) /\ TrigramsOf(LineOf[texts[n]]) = texts[n]
  BY <1>4, LineOfFacts
<1>8. lines \in Seq(Seq(Chars)) /\ DOMAIN lines = 1..size
  BY <1>4, <1>5, <1>7
<1>9. Versions(f)[c] = Version(f, c)
  BY DEF Versions
<1> QED BY <1>3, <1>4, <1>6, <1>7, <1>8, <1>9 DEF content, lines

-----------------------------------------------------------------------------
(* What searches find.                                                     *)

\* Commit c has the bits of a text's words.
Bears(f, c, text) == \A w \in text : c \in Bits(f, w)

\* A file with a bit is one that searches see.
LEMMA BearsTracked ==
  ASSUME SearchInv, Searching, NEW f \in Searchable, NEW w, Bits(f, w) # {}
  PROVE  /\ f \in Files /\ index[f].tracked /\ f \in DOMAIN View.documents
         /\ View.documents[f] = index[f].document
         /\ w \in DOMAIN index[f].document.words /\ f \in DocsOf(View, w)
<1>1. f \in Files /\ Begun(f) /\ IndexInv
  BY SearchFacts DEF LinesInv
<1>2. index[f].tracked
  BY <1>1, UntrackedHasNone DEF Begun
<1>3. w \in DOMAIN index[f].document.words
  BY <1>1, BitsOfWords
<1> QED BY <1>1, <1>2, <1>3, ViewFacts, LookupFacts

\* A commit that has the words of a query, all of them long, is in a result.
LEMMA WordsFound ==
  ASSUME SearchInv, Searching, NEW f \in Searchable, NEW words \in Seq(Seq(Chars) \ {<<>>}),
         words # <<>>, \A k \in DOMAIN words : Len(words[k]) >= 3,
         NEW c \in CommitsToSearch(View, index[f].document),
         \A k \in DOMAIN words : \A w \in TrigramsOf(words[k]) : c \in Bits(f, w)
  PROVE  \E r \in RawWordSearch(View, words).results : r.file = f /\ c \in r.commits
<1> DEFINE docs == {g \in DOMAIN View.documents :
                      \A i \in DOMAIN words : g \in DocsWithWord(View, words[i])}
           doc(g) == View.documents[g]
           commitsOf(g) == {b \in CommitsToSearch(View, doc(g)) :
                              \A i \in DOMAIN words : b \in HistoryOfWord(View, doc(g), words[i])}
           d == index[f].document
<1>1. \A k \in DOMAIN words : words[k] \in Seq(Chars) /\ words[k] # <<>> /\ ~ (ByteLen(words[k]) <= 2)
  <2>1. ASSUME NEW k \in DOMAIN words
        PROVE  words[k] \in Seq(Chars) /\ words[k] # <<>> /\ ~ (ByteLen(words[k]) <= 2)
    <3>1. words[k] \in Seq(Chars) /\ words[k] # <<>>
      OBVIOUS
    <3> QED BY <3>1, ByteLenFacts
  <2> QED BY <2>1
<1>2. f \in Files /\ index[f].tracked /\ f \in DOMAIN View.documents /\ doc(f) = d
  <2>1. 1 \in DOMAIN words
    OBVIOUS
  <2>2. PICK w \in TrigramsOf(words[1]) : TRUE
    BY <1>1, <2>1, HasTrigrams
  <2> QED BY <2>1, <2>2, BearsTracked
<1>3. ASSUME NEW k \in DOMAIN words PROVE f \in DocsWithWord(View, words[k])
  <2>1. \A w \in TrigramsOf(words[k]) : f \in DocsOf(View, w)
    BY BearsTracked
  <2> QED BY <1>1, <1>2, <2>1 DEF DocsWithWord
<1>4. ASSUME NEW k \in DOMAIN words PROVE c \in HistoryOfWord(View, d, words[k])
  <2>1. \A bits \in Bitmaps(d, TrigramsOf(words[k])) : c \in bits
    <3>1. Bitmaps(View.documents[f], TrigramsOf(words[k]))
            = {Bits(f, w) : w \in TrigramsOf(words[k]) \cap DOMAIN d.words}
      BY <1>2, BitmapsFacts
    <3> QED BY <1>2, <3>1
  <2> QED BY <1>1, <2>1 DEF HistoryOfWord
<1>5. f \in docs /\ c \in commitsOf(f)
  <2>1. f \in docs
    BY <1>2, <1>3
  <2>2. c \in commitsOf(f)
    BY <1>2, <1>4
  <2> QED BY <2>1, <2>2
<1>6. RawWordSearch(View, words).outcome = "ok"
  BY WordSearchEnds
<1>7. RawWordSearch(View, words).results = {RawResult(g, commitsOf(g)) : g \in {b \in docs : commitsOf(b) # {}}}
  BY <1>6 DEF RawWordSearch, SearchPanics, Found
<1> HIDE DEF docs, commitsOf
<1>8. RawResult(f, commitsOf(f)) \in RawWordSearch(View, words).results
  BY <1>5, <1>7
<1>9. RawResult(f, commitsOf(f)).file = f /\ RawResult(f, commitsOf(f)).commits = commitsOf(f)
  BY DEF RawResult
<1> QED BY <1>5, <1>8, <1>9

\* Where a word is looked for makes no difference to which words match.
LEMMA MatchingElsewhere ==
  ASSUME NEW trigram, NEW words, NEW others, NEW w \in others, w \in MatchingWords(trigram, words)
  PROVE  w \in MatchingWords(trigram, others)
BY DEF MatchingWords

\* A commit that has, for each trigram of a candidate, a word of a text, is in a result.
LEMMA CandidateFound ==
  ASSUME SearchInv, Searching, NEW f \in Searchable, NEW e, NEW c \in 0..(finalized - 1),
         c \in CommitsToSearch(View, index[f].document),
         RegexSearch(View, e).outcome = "ok",
         NEW cand \in Demanding(BuildCandidates(View, e).candidates),
         NEW text, Bears(f, c, text),
         \A i \in DOMAIN cand : \E w \in text : w \in MatchingWords(cand[i], text)
  PROVE  \E r \in RegexSearch(View, e).results : r.file = f /\ c \in r.commits
<1> DEFINE d == index[f].document
           candidates == Demanding(BuildCandidates(View, e).candidates)
           docs(x) == {g \in CandidateDocs(View, x) : CanMatchTrigrams(View.documents[g], x)}
           history(x, g) == HistoryOfTrigrams(View, View.documents[g], x)
<1>1. ASSUME NEW w \in text
      PROVE  /\ f \in DocsOf(View, w) /\ w \in DOMAIN d.words /\ c \in Bits(f, w)
             /\ w \in View.all_words /\ d.all_words # <<>> /\ w \in d.all_words[1]
             /\ f \in Files /\ index[f].tracked /\ f \in DOMAIN View.documents /\ View.documents[f] = d
  <2>1. c \in Bits(f, w)
    BY DEF Bears
  <2>2. /\ f \in DocsOf(View, w) /\ w \in DOMAIN d.words /\ f \in Files /\ index[f].tracked
        /\ f \in DOMAIN View.documents /\ View.documents[f] = d
    BY <2>1, BearsTracked
  <2>3. w \in Words
    BY <2>1, <2>2, SearchFacts, BitsOfWords
  <2>4. Published(f, w) # {}
    BY <2>1 DEF Published
  <2>5. w \in all_words /\ d.all_words # <<>> /\ w \in d.all_words[1]
    BY <2>3, <2>4 DEF SearchInv, Listed
  <2> QED BY <2>1, <2>2, <2>5, ViewFacts
<1>2. PICK i \in DOMAIN cand : TRUE
  BY DEF Demanding
<1>3. \A x \in DOMAIN cand : \E w \in text : w \in MatchingWords(cand[x], text)
  OBVIOUS
<1>4. /\ f \in Files /\ index[f].tracked /\ f \in DOMAIN View.documents /\ View.documents[f] = d
      /\ d.all_words # <<>>
  BY <1>1, <1>2, <1>3
<1>5. f \in CandidateDocs(View, cand)
  <2>1. ASSUME NEW x \in DOMAIN cand
        PROVE  \E w \in MatchingWords(cand[x], View.all_words) : f \in DocsOf(View, w)
    BY <1>1, <1>3, MatchingElsewhere
  <2> QED BY <1>4, <2>1 DEF CandidateDocs
<1>6. ASSUME NEW x \in DOMAIN cand
      PROVE  \E bits \in Bitmaps(View.documents[f], MatchingWords(cand[x], d.all_words[1])) : c \in bits
  <2> DEFINE words == MatchingWords(cand[x], d.all_words[1])
  <2>1. PICK w \in text : w \in words
    BY <1>1, <1>3, MatchingElsewhere
  <2> HIDE DEF words
  <2>2. Bitmaps(View.documents[f], words) = {Bits(f, v) : v \in words \cap DOMAIN d.words}
    BY <1>4, BitmapsFacts
  <2>3. w \in words \cap DOMAIN d.words /\ c \in Bits(f, w)
    BY <1>1, <2>1
  <2> HIDE DEF d
  <2>4. \E bits \in Bitmaps(View.documents[f], words) : c \in bits
    BY <2>2, <2>3
  <2> QED BY <2>4 DEF words, d
<1>7. f \in docs(cand)
  <2>1. CanMatchTrigrams(View.documents[f], cand)
    BY <1>4, <1>6 DEF CanMatchTrigrams
  <2> QED BY <1>5, <2>1
<1>8. c \in history(cand, f)
  BY <1>4, <1>6 DEF HistoryOfTrigrams
<1>9. RegexSearch(View, e).results = UNION {{RawResult(g, history(x, g)) : g \in docs(x)} : x \in candidates}
  BY DEF RegexSearch, SearchPanics, SearchRefused, Found
<1> HIDE DEF docs, history, candidates
<1>10. RawResult(f, history(cand, f)) \in RegexSearch(View, e).results
  BY <1>7, <1>9 DEF candidates
<1>11. RawResult(f, history(cand, f)).file = f /\ RawResult(f, history(cand, f)).commits = history(cand, f)
  BY DEF RawResult
<1> QED BY <1>8, <1>10, <1>11

-----------------------------------------------------------------------------
(* What is shown of a result.                                              *)

\* Of commits that can all be read and one of which matches, the first that does is shown,
\* and the head, if it does.
LEMMA ShownFacts ==
  ASSUME NEW q, NEW head \in Nat, NEW named \in SUBSET (0..head), NEW versions,
         \A c \in named : versions[c].exists,
         NEW at \in named, MatchesIn(q, versions[at].lines) # {}
  PROVE  LET matching == {c \in named : MatchesIn(q, versions[c].lines) # {}}
             shown    == FromRaw(q, named, versions, head)
         IN  /\ shown.first.commit = Min(matching)
             /\ at = head => shown.first.is_head \/ shown.last.is_head
<1> DEFINE matching == {c \in named : MatchesIn(q, versions[c].lines) # {}}
           first == Min(matching)
           later == {c \in matching : c > first}
           shownAt(c) == ResultAt(q, versions[c], c, head)
           shown == FromRaw(q, named, versions, head)
<1>1. matching = {c \in named : versions[c].exists /\ MatchesIn(q, versions[c].lines) # {}}
  OBVIOUS
<1>2. matching # {} /\ at \in matching /\ matching \in SUBSET Nat /\ \A c \in matching : c <= head
  <2>1. \A c \in named : c \in Nat /\ c <= head
    OBVIOUS
  <2>2. at \in matching
    OBVIOUS
  <2> QED BY <2>1, <2>2
<1>3. shown = Shown(shownAt(first), IF later = {} THEN NoMatch ELSE shownAt(Max(later)))
  <2>1. \A c \in named : versions[c].exists
    OBVIOUS
  <2> HIDE DEF shownAt
  <2> QED BY <1>1, <1>2, <2>1 DEF FromRaw, shownAt
<1>4. \A c \in matching : shownAt(c).commit = c /\ shownAt(c).is_head = (c = head)
  BY DEF ResultAt
<1> HIDE DEF matching
<1>5. first \in matching /\ first <= at
  BY <1>2, MinOf
<1> HIDE DEF shownAt
<1>6. shown.first = shownAt(first) /\ shown.last = IF later = {} THEN NoMatch ELSE shownAt(Max(later))
  BY <1>3 DEF Shown
<1>7. ASSUME at = head, first # head PROVE shown.last.is_head
  <2> HIDE DEF first, shown
  <2>1. first \in Nat /\ head > first /\ head \in matching
    BY <1>2, <1>5, <1>7
  <2>2. later \in SUBSET Int /\ head \in later /\ \A c \in later : head >= c
    <3>1. \A c \in matching : c \in Nat /\ head >= c
      BY <1>2
    <3>2. \A c \in later : c \in matching
      OBVIOUS
    <3>3. head \in later
      BY <2>1
    <3> HIDE DEF later
    <3> QED BY <3>1, <3>2, <3>3
  <2> HIDE DEF later
  <2>3. Max(later) = head
    BY <2>2, LastBitIs DEF LastBit, IsLast
  <2> QED BY <1>4, <1>6, <2>1, <2>2, <2>3
<1>8. shown.first.commit = first /\ (first = head => shown.first.is_head)
  BY <1>4, <1>5, <1>6
<1> QED BY <1>7, <1>8 DEF matching

\* The commits of a raw result that match.
MatchingCommits(q, r) == {c \in r.commits : MatchesIn(q, Version(r.file, c).lines) # {}}

\* A raw result with a commit that matches, and what is shown of it.
LEMMA ResultShown ==
  ASSUME SearchInv, answer # NoAnswer, NEW q, q = answer.query,
         NEW r \in Search(View, q).results, r.file \in Searchable,
         NEW at \in r.commits, MatchesIn(q, Version(r.file, at).lines) # {}
  PROVE  /\ r.commits \subseteq 0..(commits - 1)
         /\ \E result \in answer.results :
              /\ result.raw.file = r.file
              /\ result.shown.first.commit = Min(MatchingCommits(q, r))
              /\ at = commits - 1 => result.shown.first.is_head \/ result.shown.last.is_head
<1> DEFINE head == commits - 1
           f == r.file
           versions == Versions(f)
           named == r.commits
           shown == FromRaw(q, named, versions, head)
           result == [raw |-> r, shown |-> shown]
<1>1. Searching /\ result \in answer.results
  BY AnswerFacts
<1>2. Sound(r) /\ f \in Files
  BY AllSound DEF Searchable
<1>3. \A c \in named : c \in 0..head /\ Version(f, c).exists
  BY <1>1, <1>2, ReadableAt DEF Sound
<1>4. \A c \in named : versions[c] = Version(f, c)
  BY <1>1, <1>2, <1>3, VersionFacts
<1>5. head \in Nat /\ named \in SUBSET (0..head)
  BY <1>1, <1>3, SearchFacts
<1> HIDE DEF versions, head
<1>6. /\ \A c \in named : versions[c].exists
      /\ at \in named /\ MatchesIn(q, versions[at].lines) # {}
  BY <1>3, <1>4
<1>7. {c \in named : MatchesIn(q, versions[c].lines) # {}} = MatchingCommits(q, r)
  BY <1>4 DEF MatchingCommits
<1>8. /\ shown.first.commit = Min({c \in named : MatchesIn(q, versions[c].lines) # {}})
      /\ at = head => shown.first.is_head \/ shown.last.is_head
  BY ONLY <1>5, <1>6, ShownFacts
<1> HIDE DEF shown
<1>9. result.raw = r /\ result.shown = shown
  OBVIOUS
<1> QED BY <1>1, <1>5, <1>7, <1>8, <1>9 DEF head

-----------------------------------------------------------------------------
(* Functions defined by recursion.                                         *)

\* A set that holds 0 and what comes after each of its elements holds all of 0..n.
LEMMA UpTo ==
  ASSUME NEW n \in Nat, NEW S, 0 \in S, \A i \in 1..n : i - 1 \in S => i \in S
  PROVE  \A i \in 0..n : i \in S
<1> DEFINE D == {i \in 0..n : i \notin S}
<1>1. CASE D = {}
  BY <1>1
<1>2. CASE D # {}
  <2>1. D \in SUBSET Nat
    OBVIOUS
  <2>2. PICK i \in D : \A j \in D : i <= j
    BY <1>2, <2>1, LeastNatural
  <2>3. i \in 1..n /\ i - 1 \in 0..n /\ ~ (i <= i - 1) /\ i \notin S
    OBVIOUS
  <2>4. i - 1 \in S
    BY <2>2, <2>3
  <2> QED BY <2>3, <2>4
<1> QED BY <1>1, <1>2

\* The parts of an expression are less deep than it.
Below(D, x) == {y \in DOMAIN D : D[y] < D[x]}

\* f is a solution of the recursion at all x of depth below n.
Solves(f, step, D, n) == \A x \in DOMAIN D : D[x] < n => step[f][x] = f[x]

\* The step of a recursion, which at each x looks at what is below x.
LooksBelow(step, E, D, V) ==
  /\ step \in [[E -> V] -> [E -> V]]
  /\ \A g, h \in [E -> V], x \in E :
       (\A y \in Below(D, x) : g[y] = h[y]) => step[g][x] = step[h][x]

\* It has a fixed point.
LEMMA RecursionExists ==
  ASSUME NEW E, NEW D \in [E -> Nat], NEW V, NEW v \in V, NEW step, LooksBelow(step, E, D, V)
  PROVE  \E f \in [E -> V] : f = step[f]
<1> DEFINE F == [E -> V]
<1> USE DEF LooksBelow
<1>1. ASSUME NEW n \in Nat, NEW g \in F, NEW h \in F, Solves(g, step, D, n), Solves(h, step, D, n),
             NEW x \in E, D[x] < n
      PROVE  g[x] = h[x]
  <2> DEFINE S == {m \in Nat : \E y \in E : D[y] = m /\ m < n /\ g[y] # h[y]}
  <2>1. SUFFICES ASSUME g[x] # h[x] PROVE FALSE
    OBVIOUS
  <2>2. S \in SUBSET Nat /\ D[x] \in S
    BY <1>1, <2>1
  <2>3. PICK m \in S : \A k \in S : m <= k
    BY <2>2, LeastNatural
  <2>4. PICK y \in E : D[y] = m /\ m < n /\ g[y] # h[y]
    BY <2>3
  <2>5. ASSUME NEW z \in Below(D, y) PROVE g[z] = h[z]
    <3>1. z \in E /\ D[z] \in Nat /\ D[z] < m /\ ~ (m <= D[z]) /\ D[z] < n
      BY <2>4 DEF Below
    <3> QED BY <2>3, <3>1
  <2>6. step[g][y] = step[h][y]
    BY <2>4, <2>5
  <2>7. step[g][y] = g[y] /\ step[h][y] = h[y]
    BY <1>1, <2>4 DEF Solves
  <2> QED BY <2>4, <2>6, <2>7
<1>2. ASSUME NEW n \in Nat PROVE \E f \in F : Solves(f, step, D, n)
  <2> DEFINE S == {m \in Nat : \E f \in F : Solves(f, step, D, m)}
  <2>1. 0 \in S
    <3>1. [x \in E |-> v] \in F
      OBVIOUS
    <3>2. Solves([x \in E |-> v], step, D, 0)
      BY DEF Solves
    <3> QED BY <3>1, <3>2
  <2>2. ASSUME NEW i \in 1..n, i - 1 \in S PROVE i \in S
    <3>1. PICK f \in F : Solves(f, step, D, i - 1)
      BY <2>2
    <3>2. step[f] \in F
      OBVIOUS
    <3>3. ASSUME NEW x \in DOMAIN D, D[x] < i PROVE step[step[f]][x] = step[f][x]
      <4>1. \A y \in Below(D, x) : step[f][y] = f[y]
        <5>1. ASSUME NEW y \in Below(D, x) PROVE step[f][y] = f[y]
          <6>1. y \in DOMAIN D /\ D[y] < i - 1
            BY <3>3 DEF Below
          <6> QED BY <3>1, <6>1 DEF Solves
        <5> QED BY <5>1
      <4> QED BY <3>2, <4>1
    <3>4. Solves(step[f], step, D, i)
      BY <3>3 DEF Solves
    <3> QED BY <3>2, <3>4
  <2> HIDE DEF S
  <2>3. \A i \in 0..n : i \in S
    BY <2>1, <2>2, UpTo
  <2>4. n \in S
    BY <2>3
  <2> QED BY <2>4 DEF S
<1> DEFINE at(x) == CHOOSE f \in F : Solves(f, step, D, D[x] + 1)
           f == [x \in E |-> at(x)[x]]
<1>3. ASSUME NEW x \in E PROVE at(x) \in F /\ Solves(at(x), step, D, D[x] + 1)
  <2>1. \E g \in F : Solves(g, step, D, D[x] + 1)
    BY <1>2
  <2> QED BY <2>1
<1> HIDE DEF at
<1>4. f \in F
  BY <1>3
<1>5. ASSUME NEW x \in E PROVE step[f][x] = f[x]
  <2>1. ASSUME NEW y \in Below(D, x) PROVE f[y] = at(x)[y]
    <3>1. y \in E /\ D[y] \in Nat /\ D[x] \in Nat /\ D[y] < D[x]
      BY DEF Below
    <3>2. Solves(at(x), step, D, D[y] + 1)
      BY <1>3, <3>1 DEF Solves
    <3>3. at(y)[y] = at(x)[y]
      <4> HIDE DEF F
      <4>1. D[y] + 1 \in Nat /\ D[y] < D[y] + 1
        BY <3>1
      <4> QED BY <1>1, <1>3, <3>1, <3>2, <4>1
    <3> QED BY <3>1, <3>3
  <2>2. step[f][x] = step[at(x)][x]
    <3> HIDE DEF f
    <3> QED BY <1>3, <1>4, <2>1
  <2>3. step[at(x)][x] = at(x)[x]
    BY <1>3 DEF Solves
  <2> QED BY <2>2, <2>3
<1> HIDE DEF f
<1>6. f = step[f]
  <2>1. step[f] \in F
    BY <1>4
  <2> QED BY <1>4, <1>5, <2>1
<1> QED BY <1>4, <1>6

-----------------------------------------------------------------------------
(* What an expression matches.                                             *)

\* The places of a line, spans between them, and the empty spans.
Places(line) == 0..Len(line)
SpansIn(line) == SUBSET (Places(line) \X Places(line))
Still(line) == {<<i, i>> : i \in Places(line)}

LEMMA ThenFacts ==
  ASSUME NEW P, NEW r \in SUBSET (P \X P), NEW s \in SUBSET (P \X P)
  PROVE  /\ Then(r, s) \in SUBSET (P \X P)
         /\ \A i, j \in P : <<i, j>> \in Then(r, s) <=> \E k \in P : <<i, k>> \in r /\ <<k, j>> \in s
<1> DEFINE both == {y \in r \X s : y[1][2] = y[2][1]}
<1>1. Then(r, s) = {<<x[1][1], x[2][2]>> : x \in both}
  BY DEF Then
<1>2. ASSUME NEW x \in both
      PROVE  \E i, j, k \in P : x = <<<<i, k>>, <<k, j>>>> /\ <<i, k>> \in r /\ <<k, j>> \in s
  <2>1. PICK u \in r, v \in s : x = <<u, v>>
    OBVIOUS
  <2>2. PICK i \in P, k \in P : u = <<i, k>>
    OBVIOUS
  <2>3. PICK l \in P, j \in P : v = <<l, j>>
    OBVIOUS
  <2>4. k = l
    BY <2>1, <2>2, <2>3
  <2> QED BY <2>1, <2>2, <2>3, <2>4
<1>3. ASSUME NEW i \in P, NEW j \in P, NEW k \in P, <<i, k>> \in r, <<k, j>> \in s
      PROVE  <<<<i, k>>, <<k, j>>>> \in both
  BY <1>3
<1> HIDE DEF both
<1>4. ASSUME NEW t \in Then(r, s)
      PROVE  \E i, j, k \in P : t = <<i, j>> /\ <<i, k>> \in r /\ <<k, j>> \in s
  <2>1. PICK x \in both : t = <<x[1][1], x[2][2]>>
    BY <1>1
  <2>2. PICK i \in P, j \in P, k \in P : x = <<<<i, k>>, <<k, j>>>> /\ <<i, k>> \in r /\ <<k, j>> \in s
    BY <1>2
  <2> QED BY <2>1, <2>2
<1>5. ASSUME NEW i \in P, NEW j \in P, NEW k \in P, <<i, k>> \in r, <<k, j>> \in s
      PROVE  <<i, j>> \in Then(r, s)
  <2>1. <<<<i, k>>, <<k, j>>>> \in both
    BY <1>3, <1>5
  <2> QED BY <1>1, <2>1
<1>6. Then(r, s) \in SUBSET (P \X P)
  <2>1. ASSUME NEW t \in Then(r, s) PROVE t \in P \X P
    <3>1. PICK i \in P, j \in P : t = <<i, j>>
      BY <1>4
    <3> QED BY <3>1
  <2> QED BY <2>1
<1>7. ASSUME NEW i \in P, NEW j \in P, <<i, j>> \in Then(r, s)
      PROVE  \E k \in P : <<i, k>> \in r /\ <<k, j>> \in s
  BY <1>4, <1>7
<1> QED BY <1>5, <1>6, <1>7

\* One after the other, by the recursive function.
LEMMA Rows ==
  ASSUME NEW line, Len(line) \in Nat, NEW s \in Seq(SpansIn(line))
  PROVE  \E row \in [0..Len(s) -> SpansIn(line)] :
           /\ row[0] = Still(line)
           /\ \A i \in 1..Len(s) : row[i] = Then(row[i - 1], s[i])
           /\ InARow(Still(line), s) = row[Len(s)]
<1> DEFINE n == Len(s)
           S == SpansIn(line)
           s0 == Still(line)
           g == [x \in S \X (1..n) |-> Then(x[1], s[x[2]])]
           row == CHOOSE h : h = [i \in 0..n |-> IF i = 0 THEN s0 ELSE Then(h[i - 1], s[i])]
<1>1. n \in Nat /\ \A i \in 1..n : s[i] \in S
  BY SeqElements
<1>2. s0 \in S
  BY DEF Still, SpansIn, Places
<1>3. g \in [S \X (1..n) -> S]
  <2>1. \A x \in S \X (1..n) : x[1] \in S /\ s[x[2]] \in S
    BY <1>1
  <2>2. \A x \in S \X (1..n) : Then(x[1], s[x[2]]) \in S
    BY <2>1, ThenFacts DEF SpansIn
  <2> HIDE DEF S, n
  <2> QED BY <2>2
<1>4. \A x \in S, i \in 1..n : g[<<x, i>>] = Then(x, s[i])
  OBVIOUS
<1>5. InARow(s0, s) = row[n]
  BY DEF InARow
<1>6. n \in 0..n
  BY <1>1
<1> HIDE DEF n, S, s0, g
<1>7. PICK h \in [0..n -> S] : Iterates(h, s0, g, n)
  BY <1>1, <1>2, <1>3, IterateExists
<1>8. \A i \in 0..n : i # 0 => h[i - 1] \in S /\ i \in 1..n
  <2>1. \A i \in 0..n : i # 0 => i - 1 \in 0..n /\ i \in 1..n
    BY <1>1
  <2> QED BY <2>1
<1>9. \A i \in 0..n : (IF i = 0 THEN s0 ELSE g[<<h[i - 1], i>>]) = IF i = 0 THEN s0 ELSE Then(h[i - 1], s[i])
  BY <1>4, <1>8
<1>10. h = [i \in 0..n |-> IF i = 0 THEN s0 ELSE Then(h[i - 1], s[i])]
  BY <1>7, <1>9 DEF Iterates
<1>11. row = [i \in 0..n |-> IF i = 0 THEN s0 ELSE Then(row[i - 1], s[i])]
  BY <1>10
<1> HIDE DEF row
<1>12. row[0] = s0 /\ \A i \in 1..n : row[i] = Then(row[i - 1], s[i])
  <2>1. 0 \in 0..n /\ \A i \in 1..n : i \in 0..n /\ i # 0
    BY <1>1
  <2> QED BY <1>11, <2>1
<1>13. ASSUME NEW i \in 0..n PROVE row[i] \in S
  <2> DEFINE T == {j \in 0..n : row[j] \in S}
  <2>1. 0 \in T
    BY <1>1, <1>2, <1>12
  <2>2. ASSUME NEW j \in 1..n, j - 1 \in T PROVE j \in T
    <3>1. Then(row[j - 1], s[j]) \in S
      <4>1. row[j - 1] \in S /\ s[j] \in S
        BY <1>1, <2>2
      <4> QED BY <4>1, ThenFacts DEF S, SpansIn
    <3>2. j \in 0..n
      BY <1>1
    <3> QED BY <1>12, <3>1, <3>2
  <2> HIDE DEF T
  <2>3. i \in T
    BY <1>1, <2>1, <2>2, UpTo
  <2> QED BY <2>3 DEF T
<1>14. row \in [0..n -> S]
  BY <1>11, <1>13
<1> QED BY <1>5, <1>12, <1>14 DEF n, S, s0

LEMMA RowType ==
  ASSUME NEW line, Len(line) \in Nat, NEW s \in Seq(SpansIn(line))
  PROVE  InARow(Still(line), s) \in SpansIn(line)
<1>1. PICK row \in [0..Len(s) -> SpansIn(line)] : InARow(Still(line), s) = row[Len(s)]
  BY Rows
<1>2. Len(s) \in 0..Len(s)
  OBVIOUS
<1> QED BY <1>1, <1>2

\* A span of a row goes from place to place.
Path(p, s, line) ==
  /\ p \in [0..Len(s) -> Places(line)]
  /\ \A i \in 1..Len(s) : <<p[i - 1], p[i]>> \in s[i]

LEMMA PathOfRow ==
  ASSUME NEW line, Len(line) \in Nat, NEW s \in Seq(SpansIn(line)),
         NEW i \in Places(line), NEW j \in Places(line), <<i, j>> \in InARow(Still(line), s)
  PROVE  \E p : Path(p, s, line) /\ p[0] = i /\ p[Len(s)] = j
<1> DEFINE n == Len(s)
           P == Places(line)
<1>1. PICK row \in [0..n -> SpansIn(line)] :
        /\ row[0] = Still(line)
        /\ \A m \in 1..n : row[m] = Then(row[m - 1], s[m])
        /\ InARow(Still(line), s) = row[n]
  BY Rows
<1>2. n \in Nat /\ \A m \in 1..n : s[m] \in SUBSET (P \X P)
  BY SeqElements DEF SpansIn
<1>3. \A m \in 0..n : row[m] \in SUBSET (P \X P)
  BY <1>1 DEF SpansIn
<1> DEFINE leads(p, m, k) == /\ p \in [0..m -> P] /\ p[0] = i /\ p[m] = k
                             /\ \A l \in 1..m : <<p[l - 1], p[l]>> \in s[l]
           T == {m \in 0..n : \A k \in P : <<i, k>> \in row[m] => \E p : leads(p, m, k)}
<1>4. 0 \in T
  <2>1. ASSUME NEW k \in P, <<i, k>> \in row[0] PROVE \E p : leads(p, 0, k)
    <3>1. k = i
      BY <1>1, <2>1 DEF Still
    <3>2. leads([x \in 0..0 |-> i], 0, k)
      BY <3>1
    <3> QED BY <3>2
  <2> HIDE DEF leads
  <2> QED BY <1>2, <2>1
<1>5. ASSUME NEW m \in 1..n, m - 1 \in T PROVE m \in T
  <2>1. m \in 0..n /\ m \in Nat /\ m - 1 \in 0..n /\ m - 1 \in Nat
    BY <1>2
  <2>2. ASSUME NEW k \in P, <<i, k>> \in row[m] PROVE \E p : leads(p, m, k)
    <3>1. PICK l \in P : <<i, l>> \in row[m - 1] /\ <<l, k>> \in s[m]
      <4>1. row[m] = Then(row[m - 1], s[m])
        BY <1>1
      <4>2. row[m - 1] \in SUBSET (P \X P) /\ s[m] \in SUBSET (P \X P)
        BY <1>2, <1>3, <2>1
      <4> HIDE DEF P
      <4>3. i \in P
        BY DEF P
      <4>4. <<i, k>> \in Then(row[m - 1], s[m]) <=>
              \E l \in P : <<i, l>> \in row[m - 1] /\ <<l, k>> \in s[m]
        BY <4>2, <4>3, ThenFacts
      <4> QED BY <2>2, <4>1, <4>4
    <3>2. PICK p : leads(p, m - 1, l)
      BY <1>5, <3>1
    <3>3. /\ p \in [0..(m - 1) -> P] /\ p[0] = i /\ p[m - 1] = l
          /\ \A x \in 1..(m - 1) : <<p[x - 1], p[x]>> \in s[x]
      BY <3>2
    <3> DEFINE q == [x \in 0..m |-> IF x = m THEN k ELSE p[x]]
    <3>4. \A x \in 0..m : x # m => x \in 0..(m - 1)
      BY <2>1
    <3>5. q \in [0..m -> P]
      BY <3>3, <3>4
    <3>6. q[0] = i /\ q[m] = k
      BY <2>1, <3>3
    <3>7. ASSUME NEW x \in 1..m PROVE <<q[x - 1], q[x]>> \in s[x]
      <4>1. CASE x = m
        <5>1. q[m - 1] = l
          BY <2>1, <3>3
        <5> HIDE DEF q
        <5> QED BY <3>1, <3>6, <4>1, <5>1
      <4>2. CASE x # m
        <5>1. x \in 1..(m - 1) /\ x - 1 \in 0..m /\ x - 1 # m /\ x \in 0..m
          BY <2>1, <4>2
        <5>2. q[x] = p[x] /\ q[x - 1] = p[x - 1]
          BY <4>2, <5>1
        <5> HIDE DEF q
        <5> QED BY <3>3, <5>1, <5>2
      <4> QED BY <4>1, <4>2
    <3> HIDE DEF q
    <3>8. leads(q, m, k)
      BY <3>5, <3>6, <3>7
    <3> QED BY <3>8
  <2> HIDE DEF leads
  <2> QED BY <2>1, <2>2
<1> HIDE DEF T
<1>6. n \in T
  <2>1. n \in 0..n
    BY <1>2
  <2>2. \A m \in 0..n : m \in T
    BY <1>2, <1>4, <1>5, UpTo
  <2> QED BY <2>1, <2>2
<1>7. \E p : leads(p, n, j)
  BY <1>1, <1>6 DEF T
<1> QED BY <1>7 DEF Path

\* The spans of a text, and of a character of a class.
TextIn(text, line) == {<<i - 1, i - 1 + Len(text)>> : i \in PlacesOf(text, line)}
OneOf(chars, line) == {<<i - 1, i>> : i \in {k \in DOMAIN line : line[k] \in chars}}

LEMMA TextSpans ==
  ASSUME NEW line \in Seq(Chars), NEW text \in Seq(Chars), text # <<>>
  PROVE  /\ TextIn(text, line) \in SpansIn(line)
         /\ \A i, j \in Places(line) : <<i, j>> \in TextIn(text, line) =>
              /\ i + Len(text) = j
              /\ \A k \in 1..Len(text) : line[i + k] = text[k]
<1> DEFINE n == Len(text)
           N == Len(line)
           spans == {<<i - 1, i - 1 + Len(text)>> : i \in PlacesOf(text, line)}
<1>1. n \in Nat /\ n # 0 /\ N \in Nat
  OBVIOUS
<1>2. \A i \in PlacesOf(text, line) :
        i \in 1..(N - n + 1) /\ SubSeq(line, i, i + n - 1) = text
  BY DEF PlacesOf
<1>3. ASSUME NEW i \in PlacesOf(text, line)
      PROVE  <<i - 1, i - 1 + n>> \in Places(line) \X Places(line)
  <2>1. i - 1 \in 0..N /\ i - 1 + n \in 0..N
    BY <1>1, <1>2
  <2> QED BY <2>1 DEF Places
<1>4. ASSUME NEW i \in Places(line), NEW j \in Places(line), <<i, j>> \in spans,
             NEW k \in 1..n
      PROVE  i + n = j /\ line[i + k] = text[k]
  <2>1. PICK l \in PlacesOf(text, line) : i = l - 1 /\ j = l - 1 + n
    BY <1>4
  <2>2. l \in 1..(N - n + 1) /\ SubSeq(line, l, l + n - 1) = text
    BY <1>2, <2>1
  <2>3. SubSeq(line, l, l + n - 1)[k] = line[l + k - 1]
    BY <1>1, <2>2
  <2>4. i + k = l + k - 1 /\ i + n = j
    BY <1>1, <2>1, <2>2
  <2> QED BY <2>2, <2>3, <2>4
<1>5. spans \in SpansIn(line)
  BY <1>3 DEF SpansIn
<1>6. 1 \in 1..n
  BY <1>1
<1> QED BY <1>4, <1>5, <1>6 DEF TextIn

LEMMA ClassSpans ==
  ASSUME NEW line \in Seq(Chars), NEW chars
  PROVE  /\ OneOf(chars, line) \in SpansIn(line)
         /\ \A i, j \in Places(line) : <<i, j>> \in OneOf(chars, line) => i + 1 = j /\ line[j] \in chars
<1> DEFINE spans == {<<i - 1, i>> : i \in {k \in DOMAIN line : line[k] \in chars}}
<1>1. Len(line) \in Nat /\ DOMAIN line = 1..Len(line)
  OBVIOUS
<1>2. \A i \in DOMAIN line : <<i - 1, i>> \in Places(line) \X Places(line)
  BY <1>1 DEF Places
<1>3. spans \in SpansIn(line)
  BY <1>2 DEF SpansIn
<1>4. ASSUME NEW i \in Places(line), NEW j \in Places(line), <<i, j>> \in spans
      PROVE  i + 1 = j /\ line[j] \in chars
  <2>1. PICK k \in DOMAIN line : line[k] \in chars /\ i = k - 1 /\ j = k
    BY <1>4
  <2> QED BY <1>1, <2>1
<1> QED BY <1>3, <1>4 DEF OneOf

\* Expressions, kind by kind.
Kinds == {"empty", "literal", "class", "capture", "repetition", "concat", "alternation"}

LEMMA ExpressionFacts ==
  ASSUME NEW x \in Expressions
  PROVE  /\ x.kind \in Kinds /\ Depth \in [Expressions -> Nat]
         /\ x.kind = "literal" => x.text \in Seq(Chars) /\ x.text # <<>>
         /\ x.kind = "class" => x.chars \subseteq Chars
         /\ x.kind = "repetition" => x.min \in Nat /\ x.max \in Nat \cup {NoMax}
         /\ x.kind \in {"capture", "repetition"} => x.sub \in Expressions /\ x.sub \in Below(Depth, x)
         /\ x.kind \in {"concat", "alternation"} =>
              /\ x.parts \in Seq(Expressions) /\ DOMAIN x.parts = 1..Len(x.parts)
              /\ \A i \in DOMAIN x.parts : x.parts[i] \in Expressions /\ x.parts[i] \in Below(Depth, x)
<1>1. x.kind \in {"concat", "alternation"} => x.parts \in Seq(Expressions)
  BY ExpressionsAssumption
<1>2. x.parts \in Seq(Expressions) =>
        DOMAIN x.parts = 1..Len(x.parts) /\ \A i \in DOMAIN x.parts : x.parts[i] \in Expressions
  OBVIOUS
<1>3. DOMAIN Depth = Expressions
  BY ExpressionsAssumption
<1> QED BY <1>1, <1>2, <1>3, ExpressionsAssumption DEF Kinds, Below

\* The counts of a repetition that a line has room for.
CountsIn(x, line) == {k \in x.min..(x.min + Len(line)) : x.max = NoMax \/ k <= x.max}

LEMMA RepeatedType ==
  ASSUME NEW line \in Seq(Chars), NEW n \in Nat, NEW sub \in SpansIn(line)
  PROVE  [i \in 1..n |-> sub] \in Seq(SpansIn(line)) /\ Len([i \in 1..n |-> sub]) = n
BY MakeSeq

Each(x, spans) == [i \in DOMAIN x.parts |-> spans[x.parts[i]]]

LEMMA SpansOfKind ==
  ASSUME NEW line, NEW x, NEW spans
  PROVE  /\ x.kind = "empty" => SpansOf(x, spans, line) = Still(line)
         /\ x.kind = "literal" => SpansOf(x, spans, line) = TextIn(x.text, line)
         /\ x.kind = "class" => SpansOf(x, spans, line) = OneOf(x.chars, line)
         /\ x.kind = "capture" => SpansOf(x, spans, line) = spans[x.sub]
         /\ x.kind = "repetition" => SpansOf(x, spans, line)
              = UNION {InARow(Still(line), [i \in 1..n |-> spans[x.sub]]) : n \in CountsIn(x, line)}
         /\ x.kind = "concat" => SpansOf(x, spans, line) = InARow(Still(line), Each(x, spans))
         /\ x.kind = "alternation" => SpansOf(x, spans, line) = UNION Range(Each(x, spans))
<1>1. CASE x.kind = "empty"
  BY <1>1 DEF SpansOf, Still, Places
<1>2. CASE x.kind = "literal"
  BY <1>2 DEF SpansOf, TextIn
<1>3. CASE x.kind = "class"
  BY <1>3 DEF SpansOf, OneOf
<1>4. CASE x.kind = "capture"
  BY <1>4 DEF SpansOf
<1>5. CASE x.kind = "repetition"
  BY <1>5 DEF SpansOf, Still, Places, CountsIn
<1>6. CASE x.kind = "concat"
  BY <1>6 DEF SpansOf, Still, Places, Each
<1>7. CASE x.kind = "alternation"
  <2>1. UNION Range(Each(x, spans)) = UNION {spans[x.parts[i]] : i \in DOMAIN x.parts}
    BY DEF Range, Each
  <2> QED BY <1>7, <2>1 DEF SpansOf
<1> QED BY <1>1, <1>2, <1>3, <1>4, <1>5, <1>6, <1>7

LEMMA SpansOfType ==
  ASSUME NEW line \in Seq(Chars), NEW spans \in [Expressions -> SpansIn(line)], NEW x \in Expressions
  PROVE  SpansOf(x, spans, line) \in SpansIn(line)
<1>1. Len(line) \in Nat
  OBVIOUS
<1>2. CASE x.kind = "empty"
  <2>1. Still(line) \in SpansIn(line)
    BY DEF Still, SpansIn
  <2> QED BY <1>2, <2>1, SpansOfKind
<1>3. CASE x.kind = "literal"
  <2>1. x.text \in Seq(Chars) /\ x.text # <<>>
    BY <1>3, ExpressionFacts
  <2> QED BY <1>3, <2>1, SpansOfKind, TextSpans
<1>4. CASE x.kind = "class"
  BY <1>4, SpansOfKind, ClassSpans
<1>5. CASE x.kind = "capture"
  BY <1>5, SpansOfKind, ExpressionFacts
<1>6. CASE x.kind = "repetition"
  <2>1. x.min \in Nat /\ spans[x.sub] \in SpansIn(line)
    BY <1>6, ExpressionFacts
  <2>2. ASSUME NEW n \in CountsIn(x, line)
        PROVE  InARow(Still(line), [i \in 1..n |-> spans[x.sub]]) \in SpansIn(line)
    <3>1. n \in Nat
      BY <1>1, <2>1 DEF CountsIn
    <3>2. [i \in 1..n |-> spans[x.sub]] \in Seq(SpansIn(line))
      BY <2>1, <3>1, RepeatedType
    <3> QED BY <1>1, <3>2, RowType
  <2>3. SpansOf(x, spans, line)
          = UNION {InARow(Still(line), [i \in 1..n |-> spans[x.sub]]) : n \in CountsIn(x, line)}
    BY <1>6, SpansOfKind
  <2> QED BY <2>2, <2>3 DEF SpansIn
<1>7. CASE x.kind = "concat"
  <2> DEFINE s == Each(x, spans)
  <2>1. s \in Seq(SpansIn(line))
    <3>1. /\ DOMAIN x.parts = 1..Len(x.parts) /\ Len(x.parts) \in Nat
          /\ \A i \in DOMAIN x.parts : x.parts[i] \in Expressions
      BY <1>7, ExpressionFacts
    <3> QED BY <3>1, MakeSeq DEF Each
  <2> HIDE DEF s
  <2>2. InARow(Still(line), s) \in SpansIn(line)
    BY <1>1, <2>1, RowType
  <2> QED BY <1>7, <2>2, SpansOfKind DEF s
<1>8. CASE x.kind = "alternation"
  <2>1. \A i \in DOMAIN x.parts : spans[x.parts[i]] \in SpansIn(line)
    BY <1>8, ExpressionFacts
  <2>2. \A s \in Range(Each(x, spans)) : s \in SpansIn(line)
    BY <2>1 DEF Range, Each
  <2>3. SpansOf(x, spans, line) = UNION Range(Each(x, spans))
    BY <1>8, SpansOfKind
  <2> QED BY <2>2, <2>3 DEF SpansIn
<1> QED BY <1>2, <1>3, <1>4, <1>5, <1>6, <1>7, <1>8, ExpressionFacts DEF Kinds

\* Only the parts count.
LEMMA SpansOfParts ==
  ASSUME NEW line, NEW g, NEW h, NEW x \in Expressions, \A y \in Below(Depth, x) : g[y] = h[y]
  PROVE  SpansOf(x, g, line) = SpansOf(x, h, line)
<1>1. x.kind \in {"capture", "repetition"} => g[x.sub] = h[x.sub]
  BY ExpressionFacts
<1>2. x.kind \in {"concat", "alternation"} => \A i \in DOMAIN x.parts : g[x.parts[i]] = h[x.parts[i]]
  BY ExpressionFacts
<1>3. CASE x.kind = "empty"
  BY <1>3, SpansOfKind
<1>4. CASE x.kind = "literal"
  BY <1>4, SpansOfKind
<1>5. CASE x.kind = "class"
  BY <1>5, SpansOfKind
<1>6. CASE x.kind = "capture"
  BY <1>1, <1>6, SpansOfKind
<1>7. CASE x.kind = "repetition"
  <2>1. g[x.sub] = h[x.sub]
    BY <1>1, <1>7
  <2> QED BY <1>7, <2>1 DEF SpansOf
<1>8. CASE x.kind = "concat"
  <2>1. Each(x, g) = Each(x, h)
    BY <1>2, <1>8 DEF Each
  <2> QED BY <1>8, <2>1, SpansOfKind
<1>9. CASE x.kind = "alternation"
  <2>1. Each(x, g) = Each(x, h)
    BY <1>2, <1>9 DEF Each
  <2>2. SpansOf(x, g, line) = UNION Range(Each(x, g))
    BY <1>9, SpansOfKind
  <2>3. SpansOf(x, h, line) = UNION Range(Each(x, h))
    BY <1>9, SpansOfKind
  <2> QED BY <2>1, <2>2, <2>3
<1> QED BY <1>3, <1>4, <1>5, <1>6, <1>7, <1>8, <1>9, ExpressionFacts DEF Kinds

\* Spans, by its recursive function.
LEMMA SpansBy ==
  ASSUME NEW line \in Seq(Chars)
  PROVE  \E spans \in [Expressions -> SpansIn(line)] :
           /\ \A x \in Expressions : spans[x] = SpansOf(x, spans, line)
           /\ \A x \in Expressions : Spans(x, line) = spans[x]
<1> DEFINE E == Expressions
           V == SpansIn(line)
           step == [g \in [E -> V] |-> [x \in E |-> SpansOf(x, g, line)]]
           spans == CHOOSE f : f = [x \in E |-> SpansOf(x, f, line)]
<1>1. step \in [[E -> V] -> [E -> V]]
  BY SpansOfType
<1>2. ASSUME NEW g \in [E -> V], NEW h \in [E -> V], NEW x \in E, \A y \in Below(Depth, x) : g[y] = h[y]
      PROVE  step[g][x] = step[h][x]
  BY <1>2, SpansOfParts
<1>3. Depth \in [E -> Nat] /\ {} \in V
  BY ExpressionsAssumption DEF SpansIn
<1>4. \A g \in [E -> V] : step[g] = [x \in E |-> SpansOf(x, g, line)]
  OBVIOUS
<1>5. \A x : Spans(x, line) = spans[x]
  BY DEF Spans
<1> HIDE DEF V, step
<1>6. PICK f \in [E -> V] : f = step[f]
  <2>1. LooksBelow(step, E, Depth, V)
    BY <1>1, <1>2 DEF LooksBelow
  <2> HIDE DEF E
  <2> QED BY <1>3, <2>1, RecursionExists
<1>7. f = [x \in E |-> SpansOf(x, f, line)]
  BY <1>4, <1>6
<1>8. spans = [x \in E |-> SpansOf(x, spans, line)]
  BY <1>7
<1> HIDE DEF spans
<1>9. spans \in [E -> V]
  <2>1. \A x \in E : spans[x] = f[x]
    <3> DEFINE S == {n \in Nat : \E x \in E : Depth[x] = n /\ spans[x] # f[x]}
    <3>1. SUFFICES ASSUME NEW x \in E, spans[x] # f[x] PROVE FALSE
      OBVIOUS
    <3>2. Depth[x] \in S /\ S \in SUBSET Nat
      BY <1>3, <3>1
    <3>3. PICK n \in S : \A m \in S : n <= m
      BY <3>2, LeastNatural
    <3>4. PICK y \in E : Depth[y] = n /\ spans[y] # f[y]
      BY <3>3
    <3>5. ASSUME NEW z \in Below(Depth, y) PROVE spans[z] = f[z]
      <4>1. z \in E /\ Depth[z] \in Nat /\ Depth[z] < n /\ ~ (n <= Depth[z])
        BY <1>3, <3>4 DEF Below
      <4> QED BY <3>3, <4>1
    <3>6. SpansOf(y, spans, line) = SpansOf(y, f, line)
      BY <3>5, SpansOfParts
    <3>7. spans[y] = SpansOf(y, spans, line) /\ f[y] = SpansOf(y, f, line)
      BY <1>7, <1>8
    <3> QED BY <3>4, <3>6, <3>7
  <2> QED BY <1>6, <1>8, <2>1
<1>10. \A x \in E : spans[x] = SpansOf(x, spans, line)
  BY <1>8
<1> QED BY <1>5, <1>9, <1>10 DEF V

-----------------------------------------------------------------------------
(* Lists of trigrams that fit what is matched.                             *)

Pieces == Seq(SUBSET Chars)
Size(piece) == Len(piece)

\* The characters of the line after the k-th are those of a trigram.
At(piece, line, k) ==
  /\ k \in Nat /\ k + Size(piece) <= Len(line)
  /\ \A m \in 1..Size(piece) : line[k + m] \in piece[m]

\* All are whole trigrams, or there is but one.
Solid(list) ==
  /\ list \in Seq(Pieces) /\ list # <<>>
  /\ \A n \in 1..Len(list) : /\ Size(list[n]) \in 1..3
                             /\ Size(list[n]) = 3 \/ Len(list) = 1

\* All are somewhere in the line, the first at i, and the last ends at j; a short one is all
\* there is between.
Fits(list, line, i, j) ==
  /\ Solid(list)
  /\ \A n \in 1..Len(list) : \E k \in Nat : At(list[n], line, k)
  /\ At(list[1], line, i)
  /\ At(list[Len(list)], line, j - Size(list[Len(list)]))
  /\ Size(list[1]) < 3 => i + Size(list[1]) = j

LEMMA WindowFacts ==
  ASSUME NEW S, NEW s \in Seq(S), Len(s) >= 3
  PROVE  LET W == Windows(s)
         IN  /\ W \in Seq(Seq(S)) /\ Len(W) = Len(s) - 2
             /\ \A x \in 1..(Len(s) - 2) : /\ Size(W[x]) = 3
                                           /\ \A m \in 1..3 : W[x][m] = s[x + m - 1]
<1> DEFINE W == Windows(s)
           n == Len(s) - 2
<1>1. n \in Nat /\ W = [x \in 1..n |-> SubSeq(s, x, x + 2)]
  BY DEF Windows
<1>2. ASSUME NEW x \in 1..n
      PROVE  /\ W[x] \in Seq(S) /\ Size(W[x]) = 3
             /\ \A m \in 1..3 : W[x][m] = s[x + m - 1]
  <2>1. W[x] = SubSeq(s, x, x + 2)
    BY <1>1
  <2>2. x \in 1..Len(s) /\ x + 2 \in 1..Len(s) /\ Len(s) \in Nat
    OBVIOUS
  <2> HIDE DEF W, n
  <2>3. SubSeq(s, x, x + 2) \in Seq(S) /\ Size(SubSeq(s, x, x + 2)) = 3
    BY <2>2 DEF Size
  <2>4. \A m \in 1..3 : SubSeq(s, x, x + 2)[m] = s[x + m - 1]
    BY <2>2
  <2> QED BY <2>1, <2>3, <2>4
<1> HIDE DEF W
<1>3. W \in Seq(Seq(S)) /\ Len(W) = n
  BY <1>1, <1>2, MakeSeq
<1> QED BY <1>2, <1>3 DEF W

LEMMA EndParts ==
  ASSUME NEW S, NEW s \in Seq(S), s # <<>>
  PROVE  /\ Front(s) \in Seq(S) /\ Len(Front(s)) = Len(s) - 1
         /\ \A x \in 1..(Len(s) - 1) : Front(s)[x] = s[x]
         /\ Tail(s) \in Seq(S) /\ Len(Tail(s)) = Len(s) - 1
         /\ \A x \in 1..(Len(s) - 1) : Tail(s)[x] = s[x + 1]
         /\ Head(s) = s[1] /\ Last(s) = s[Len(s)]
<1>1. Len(s) \in Nat /\ Len(s) >= 1
  OBVIOUS
<1>2. /\ Front(s) \in Seq(S) /\ Len(Front(s)) = Len(s) - 1
      /\ \A x \in 1..(Len(s) - 1) : Front(s)[x] = s[x]
  <2>1. Front(s) = SubSeq(s, 0 + 1, Len(s) - 1)
    BY DEF Front
  <2>2. Len(s) - 1 \in Nat /\ 0 <= Len(s) - 1 /\ Len(s) - 1 <= Len(s) /\ (Len(s) - 1) - 0 = Len(s) - 1
    BY <1>1
  <2>3. /\ SubSeq(s, 0 + 1, Len(s) - 1) \in Seq(S)
        /\ Len(SubSeq(s, 0 + 1, Len(s) - 1)) = (Len(s) - 1) - 0
        /\ \A x \in 1..((Len(s) - 1) - 0) : SubSeq(s, 0 + 1, Len(s) - 1)[x] = s[0 + x]
    BY <2>2, PartOfSeq
  <2>4. \A x \in 1..(Len(s) - 1) : 0 + x = x
    OBVIOUS
  <2> QED BY <2>1, <2>2, <2>3, <2>4
<1>4. Tail(s) \in Seq(S) /\ Len(Tail(s)) = Len(s) - 1
  OBVIOUS
<1>5. ASSUME NEW x \in 1..(Len(s) - 1) PROVE Tail(s)[x] = s[x + 1]
  OBVIOUS
<1>6. Head(s) = s[1] /\ Last(s) = s[Len(s)]
  BY DEF Last
<1> QED BY <1>2, <1>4, <1>5, <1>6

LEMMA TwoParts ==
  ASSUME NEW S, NEW s \in Seq(S), NEW t \in Seq(S)
  PROVE  /\ s \o t \in Seq(S) /\ Len(s \o t) = Len(s) + Len(t)
         /\ \A x \in 1..Len(s \o t) : (s \o t)[x] = IF x <= Len(s) THEN s[x] ELSE t[x - Len(s)]
OBVIOUS

\* What three sequences make in a row.
MadeOf(all, S, s, t, u) ==
  /\ all \in Seq(S) /\ Len(all) = Len(s) + Len(t) + Len(u)
  /\ \A x \in 1..Len(s) : all[x] = s[x]
  /\ \A x \in 1..Len(t) : all[Len(s) + x] = t[x]
  /\ \A x \in 1..Len(u) : all[Len(s) + Len(t) + x] = u[x]
  /\ \A y \in 1..Len(all) : \/ y \in 1..Len(s)
                            \/ \E x \in 1..Len(t) : y = Len(s) + x
                            \/ \E x \in 1..Len(u) : y = Len(s) + Len(t) + x

LEMMA ThreeParts ==
  ASSUME NEW S, NEW s \in Seq(S), NEW t \in Seq(S), NEW u \in Seq(S), NEW all, all = s \o t \o u
  PROVE  MadeOf(all, S, s, t, u)
<1> DEFINE l == s \o t
<1>1. Len(s) \in Nat /\ Len(t) \in Nat /\ Len(u) \in Nat
  OBVIOUS
<1>2. /\ l \in Seq(S) /\ Len(l) = Len(s) + Len(t)
      /\ \A x \in 1..Len(l) : l[x] = IF x <= Len(s) THEN s[x] ELSE t[x - Len(s)]
  BY TwoParts
<1> HIDE DEF l
<1>3. /\ all \in Seq(S) /\ Len(all) = Len(l) + Len(u)
      /\ \A x \in 1..Len(all) : all[x] = IF x <= Len(l) THEN l[x] ELSE u[x - Len(l)]
  <2>1. l \in Seq(S) /\ all = l \o u
    BY <1>2 DEF l
  <2> QED BY ONLY <2>1, u \in Seq(S), TwoParts
<1>4. \A x \in 1..Len(s) : x \in 1..Len(l) /\ x \in 1..Len(all) /\ x <= Len(l) /\ x <= Len(s)
  BY <1>1, <1>2, <1>3
<1>5. \A x \in 1..Len(s) : all[x] = s[x]
  BY <1>2, <1>3, <1>4
<1>6. ASSUME NEW x \in 1..Len(t) PROVE all[Len(s) + x] = t[x]
  <2>1. /\ Len(s) + x \in 1..Len(l) /\ Len(s) + x \in 1..Len(all) /\ Len(s) + x <= Len(l)
        /\ ~ (Len(s) + x <= Len(s)) /\ (Len(s) + x) - Len(s) = x
    BY <1>1, <1>2, <1>3
  <2> QED BY <1>2, <1>3, <2>1
<1>7. ASSUME NEW x \in 1..Len(u) PROVE all[Len(s) + Len(t) + x] = u[x]
  <2>1. /\ Len(s) + Len(t) + x \in 1..Len(all) /\ ~ (Len(s) + Len(t) + x <= Len(l))
        /\ (Len(s) + Len(t) + x) - Len(l) = x
    BY <1>1, <1>2, <1>3
  <2> QED BY <1>3, <2>1
<1>8. ASSUME NEW y \in 1..Len(all)
      PROVE  \/ y \in 1..Len(s)
             \/ \E x \in 1..Len(t) : y = Len(s) + x
             \/ \E x \in 1..Len(u) : y = Len(s) + Len(t) + x
  <2>1. CASE y <= Len(s)
    BY <1>1, <2>1
  <2>2. CASE y > Len(s) /\ y <= Len(s) + Len(t)
    <3>1. y - Len(s) \in 1..Len(t) /\ y = Len(s) + (y - Len(s))
      BY <1>1, <2>2
    <3> QED BY <3>1
  <2>3. CASE y > Len(s) + Len(t)
    <3>1. /\ y - (Len(s) + Len(t)) \in 1..Len(u)
          /\ y = Len(s) + Len(t) + (y - (Len(s) + Len(t)))
      BY <1>1, <1>2, <1>3, <2>3
    <3> QED BY <3>1
  <2> QED BY <1>1, <2>1, <2>2, <2>3
<1> QED BY <1>2, <1>3, <1>5, <1>6, <1>7, <1>8 DEF MadeOf

\* What is joined is where its halves are.
LEMMA JoinAt ==
  ASSUME NEW line \in Seq(Chars), NEW a \in Pieces, NEW b \in Pieces, NEW j,
         At(a, line, j - Size(a)), At(b, line, j)
  PROVE  /\ a \o b \in Pieces /\ Size(a \o b) = Size(a) + Size(b)
         /\ \A m \in 1..Size(a) : (a \o b)[m] = a[m]
         /\ \A m \in 1..Size(b) : (a \o b)[Size(a) + m] = b[m]
         /\ At(a \o b, line, j - Size(a))
<1> DEFINE ab == a \o b
           N == Len(line)
<1>1. Size(a) \in Nat /\ Size(b) \in Nat /\ N \in Nat /\ j \in Nat /\ j - Size(a) \in Nat
  BY DEF At, Pieces, Size
<1>2. /\ ab \in Pieces /\ Size(ab) = Size(a) + Size(b)
      /\ \A m \in 1..Size(ab) : ab[m] = IF m <= Size(a) THEN a[m] ELSE b[m - Size(a)]
  BY DEF Pieces, Size
<1> HIDE DEF ab
<1>3. \A m \in 1..Size(a) : ab[m] = a[m]
  <2>1. \A m \in 1..Size(a) : m \in 1..Size(ab) /\ m <= Size(a)
    BY <1>1, <1>2
  <2> QED BY <1>2, <2>1
<1>4. ASSUME NEW m \in 1..Size(b) PROVE ab[Size(a) + m] = b[m]
  <2>1. Size(a) + m \in 1..Size(ab) /\ ~ (Size(a) + m <= Size(a)) /\ (Size(a) + m) - Size(a) = m
    BY <1>1, <1>2
  <2> QED BY <1>2, <2>1
<1>5. ASSUME NEW m \in 1..Size(ab) PROVE line[j - Size(a) + m] \in ab[m]
  <2>1. CASE m <= Size(a)
    <3>1. m \in 1..Size(a)
      BY <1>1, <2>1
    <3> QED BY <1>3, <3>1 DEF At
  <2>2. CASE m > Size(a)
    <3> DEFINE l == m - Size(a)
    <3>1. l \in 1..Size(b) /\ Size(a) + l = m /\ j - Size(a) + m = j + l
      BY <1>1, <1>2, <2>2
    <3>2. line[j + l] \in b[l] /\ ab[Size(a) + l] = b[l]
      BY <1>4, <3>1 DEF At
    <3> HIDE DEF l
    <3> QED BY <3>1, <3>2
  <2> QED BY <1>1, <1>2, <2>1, <2>2
<1>6. j - Size(a) + Size(ab) <= N
  BY <1>1, <1>2 DEF At
<1> QED BY <1>1, <1>2, <1>3, <1>4, <1>5, <1>6 DEF At, ab

\* What is at a place stays there, whatever it is called.
LEMMA SameAt ==
  ASSUME NEW line, NEW k, NEW s, NEW t, At(s, line, k), Size(t) = Size(s),
         \A m \in 1..Size(s) : t[m] = s[m]
  PROVE  At(t, line, k)
BY DEF At

\* The windows of what is joined.
LEMMA WindowsAt ==
  ASSUME NEW line \in Seq(Chars), NEW s \in Pieces, Size(s) >= 3, NEW k, At(s, line, k),
         NEW x \in 1..(Size(s) - 2)
  PROVE  At(Windows(s)[x], line, k + x - 1)
<1> DEFINE w == Windows(s)[x]
<1>1. Size(w) = 3 /\ \A m \in 1..3 : w[m] = s[x + m - 1]
  BY WindowFacts DEF Pieces, Size
<1>2. k \in Nat /\ Size(s) \in Nat /\ k + Size(s) <= Len(line) /\ Len(line) \in Nat
  BY DEF At, Pieces, Size
<1> HIDE DEF w
<1>3. ASSUME NEW m \in 1..3 PROVE line[(k + x - 1) + m] \in w[m]
  <2>1. x + m - 1 \in 1..Size(s) /\ k + (x + m - 1) = (k + x - 1) + m
    BY <1>2
  <2>2. line[k + (x + m - 1)] \in s[x + m - 1]
    BY <2>1 DEF At
  <2> QED BY <1>1, <2>1, <2>2
<1>4. k + x - 1 \in Nat /\ (k + x - 1) + 3 <= Len(line)
  BY <1>2
<1> QED BY <1>1, <1>3, <1>4 DEF At, w

\* Facts of a list that fits.
LEMMA FitFacts ==
  ASSUME NEW line \in Seq(Chars), NEW list \in Seq(Pieces), NEW i, NEW j, Fits(list, line, i, j)
  PROVE  LET n == Len(list)
         IN  /\ n \in Nat /\ n >= 1 /\ 1 \in 1..n /\ n \in 1..n
             /\ \A x \in 1..n : list[x] \in Pieces /\ Size(list[x]) \in 1..3
             /\ Size(list[1]) < 3 => n = 1
             /\ Size(list[n]) < 3 => n = 1
             /\ i \in Nat /\ j - Size(list[n]) \in Nat
<1> DEFINE n == Len(list)
<1>1. list # <<>> /\ n \in Nat
  BY DEF Fits, Solid
<1>2. n >= 1 /\ 1 \in 1..n /\ n \in 1..n
  BY <1>1
<1>3. \A x \in 1..n : list[x] \in Pieces /\ Size(list[x]) \in 1..3 /\ (Size(list[x]) = 3 \/ n = 1)
  BY <1>1 DEF Fits, Solid
<1>4. i \in Nat /\ j - Size(list[n]) \in Nat
  BY DEF Fits, At
<1> HIDE DEF n
<1>5. ASSUME NEW x \in 1..n, Size(list[x]) < 3 PROVE n = 1
  <2>1. Size(list[x]) = 3 \/ n = 1
    BY <1>3
  <2> QED BY <1>5, <2>1
<1> QED BY <1>1, <1>2, <1>3, <1>4, <1>5 DEF n

\* merge_trigrams of lists that fit one after the other.
LEMMA MergeFits ==
  ASSUME NEW line \in Seq(Chars), NEW l \in Seq(Pieces), NEW r \in Seq(Pieces), NEW i, NEW j, NEW k,
         Fits(l, line, i, j), Fits(r, line, j, k)
  PROVE  LET m == Merge([ok |-> TRUE, trigrams |-> l], r)
         IN  m.ok /\ Fits(m.trigrams, line, i, k)
<1> DEFINE m == Merge([ok |-> TRUE, trigrams |-> l], r)
           nl == Len(l)
           nr == Len(r)
           a == l[nl]
           b == r[1]
           ab == a \o b
           before == Front(l)
           after == Tail(r)
           W == Windows(ab)
<1>1. /\ nl \in Nat /\ nl >= 1 /\ 1 \in 1..nl /\ nl \in 1..nl
      /\ \A x \in 1..nl : l[x] \in Pieces /\ Size(l[x]) \in 1..3
      /\ Size(l[1]) < 3 => nl = 1
      /\ Size(a) < 3 => nl = 1
      /\ i \in Nat /\ j - Size(a) \in Nat
  BY FitFacts
<1>2. /\ nr \in Nat /\ nr >= 1 /\ 1 \in 1..nr /\ nr \in 1..nr
      /\ \A x \in 1..nr : r[x] \in Pieces /\ Size(r[x]) \in 1..3
      /\ Size(b) < 3 => nr = 1
      /\ Size(r[nr]) < 3 => nr = 1
      /\ j \in Nat /\ k - Size(r[nr]) \in Nat
  BY FitFacts
<1>3. At(a, line, j - Size(a)) /\ At(b, line, j)
  BY DEF Fits
<1>4. /\ a \in Pieces /\ Size(a) \in Nat /\ 1 <= Size(a) /\ Size(a) <= 3
      /\ b \in Pieces /\ Size(b) \in Nat /\ 1 <= Size(b) /\ Size(b) <= 3
  <2>1. a \in Pieces /\ b \in Pieces /\ Size(a) \in 1..3 /\ Size(b) \in 1..3
    BY <1>1, <1>2
  <2> QED BY <2>1
<1>5. /\ ab \in Pieces /\ Size(ab) = Size(a) + Size(b)
      /\ \A x \in 1..Size(a) : ab[x] = a[x]
      /\ \A x \in 1..Size(b) : ab[Size(a) + x] = b[x]
      /\ At(ab, line, j - Size(a))
  BY <1>3, <1>4, JoinAt
<1>6. m = IF Size(ab) <= 3 THEN [ok |-> nr = 1, trigrams |-> Append(before, ab)]
                          ELSE [ok |-> TRUE, trigrams |-> before \o W \o after]
  <2>1. l # <<>> /\ r # <<>>
    BY <1>1, <1>2
  <2>2. Head(r) = b
    BY <1>2
  <2> QED BY <2>1, <2>2 DEF Merge, Last, Size
<1>7. /\ before \in Seq(Pieces) /\ Len(before) = nl - 1
      /\ \A x \in 1..(nl - 1) : before[x] = l[x]
  <2>1. l # <<>>
    BY <1>1
  <2> QED BY <2>1, EndParts
<1>8. /\ after \in Seq(Pieces) /\ Len(after) = nr - 1
      /\ \A x \in 1..(nr - 1) : after[x] = r[x + 1]
  <2>1. r # <<>>
    BY <1>2
  <2> QED BY <2>1, EndParts
<1>9. Size(ab) \in Nat /\ Size(ab) = Size(a) + Size(b)
  BY <1>4, <1>5
<1>10. /\ nl \in Nat /\ nl >= 1 /\ i \in Nat /\ j - Size(a) \in Nat /\ (Size(a) < 3 => nl = 1)
       /\ nr \in Nat /\ nr >= 1 /\ j \in Nat /\ k - Size(r[nr]) \in Nat /\ (Size(b) < 3 => nr = 1)
  BY <1>1, <1>2
<1> HIDE DEF m, a, b, ab, before, after, nl, nr
<1>11. CASE Size(ab) <= 3
  <2>1. Size(a) < 3 /\ Size(b) < 3 /\ nl = 1 /\ nr = 1
    BY ONLY <1>4, <1>11, <1>9, <1>10
  <2>2. i + Size(a) = j /\ j + Size(b) = k
    BY <2>1 DEF Fits, a, b, nl, nr
  <2>3. Append(before, ab) = <<ab>>
    <3>1. before = <<>>
      <4>1. before \in Seq(Pieces) /\ Len(before) = 0
        BY <1>7, <2>1
      <4> QED BY ONLY <4>1
    <3> QED BY <3>1
  <2>4. At(ab, line, i) /\ k - Size(ab) = i /\ i + Size(ab) = k
    <3>1. j - Size(a) = i /\ k - Size(ab) = i /\ i + Size(ab) = k
      <4> DEFINE la == Size(a)
                 lb == Size(b)
                 lab == Size(ab)
      <4>1. /\ la \in Nat /\ lb \in Nat /\ lab = la + lb /\ i \in Nat /\ j \in Nat
            /\ i + la = j /\ j + lb = k
        BY <1>4, <1>9, <1>10, <2>2
      <4> HIDE DEF la, lb, lab
      <4>2. k = i + lab
        BY ONLY <4>1
      <4>3. j - la = i /\ k - lab = i /\ i + lab = k
        BY ONLY <4>1, <4>2
      <4> QED BY <4>3 DEF la, lab
    <3> QED BY <1>5, <3>1
  <2>5. Fits(<<ab>>, line, i, k)
    <3> DEFINE one == <<ab>>
    <3>1. one \in Seq(Pieces) /\ Len(one) = 1 /\ one[1] = ab /\ one # <<>>
      BY <1>5
    <3> HIDE DEF one
    <3>2. Size(ab) \in 1..3
      BY ONLY <1>4, <1>11, <1>9
    <3>3. Solid(one)
      BY <3>1, <3>2 DEF Solid
    <3>4. \A y \in 1..Len(one) : y = 1
      BY <3>1
    <3>5. Fits(one, line, i, k)
      BY <1>10, <2>4, <3>1, <3>3, <3>4 DEF Fits
    <3> QED BY <3>5 DEF one
  <2>6. m.ok /\ m.trigrams = <<ab>>
    BY <1>6, <1>11, <2>1, <2>3
  <2> QED BY <2>5, <2>6 DEF m
<1>12. CASE ~ (Size(ab) <= 3)
  <2> DEFINE n == Size(ab) - 2
             all == before \o W \o after
  <2>1. n \in Nat /\ n >= 2 /\ Size(ab) >= 3 /\ 1 \in 1..n /\ n \in 1..n
    BY ONLY <1>4, <1>12, <1>9
  <2>2. /\ W \in Seq(Pieces) /\ Len(W) = n
        /\ \A x \in 1..n : Size(W[x]) = 3 /\ \A y \in 1..3 : W[x][y] = ab[x + y - 1]
    <3>1. ab \in Seq(SUBSET Chars) /\ Len(ab) >= 3 /\ Len(ab) = Size(ab)
      BY <1>5, <2>1 DEF Pieces, Size
    <3>2. /\ W \in Seq(Seq(SUBSET Chars)) /\ Len(W) = Len(ab) - 2
          /\ \A x \in 1..(Len(ab) - 2) : /\ Size(W[x]) = 3
                                         /\ \A y \in 1..3 : W[x][y] = ab[x + y - 1]
      BY <3>1, WindowFacts
    <3> QED BY <3>1, <3>2 DEF Pieces
  <2>3. \A x \in 1..n : At(W[x], line, (j - Size(a)) + x - 1)
    BY <1>5, <2>1, WindowsAt
  <2> HIDE DEF W, ab, n
  <2>4. /\ all \in Seq(Pieces) /\ Len(all) = (nl - 1) + n + (nr - 1)
        /\ \A x \in 1..(nl - 1) : all[x] = l[x]
        /\ \A x \in 1..n : all[(nl - 1) + x] = W[x]
        /\ \A x \in 1..(nr - 1) : all[(nl - 1) + n + x] = r[x + 1]
        /\ \A y \in 1..Len(all) : \/ y \in 1..(nl - 1)
                                  \/ \E x \in 1..n : y = (nl - 1) + x
                                  \/ \E x \in 1..(nr - 1) : y = (nl - 1) + n + x
    <3> DEFINE made(u, v, w) ==
                 /\ all \in Seq(Pieces) /\ Len(all) = u + v + w
                 /\ \A x \in 1..u : all[x] = before[x]
                 /\ \A x \in 1..v : all[u + x] = W[x]
                 /\ \A x \in 1..w : all[u + v + x] = after[x]
                 /\ \A y \in 1..Len(all) : \/ y \in 1..u
                                           \/ \E x \in 1..v : y = u + x
                                           \/ \E x \in 1..w : y = u + v + x
    <3>1. before \in Seq(Pieces) /\ W \in Seq(Pieces) /\ after \in Seq(Pieces)
      BY <1>7, <1>8, <2>2
    <3>2. all = before \o W \o after
      OBVIOUS
    <3> HIDE DEF all
    <3>3. made(Len(before), Len(W), Len(after))
      <4> HIDE DEF before, W, after
      <4>1. MadeOf(all, Pieces, before, W, after)
        BY ONLY <3>1, <3>2, ThreeParts
      <4> QED BY <4>1 DEF MadeOf
    <3>4. Len(before) = nl - 1 /\ Len(W) = n /\ Len(after) = nr - 1
      BY <1>7, <1>8, <2>2
    <3>5. made(nl - 1, n, nr - 1)
      <4> HIDE DEF made
      <4> QED BY <3>3, <3>4
    <3> QED BY <1>7, <1>8, <3>5
  <2> HIDE DEF all
  <2>5. ASSUME NEW y \in 1..Len(all)
        PROVE  Size(all[y]) = 3 /\ \E p \in Nat : At(all[y], line, p)
    <3>1. CASE y \in 1..(nl - 1)
      <4>1. y \in 1..nl /\ nl # 1 /\ all[y] = l[y]
        BY <1>1, <2>4, <3>1
      <4>2. Size(l[y]) = 3 /\ \E p \in Nat : At(l[y], line, p)
        BY <4>1 DEF Fits, Solid, nl
      <4> QED BY <4>1, <4>2
    <3>2. ASSUME NEW x \in 1..n, y = (nl - 1) + x
          PROVE  Size(all[y]) = 3 /\ \E p \in Nat : At(all[y], line, p)
      <4>1. all[y] = W[x] /\ Size(W[x]) = 3 /\ At(W[x], line, (j - Size(a)) + x - 1)
        BY <2>2, <2>3, <2>4, <3>2
      <4>2. (j - Size(a)) + x - 1 \in Nat
        BY <4>1 DEF At
      <4> QED BY <4>1, <4>2
    <3>3. ASSUME NEW x \in 1..(nr - 1), y = (nl - 1) + n + x
          PROVE  Size(all[y]) = 3 /\ \E p \in Nat : At(all[y], line, p)
      <4>1. x + 1 \in 1..nr /\ nr # 1 /\ all[y] = r[x + 1]
        BY <1>2, <2>4, <3>3
      <4>2. Size(r[x + 1]) = 3 /\ \E p \in Nat : At(r[x + 1], line, p)
        BY <4>1 DEF Fits, Solid, nr
      <4> QED BY <4>1, <4>2
    <3> QED BY <2>4, <3>1, <3>2, <3>3
  <2>6. Len(all) \in Nat /\ Len(all) >= 2 /\ all # <<>> /\ 1 \in 1..Len(all) /\ Len(all) \in 1..Len(all)
    <3>1. all \in Seq(Pieces) /\ Len(all) = (nl - 1) + n + (nr - 1)
      BY <2>4
    <3>2. Len(all) \in Nat /\ Len(all) >= 2
      BY ONLY <1>10, <2>1, <3>1
    <3> QED BY ONLY <3>1, <3>2
  <2>7. At(all[1], line, i)
    <3>1. CASE nl > 1
      <4>1. all[1] = l[1]
        BY <1>1, <2>4, <3>1
      <4> QED BY <4>1 DEF Fits
    <3>2. CASE nl = 1
      <4>1. all[1] = W[1]
        <5>1. (nl - 1) + 1 = 1 /\ all[(nl - 1) + 1] = W[1]
          BY <2>1, <2>4, <3>2
        <5> QED BY <5>1
      <4>2. CASE Size(a) < 3
        <5>1. i + Size(a) = j
          BY <3>2, <4>2 DEF Fits, a, nl
        <5>2. (j - Size(a)) + 1 - 1 = i
          BY ONLY <1>4, <1>10, <5>1
        <5> QED BY <2>1, <2>3, <4>1, <5>2
      <4>3. CASE Size(a) = 3
        <5>1. \A y \in 1..3 : W[1][y] = a[y]
          <6>1. ASSUME NEW y \in 1..3 PROVE W[1][y] = a[y]
            <7>1. W[1][y] = ab[1 + y - 1] /\ 1 + y - 1 = y
              BY <2>1, <2>2
            <7> QED BY <1>5, <4>3, <7>1
          <6> QED BY <6>1
        <5>2. At(a, line, i)
          BY <3>2 DEF Fits, a, nl
        <5>3. At(W[1], line, i)
          <6>1. Size(W[1]) = Size(a)
            BY <2>1, <2>2, <4>3
          <6> QED BY <4>3, <5>1, <5>2, <6>1, SameAt
        <5> QED BY <4>1, <5>3
      <4>4. Size(a) < 3 \/ Size(a) = 3
        BY ONLY <1>4
      <4> QED BY <4>2, <4>3, <4>4
    <3>3. nl > 1 \/ nl = 1
      BY ONLY <1>10
    <3> QED BY <3>1, <3>2, <3>3
  <2>8. At(all[Len(all)], line, k - 3)
    <3>1. CASE nr > 1
      <4>1. nr - 1 \in 1..(nr - 1) /\ Len(all) = (nl - 1) + n + (nr - 1) /\ (nr - 1) + 1 = nr
        BY <1>10, <2>1, <2>4, <3>1
      <4>2. all[Len(all)] = r[nr]
        BY <2>4, <4>1
      <4>3. Size(r[nr]) = 3
        <5>1. nr \in 1..nr /\ nr # 1
          BY <1>10, <3>1
        <5> QED BY <5>1 DEF Fits, Solid, nr
      <4> QED BY <4>2, <4>3 DEF Fits, nr
    <3>2. CASE nr = 1
      <4>1. Len(all) = (nl - 1) + n
        BY <1>1, <2>1, <2>4, <3>2
      <4>2. all[Len(all)] = W[n]
        BY <2>1, <2>4, <4>1
      <4>3. CASE Size(b) < 3
        <5>1. j + Size(b) = k
          BY <3>2, <4>3 DEF Fits, b, nr
        <5>2. (j - Size(a)) + n - 1 = k - 3
          <6> DEFINE la == Size(a)
                     lb == Size(b)
          <6>1. n = (la + lb) - 2 /\ la \in Nat /\ lb \in Nat /\ j \in Nat /\ j + lb = k
            BY <1>4, <1>9, <1>10, <5>1 DEF n
          <6> HIDE DEF la, lb, n
          <6>2. (j - la) + n - 1 = k - 3
            BY ONLY <6>1
          <6> QED BY <6>2 DEF la
        <5> QED BY <2>1, <2>3, <4>2, <5>2
      <4>4. CASE Size(b) = 3
        <5>1. \A y \in 1..3 : W[n][y] = b[y]
          <6>1. ASSUME NEW y \in 1..3 PROVE W[n][y] = b[y]
            <7>1. W[n][y] = ab[n + y - 1]
              BY <2>1, <2>2
            <7>2. n + y - 1 = Size(a) + y
              BY ONLY <1>4, <1>9, <4>4 DEF n
            <7> QED BY <1>5, <4>4, <7>1, <7>2
          <6> QED BY <6>1
        <5>2. At(b, line, k - 3)
          BY <3>2, <4>4 DEF Fits, b, nr
        <5>3. At(W[n], line, k - 3)
          <6>1. Size(W[n]) = Size(b)
            BY <2>1, <2>2, <4>4
          <6> QED BY <4>4, <5>1, <5>2, <6>1, SameAt
        <5> QED BY <4>2, <5>3
      <4>5. Size(b) < 3 \/ Size(b) = 3
        BY ONLY <1>4
      <4> QED BY <4>3, <4>4, <4>5
    <3>3. nr > 1 \/ nr = 1
      BY ONLY <1>10
    <3> QED BY <3>1, <3>2, <3>3
  <2>9. Solid(all)
    BY <2>4, <2>5, <2>6 DEF Solid
  <2>10. Size(all[1]) = 3 /\ Size(all[Len(all)]) = 3
    BY <2>5, <2>6
  <2>11. Fits(all, line, i, k)
    BY <2>5, <2>7, <2>8, <2>9, <2>10 DEF Fits
  <2>12. m.ok /\ m.trigrams = all
    BY <1>6, <1>12 DEF all
  <2> QED BY <2>11, <2>12 DEF m
<1> QED BY <1>11, <1>12

-----------------------------------------------------------------------------
(* merge_trigrams, for all lists.                                          *)

MergedLists == [ok : BOOLEAN, trigrams : Seq(Pieces)]

LEMMA MergeType ==
  ASSUME NEW l \in MergedLists, NEW r \in Seq(Pieces)
  PROVE  Merge(l, r) \in MergedLists
<1> DEFINE list == l.trigrams
           joined == Last(list) \o Head(r)
           before == Front(list)
           after == Tail(r)
           W == Windows(joined)
<1>1. list \in Seq(Pieces)
  BY DEF MergedLists
<1>2. Unmergeable \in MergedLists
  <2>1. <<>> \in Seq(Pieces)
    OBVIOUS
  <2> QED BY <2>1 DEF Unmergeable, MergedLists
<1>3. CASE ~l.ok \/ list = <<>> \/ r = <<>>
  BY <1>2, <1>3 DEF Merge
<1>4. CASE ~ (~l.ok \/ list = <<>> \/ r = <<>>)
  <2>1. /\ before \in Seq(Pieces) /\ after \in Seq(Pieces)
        /\ Last(list) = list[Len(list)] /\ Head(r) = r[1]
    BY <1>1, <1>4, EndParts
  <2>2. Len(list) \in 1..Len(list) /\ 1 \in 1..Len(r)
    BY <1>1, <1>4
  <2>3. Last(list) \in Pieces /\ Head(r) \in Pieces
    BY <1>1, <2>1, <2>2
  <2>4. joined \in Pieces /\ Len(joined) \in Nat
    <3>1. Last(list) \in Seq(SUBSET Chars) /\ Head(r) \in Seq(SUBSET Chars)
      BY <2>3 DEF Pieces
    <3> HIDE DEF list
    <3>2. Last(list) \o Head(r) \in Seq(SUBSET Chars)
      BY <3>1, TwoParts
    <3> HIDE DEF joined
    <3>3. joined \in Seq(SUBSET Chars)
      BY <3>2 DEF joined
    <3> QED BY <3>3 DEF Pieces
  <2> HIDE DEF joined, before, after, list
  <2>5. Len(joined) > 3 => W \in Seq(Pieces)
    BY <2>4, WindowFacts DEF Pieces
  <2>6. Append(before, joined) \in Seq(Pieces)
    BY <2>1, <2>4
  <2>7. Len(joined) > 3 => before \o W \o after \in Seq(Pieces)
    BY <2>1, <2>5
  <2>8. Merge(l, r) = IF Len(joined) <= 3 THEN [ok |-> Len(r) = 1, trigrams |-> Append(before, joined)]
                      ELSE [ok |-> TRUE, trigrams |-> before \o W \o after]
    BY <1>4 DEF Merge, joined, before, after, list
  <2>9. Len(joined) <= 3 \/ Len(joined) > 3
    BY <2>4
  <2> HIDE DEF W
  <2> QED BY <2>6, <2>7, <2>8, <2>9 DEF MergedLists
<1> QED BY <1>3, <1>4

\* merge_trigrams, by its recursive function.
LEMMA MergedBy ==
  ASSUME NEW lists \in Seq(Seq(Pieces)), lists # <<>>
  PROVE  \E merged \in [0..(Len(lists) - 1) -> MergedLists] :
           /\ merged[0] = [ok |-> TRUE, trigrams |-> lists[1]]
           /\ \A i \in 1..(Len(lists) - 1) : merged[i] = Merge(merged[i - 1], lists[i + 1])
           /\ MergeTrigrams(lists) = merged[Len(lists) - 1]
<1> DEFINE n == Len(lists) - 1
           S == MergedLists
           s0 == [ok |-> TRUE, trigrams |-> lists[1]]
           g == [x \in S \X (1..n) |-> Merge(x[1], lists[x[2] + 1])]
           merged == CHOOSE h : h = [i \in 0..n |-> IF i = 0 THEN s0 ELSE Merge(h[i - 1], lists[i + 1])]
<1>1. n \in Nat /\ lists[1] \in Seq(Pieces) /\ \A i \in 1..n : lists[i + 1] \in Seq(Pieces)
  <2>1. Len(lists) \in Nat /\ Len(lists) >= 1
    OBVIOUS
  <2>2. \A i \in 1..Len(lists) : lists[i] \in Seq(Pieces)
    OBVIOUS
  <2>3. 1 \in 1..Len(lists) /\ \A i \in 1..n : i + 1 \in 1..Len(lists)
    BY <2>1
  <2> QED BY <2>1, <2>2, <2>3
<1>2. s0 \in S
  BY <1>1 DEF MergedLists
<1>3. g \in [S \X (1..n) -> S]
  <2>1. \A x \in S \X (1..n) : x[1] \in S /\ lists[x[2] + 1] \in Seq(Pieces)
    BY <1>1
  <2>2. \A x \in S \X (1..n) : Merge(x[1], lists[x[2] + 1]) \in S
    BY <2>1, MergeType
  <2> HIDE DEF S, n
  <2> QED BY <2>2
<1>4. \A x \in S, i \in 1..n : g[<<x, i>>] = Merge(x, lists[i + 1])
  OBVIOUS
<1>5. MergeTrigrams(lists) = merged[n]
  BY DEF MergeTrigrams
<1> HIDE DEF n, S, s0, g
<1>7. PICK h \in [0..n -> S] : Iterates(h, s0, g, n)
  BY <1>1, <1>2, <1>3, IterateExists
<1>8. \A i \in 0..n : i # 0 => h[i - 1] \in S /\ i \in 1..n
  <2>1. \A i \in 0..n : i # 0 => i - 1 \in 0..n /\ i \in 1..n
    BY <1>1
  <2> QED BY <2>1
<1>9. \A i \in 0..n : (IF i = 0 THEN s0 ELSE g[<<h[i - 1], i>>])
                        = IF i = 0 THEN s0 ELSE Merge(h[i - 1], lists[i + 1])
  BY <1>4, <1>8
<1>10. h = [i \in 0..n |-> IF i = 0 THEN s0 ELSE Merge(h[i - 1], lists[i + 1])]
  BY <1>7, <1>9 DEF Iterates
<1>11. merged = [i \in 0..n |-> IF i = 0 THEN s0 ELSE Merge(merged[i - 1], lists[i + 1])]
  BY <1>10
<1> HIDE DEF merged
<1>12. merged[0] = s0 /\ \A i \in 1..n : merged[i] = Merge(merged[i - 1], lists[i + 1])
  <2>1. 0 \in 0..n /\ \A i \in 1..n : i \in 0..n /\ i # 0
    BY <1>1
  <2> QED BY <1>11, <2>1
<1>13. ASSUME NEW i \in 0..n PROVE merged[i] \in S
  <2> DEFINE T == {j \in 0..n : merged[j] \in S}
  <2>1. 0 \in T
    BY <1>1, <1>2, <1>12
  <2>2. ASSUME NEW j \in 1..n, j - 1 \in T PROVE j \in T
    <3>1. Merge(merged[j - 1], lists[j + 1]) \in S
      BY <1>1, <2>2, MergeType DEF S
    <3>2. j \in 0..n
      BY <1>1
    <3> QED BY <1>12, <3>1, <3>2
  <2> HIDE DEF T
  <2>3. i \in T
    BY <1>1, <2>1, <2>2, UpTo
  <2> QED BY <2>3 DEF T
<1>14. merged \in [0..n -> S]
  BY <1>11, <1>13
<1> QED BY <1>5, <1>12, <1>14 DEF n, S, s0

LEMMA MergeTrigramsType ==
  ASSUME NEW lists \in Seq(Seq(Pieces))
  PROVE  MergeTrigrams(lists) \in MergedLists
<1>1. CASE lists = <<>>
  <2>1. <<>> \in Seq(Pieces)
    OBVIOUS
  <2> QED BY <1>1, <2>1 DEF MergeTrigrams, Unmergeable, MergedLists
<1>2. CASE lists # <<>>
  <2>1. PICK merged \in [0..(Len(lists) - 1) -> MergedLists] : MergeTrigrams(lists) = merged[Len(lists) - 1]
    BY <1>2, MergedBy
  <2>2. Len(lists) - 1 \in 0..(Len(lists) - 1)
    BY <1>2
  <2> QED BY <2>1, <2>2
<1> QED BY <1>1, <1>2

\* Lists that fit one after the other are merged into one that fits all of it.
LEMMA MergeTrigramsFits ==
  ASSUME NEW line \in Seq(Chars), NEW lists \in Seq(Seq(Pieces)), lists # <<>>, NEW p,
         \A m \in 1..Len(lists) : Fits(lists[m], line, p[m - 1], p[m])
  PROVE  LET m == MergeTrigrams(lists)
         IN  m.ok /\ Fits(m.trigrams, line, p[0], p[Len(lists)])
<1> DEFINE n == Len(lists) - 1
<1>1. PICK merged \in [0..n -> MergedLists] :
        /\ merged[0] = [ok |-> TRUE, trigrams |-> lists[1]]
        /\ \A i \in 1..n : merged[i] = Merge(merged[i - 1], lists[i + 1])
        /\ MergeTrigrams(lists) = merged[n]
  BY MergedBy
<1>2. n \in Nat /\ Len(lists) = n + 1
  <2>1. Len(lists) \in Nat /\ Len(lists) >= 1
    OBVIOUS
  <2> QED BY <2>1
<1>3. \A m \in 1..(n + 1) : lists[m] \in Seq(Pieces) /\ Fits(lists[m], line, p[m - 1], p[m])
  BY <1>2
<1> HIDE DEF n
<1> DEFINE T == {m \in 0..n : merged[m].ok /\ Fits(merged[m].trigrams, line, p[0], p[m + 1])}
<1>4. 0 \in T
  <2>1. 1 \in 1..(n + 1) /\ 0 + 1 = 1 /\ 1 - 1 = 0 /\ 0 \in 0..n
    BY <1>2
  <2>2. Fits(lists[1], line, p[0], p[1])
    <3>1. Fits(lists[1], line, p[1 - 1], p[1])
      BY <1>3, <2>1
    <3> QED BY <3>1
  <2> QED BY <1>1, <2>1, <2>2
<1>5. ASSUME NEW m \in 1..n, m - 1 \in T PROVE m \in T
  <2>1. m \in 0..n /\ m - 1 \in 0..n /\ m + 1 \in 1..(n + 1) /\ (m - 1) + 1 = m /\ (m + 1) - 1 = m
    BY <1>2
  <2> DEFINE l == merged[m - 1].trigrams
             r == lists[m + 1]
  <2>2. l \in Seq(Pieces) /\ r \in Seq(Pieces) /\ merged[m - 1] = [ok |-> TRUE, trigrams |-> l]
    <3>1. merged[m - 1] \in MergedLists /\ merged[m - 1].ok
      BY <1>5, <2>1
    <3> QED BY <1>3, <2>1, <3>1 DEF MergedLists
  <2>3. Fits(l, line, p[0], p[m]) /\ Fits(r, line, p[m], p[m + 1])
    <3>1. Fits(l, line, p[0], p[(m - 1) + 1]) /\ Fits(r, line, p[(m + 1) - 1], p[m + 1])
      BY <1>3, <1>5, <2>1
    <3> QED BY <2>1, <3>1
  <2> HIDE DEF l, r
  <2>4. LET x == Merge([ok |-> TRUE, trigrams |-> l], r) IN x.ok /\ Fits(x.trigrams, line, p[0], p[m + 1])
    BY <2>2, <2>3, MergeFits
  <2>5. merged[m] = Merge([ok |-> TRUE, trigrams |-> l], r)
    BY <1>1, <2>2 DEF r
  <2> QED BY <2>1, <2>4, <2>5
<1> HIDE DEF T
<1>6. n \in T
  <2>1. n \in 0..n
    BY <1>2
  <2>2. \A m \in 0..n : m \in T
    BY <1>2, <1>4, <1>5, UpTo
  <2> QED BY <2>1, <2>2
<1>7. merged[n].ok /\ Fits(merged[n].trigrams, line, p[0], p[n + 1])
  BY <1>6 DEF T
<1> QED BY <1>1, <1>2, <1>7

\* Several lists, the last one empty, are not merged.
LEMMA EmptyNotMerged ==
  ASSUME NEW lists \in Seq(Seq(Pieces)), Len(lists) >= 2, lists[Len(lists)] = <<>>
  PROVE  ~MergeTrigrams(lists).ok
<1> DEFINE n == Len(lists) - 1
<1>1. PICK merged \in [0..n -> MergedLists] :
        /\ \A i \in 1..n : merged[i] = Merge(merged[i - 1], lists[i + 1])
        /\ MergeTrigrams(lists) = merged[n]
  <2>1. lists # <<>>
    OBVIOUS
  <2> QED BY <2>1, MergedBy
<1>2. n \in 1..n /\ n + 1 = Len(lists)
  <2>1. Len(lists) \in Nat
    OBVIOUS
  <2> QED BY <2>1
<1>3. merged[n] = Merge(merged[n - 1], <<>>)
  BY <1>1, <1>2
<1>4. merged[n] = Unmergeable
  BY <1>3 DEF Merge
<1> QED BY <1>1, <1>4 DEF Unmergeable

-----------------------------------------------------------------------------
(* Candidates of parts in a row.                                           *)

\* A candidate for what is matched between two places; one without trigrams for nothing.
Reaches(cand, line, i, j) == Fits(cand, line, i, j) \/ (cand = <<>> /\ i = j)

\* Lists that fit one after the other, from place to place.
Chain(lists, q, line, i, j) ==
  /\ lists \in Seq(Seq(Pieces))
  /\ q \in [0..Len(lists) -> Int] /\ q[0] = i /\ q[Len(lists)] = j
  /\ \A m \in 1..Len(lists) : Fits(lists[m], line, q[m - 1], q[m])

LEMMA ChainGrows ==
  ASSUME NEW line, NEW lists, NEW q, NEW i, NEW j, NEW k \in Int, NEW list \in Seq(Pieces),
         Chain(lists, q, line, i, j), Fits(list, line, j, k)
  PROVE  \E p : Chain(lists \o <<list>>, p, line, i, k)
<1> DEFINE n == Len(lists)
           more == lists \o <<list>>
           p == [x \in 0..(n + 1) |-> IF x = n + 1 THEN k ELSE q[x]]
<1>1. n \in Nat /\ lists \in Seq(Seq(Pieces)) /\ q \in [0..n -> Int] /\ q[0] = i /\ q[n] = j
  BY DEF Chain
<1>2. more \in Seq(Seq(Pieces)) /\ Len(more) = n + 1
      /\ (\A m \in 1..n : more[m] = lists[m]) /\ more[n + 1] = list
  BY <1>1
<1>3. /\ p \in [0..(n + 1) -> Int] /\ p[n + 1] = k /\ \A x \in 0..n : p[x] = q[x]
  <2>1. \A x \in 0..(n + 1) : x # n + 1 => x \in 0..n
    BY <1>1
  <2>2. \A x \in 0..n : x \in 0..(n + 1) /\ x # n + 1
    BY <1>1
  <2>3. n + 1 \in 0..(n + 1)
    BY <1>1
  <2> QED BY <1>1, <2>1, <2>2, <2>3
<1>4. \A m \in 1..n : Fits(lists[m], line, q[m - 1], q[m])
  BY DEF Chain
<1> HIDE DEF n, more, p
<1>5. ASSUME NEW m \in 1..(n + 1) PROVE Fits(more[m], line, p[m - 1], p[m])
  <2>1. CASE m = n + 1
    <3>1. m - 1 = n /\ n \in 0..n
      BY <1>1, <2>1
    <3> QED BY <1>1, <1>2, <1>3, <2>1, <3>1
  <2>2. CASE m # n + 1
    <3>1. m \in 1..n /\ m - 1 \in 0..n /\ m \in 0..n
      BY <1>1, <2>2
    <3> QED BY <1>2, <1>3, <1>4, <3>1
  <2> QED BY <2>1, <2>2
<1>6. p[0] = i
  BY <1>1, <1>3
<1>7. Chain(more, p, line, i, k)
  BY <1>2, <1>3, <1>5, <1>6 DEF Chain
<1> QED BY <1>7 DEF more

\* Lists that are not empty, by the recursive function.
LEMMA PresentBy ==
  ASSUME NEW lists \in Seq(Seq(Pieces))
  PROVE  \E kept \in [0..Len(lists) -> Seq(Seq(Pieces))] :
           /\ kept[0] = <<>>
           /\ \A m \in 1..Len(lists) :
                kept[m] = kept[m - 1] \o (IF lists[m] = <<>> THEN <<>> ELSE <<lists[m]>>)
           /\ Present(lists) = kept[Len(lists)]
<1> DEFINE n == Len(lists)
           S == Seq(Seq(Pieces))
           s0 == <<>>
           next(k, m) == k \o (IF lists[m] = <<>> THEN <<>> ELSE <<lists[m]>>)
           g == [x \in S \X (1..n) |-> next(x[1], x[2])]
           kept == CHOOSE h : h = [i \in 0..n |-> IF i = 0 THEN s0 ELSE next(h[i - 1], i)]
<1>1. n \in Nat /\ \A m \in 1..n : lists[m] \in Seq(Pieces)
  OBVIOUS
<1>2. s0 \in S
  OBVIOUS
<1>3. ASSUME NEW k \in S, NEW m \in 1..n PROVE next(k, m) \in S
  <2>1. <<>> \in S /\ <<lists[m]>> \in S
    BY <1>1
  <2>2. \A t \in S : k \o t \in S
    OBVIOUS
  <2> HIDE DEF S
  <2> QED BY <2>1, <2>2
<1>4. Present(lists) = kept[n]
  BY DEF Present
<1> HIDE DEF S, n, s0, next
<1>5. g \in [S \X (1..n) -> S] /\ \A k \in S, m \in 1..n : g[<<k, m>>] = next(k, m)
  BY <1>3
<1> HIDE DEF g
<1>7. PICK h \in [0..n -> S] : Iterates(h, s0, g, n)
  BY <1>1, <1>2, <1>5, IterateExists
<1>8. \A i \in 0..n : i # 0 => h[i - 1] \in S /\ i \in 1..n
  <2>1. \A i \in 0..n : i # 0 => i - 1 \in 0..n /\ i \in 1..n
    BY <1>1
  <2> QED BY <2>1
<1>9. \A i \in 0..n : (IF i = 0 THEN s0 ELSE g[<<h[i - 1], i>>]) = IF i = 0 THEN s0 ELSE next(h[i - 1], i)
  BY <1>5, <1>8
<1>10. h = [i \in 0..n |-> IF i = 0 THEN s0 ELSE next(h[i - 1], i)]
  BY <1>7, <1>9 DEF Iterates
<1>11. kept = [i \in 0..n |-> IF i = 0 THEN s0 ELSE next(kept[i - 1], i)]
  BY <1>10
<1> HIDE DEF kept
<1>12. kept[0] = s0 /\ \A i \in 1..n : kept[i] = next(kept[i - 1], i)
  <2>1. 0 \in 0..n /\ \A i \in 1..n : i \in 0..n /\ i # 0
    BY <1>1
  <2> QED BY <1>11, <2>1
<1>13. ASSUME NEW i \in 0..n PROVE kept[i] \in S
  <2> DEFINE T == {j \in 0..n : kept[j] \in S}
  <2>1. 0 \in T
    BY <1>1, <1>2, <1>12
  <2>2. ASSUME NEW j \in 1..n, j - 1 \in T PROVE j \in T
    <3>1. next(kept[j - 1], j) \in S
      BY <1>3, <2>2
    <3>2. j \in 0..n
      BY <1>1
    <3> QED BY <1>12, <3>1, <3>2
  <2> HIDE DEF T
  <2>3. i \in T
    BY <1>1, <2>1, <2>2, UpTo
  <2> QED BY <2>3 DEF T
<1>14. kept \in [0..n -> S]
  BY <1>11, <1>13
<1> QED BY <1>4, <1>12, <1>14 DEF n, S, s0, next

LEMMA PresentType ==
  ASSUME NEW lists \in Seq(Seq(Pieces))
  PROVE  Present(lists) \in Seq(Seq(Pieces))
<1>1. PICK kept \in [0..Len(lists) -> Seq(Seq(Pieces))] : Present(lists) = kept[Len(lists)]
  BY PresentBy
<1>2. Len(lists) \in 0..Len(lists)
  OBVIOUS
<1> QED BY <1>1, <1>2

\* Leaving empty lists out leaves a chain.
LEMMA PresentChain ==
  ASSUME NEW line \in Seq(Chars), NEW lists \in Seq(Seq(Pieces)), NEW p \in [0..Len(lists) -> Int],
         \A m \in 1..Len(lists) : Reaches(lists[m], line, p[m - 1], p[m])
  PROVE  \E q : Chain(Present(lists), q, line, p[0], p[Len(lists)])
<1> DEFINE n == Len(lists)
<1>1. PICK kept \in [0..n -> Seq(Seq(Pieces))] :
        /\ kept[0] = <<>>
        /\ \A m \in 1..n : kept[m] = kept[m - 1] \o (IF lists[m] = <<>> THEN <<>> ELSE <<lists[m]>>)
        /\ Present(lists) = kept[n]
  BY PresentBy
<1>2. n \in Nat /\ \A m \in 1..n : lists[m] \in Seq(Pieces)
  OBVIOUS
<1> DEFINE T == {m \in 0..n : \E q : Chain(kept[m], q, line, p[0], p[m])}
<1>3. 0 \in T
  <2> DEFINE q == [x \in 0..0 |-> p[0]]
  <2>1. p[0] \in Int /\ 0 \in 0..n
    BY <1>2
  <2>2. q \in [0..0 -> Int] /\ q[0] = p[0]
    BY <2>1
  <2>3. <<>> \in Seq(Seq(Pieces)) /\ Len(<<>>) = 0 /\ \A m \in 1..0 : FALSE
    OBVIOUS
  <2> HIDE DEF q
  <2>4. Chain(<<>>, q, line, p[0], p[0])
    BY <2>2, <2>3 DEF Chain
  <2> QED BY <1>1, <2>1, <2>4
<1>4. ASSUME NEW m \in 1..n, m - 1 \in T PROVE m \in T
  <2>1. m \in 0..n /\ m - 1 \in 0..n /\ p[m - 1] \in Int /\ p[m] \in Int
    <3>1. m \in 0..n /\ m - 1 \in 0..n
      BY <1>2
    <3> HIDE DEF T
    <3> QED BY <3>1
  <2>2. PICK q : Chain(kept[m - 1], q, line, p[0], p[m - 1])
    BY <1>4
  <2>3. Reaches(lists[m], line, p[m - 1], p[m]) /\ lists[m] \in Seq(Pieces)
    BY <1>2
  <2>4. CASE Fits(lists[m], line, p[m - 1], p[m])
    <3>1. lists[m] # <<>>
      BY <2>4 DEF Fits, Solid
    <3>2. kept[m] = kept[m - 1] \o <<lists[m]>>
      BY <1>1, <3>1
    <3>3. \E r : Chain(kept[m - 1] \o <<lists[m]>>, r, line, p[0], p[m])
      BY <2>1, <2>2, <2>3, <2>4, ChainGrows
    <3> QED BY <2>1, <3>2, <3>3
  <2>5. CASE lists[m] = <<>> /\ p[m - 1] = p[m]
    <3>1. kept[m] = kept[m - 1] \o <<>>
      BY <1>1, <2>5
    <3>2. kept[m - 1] \in Seq(Seq(Pieces))
      BY <2>1
    <3>3. kept[m] = kept[m - 1]
      BY ONLY <3>1, <3>2
    <3> QED BY <2>1, <2>2, <2>5, <3>3
  <2> QED BY <2>3, <2>4, <2>5 DEF Reaches
<1> HIDE DEF T
<1>5. n \in T
  <2>1. n \in 0..n
    BY <1>2
  <2>2. \A m \in 0..n : m \in T
    BY <1>2, <1>3, <1>4, UpTo
  <2> QED BY <2>1, <2>2
<1> QED BY <1>1, <1>5 DEF T

\* Merged, if it is not empty.
LEMMA ChainMerges ==
  ASSUME NEW line \in Seq(Chars), NEW lists, lists # <<>>, NEW q, NEW i, NEW j, Chain(lists, q, line, i, j)
  PROVE  LET m == MergeTrigrams(lists) IN m.ok /\ Fits(m.trigrams, line, i, j)
BY MergeTrigramsFits DEF Chain

\* The permutations of permutation.rs.
LEMMA PickFacts ==
  ASSUME NEW S, NEW sets \in Seq(SUBSET S)
  PROVE  /\ AllPicks(sets) \subseteq Seq(S)
         /\ \A picks \in AllPicks(sets) : Len(picks) = Len(sets) /\ \A i \in 1..Len(sets) : picks[i] \in sets[i]
         /\ \A picks \in Seq(S) : /\ Len(picks) = Len(sets)
                                  /\ \A i \in 1..Len(sets) : picks[i] \in sets[i]
                                  => picks \in AllPicks(sets)
<1> DEFINE n == Len(sets)
<1>1. n \in Nat /\ DOMAIN sets = 1..n /\ \A i \in 1..n : sets[i] \in SUBSET S
  OBVIOUS
<1>2. \A i \in 1..n : sets[i] \subseteq UNION Range(sets)
  BY <1>1 DEF Range
<1> HIDE DEF n
<1>3. ASSUME NEW picks \in AllPicks(sets)
      PROVE  picks \in Seq(S) /\ Len(picks) = n /\ \A i \in 1..n : picks[i] \in sets[i]
  <2>1. DOMAIN picks = 1..n /\ picks = [i \in 1..n |-> picks[i]] /\ \A i \in 1..n : picks[i] \in sets[i]
    BY <1>1 DEF AllPicks
  <2>2. \A i \in 1..n : picks[i] \in S
    BY <1>1, <2>1
  <2>3. [i \in 1..n |-> picks[i]] \in Seq(S) /\ Len([i \in 1..n |-> picks[i]]) = n
    BY <1>1, <2>2, MakeSeq
  <2> QED BY <2>1, <2>3
<1>4. ASSUME NEW picks \in Seq(S), Len(picks) = n, \A i \in 1..n : picks[i] \in sets[i]
      PROVE  picks \in AllPicks(sets)
  <2>1. picks = [i \in 1..n |-> picks[i]]
    BY <1>4
  <2>2. \A i \in 1..n : picks[i] \in UNION Range(sets)
    BY <1>2, <1>4
  <2>3. picks \in [1..n -> UNION Range(sets)]
    BY <2>1, <2>2
  <2> QED BY <1>1, <1>4, <2>3 DEF AllPicks
<1> QED BY <1>3, <1>4 DEF n

LEMMA MergeAllFacts ==
  ASSUME NEW choices
  PROVE  LET m == MergeAll(choices)
         IN  /\ m.outcome \in {"ok", "panic"}
             /\ m.outcome = "ok" => \A lists \in choices : /\ MergeTrigrams(lists).ok
                                                           /\ MergeTrigrams(lists).trigrams \in m.candidates
             /\ choices \subseteq Seq(Seq(Pieces)) => m.candidates \subseteq Seq(Pieces)
<1> DEFINE merged == {MergeTrigrams(lists) : lists \in choices}
<1>1. MergeAll(choices) = IF \A m \in merged : m.ok THEN Ok({m.trigrams : m \in merged}) ELSE Panic
  BY DEF MergeAll
<1>2. CASE \A m \in merged : m.ok
  <2>1. MergeAll(choices) = Ok({m.trigrams : m \in merged})
    BY <1>1, <1>2
  <2>2. ASSUME choices \subseteq Seq(Seq(Pieces)), NEW lists \in choices
        PROVE  MergeTrigrams(lists).trigrams \in Seq(Pieces)
    BY <2>2, MergeTrigramsType DEF MergedLists
  <2> QED BY <1>2, <2>1, <2>2 DEF Ok
<1>3. CASE ~ \A m \in merged : m.ok
  <2>1. MergeAll(choices) = Panic
    BY <1>1, <1>3
  <2> QED BY <2>1 DEF Panic
<1> QED BY <1>2, <1>3

\* RegexSearchCandidates::concat: what the parts reach one after the other is reached.
LEMMA ConcatReaches ==
  ASSUME NEW line \in Seq(Chars), NEW parts \in Seq(SUBSET Seq(Pieces)),
         ConcatCandidates(parts).outcome = "ok", NEW p \in [0..Len(parts) -> Int],
         \A m \in 1..Len(parts) : \E c \in parts[m] : Reaches(c, line, p[m - 1], p[m])
  PROVE  \E c \in ConcatCandidates(parts).candidates : Fits(c, line, p[0], p[Len(parts)])
<1> DEFINE n == Len(parts)
           at(m) == CHOOSE c \in parts[m] : Reaches(c, line, p[m - 1], p[m])
           lists == [m \in 1..n |-> at(m)]
           choices == {Present(picks) : picks \in AllPicks(parts)}
<1>1. n \in Nat /\ DOMAIN parts = 1..n /\ \A m \in 1..n : parts[m] \in SUBSET Seq(Pieces)
  OBVIOUS
<1>2. \A m \in 1..n : at(m) \in parts[m] /\ Reaches(at(m), line, p[m - 1], p[m])
  OBVIOUS
<1> HIDE DEF at
<1>3. lists \in Seq(Seq(Pieces)) /\ Len(lists) = n /\ \A m \in 1..n : lists[m] = at(m)
  <2>1. \A m \in 1..n : at(m) \in Seq(Pieces)
    BY <1>1, <1>2
  <2> HIDE DEF n
  <2> QED BY <1>1, <2>1, MakeSeq
<1> HIDE DEF lists
<1>4. lists \in AllPicks(parts)
  <2>1. \A i \in 1..Len(parts) : lists[i] \in parts[i]
    BY <1>2, <1>3
  <2>2. \A picks \in Seq(Seq(Pieces)) :
          Len(picks) = Len(parts) /\ (\A i \in 1..Len(parts) : picks[i] \in parts[i]) => picks \in AllPicks(parts)
    BY PickFacts
  <2> QED BY <1>3, <2>1, <2>2
<1>5. PICK q : Chain(Present(lists), q, line, p[0], p[n])
  <2>1. \A m \in 1..Len(lists) : Reaches(lists[m], line, p[m - 1], p[m])
    BY <1>2, <1>3
  <2> QED BY <1>3, <2>1, PresentChain
<1>6. ConcatCandidates(parts) = MergeAll(choices)
  <2>1. \A m \in DOMAIN parts : parts[m] # {}
    BY <1>1, <1>2
  <2> QED BY <2>1 DEF ConcatCandidates
<1>7. Present(lists) \in choices
  BY <1>4
<1> HIDE DEF choices
<1> DEFINE m == MergeTrigrams(Present(lists))
<1>8. m.ok /\ m.trigrams \in ConcatCandidates(parts).candidates
  BY <1>6, <1>7, MergeAllFacts
<1>9. Present(lists) # <<>>
  <2>1. SUFFICES ASSUME Present(lists) = <<>> PROVE FALSE
    OBVIOUS
  <2>2. m = Unmergeable
    BY <2>1 DEF MergeTrigrams
  <2> QED BY <1>8, <2>2 DEF Unmergeable
<1>10. Fits(m.trigrams, line, p[0], p[n])
  BY <1>5, <1>9, ChainMerges
<1> QED BY <1>8, <1>10

LEMMA ConcatType ==
  ASSUME NEW parts \in Seq(SUBSET Seq(Pieces))
  PROVE  /\ ConcatCandidates(parts).outcome \in {"ok", "panic"}
         /\ ConcatCandidates(parts).candidates \subseteq Seq(Pieces)
<1>1. CASE \E i \in DOMAIN parts : parts[i] = {}
  BY <1>1 DEF ConcatCandidates, Ok
<1>2. CASE ~ \E i \in DOMAIN parts : parts[i] = {}
  <2> DEFINE choices == {Present(picks) : picks \in AllPicks(parts)}
  <2>1. choices \subseteq Seq(Seq(Pieces))
    BY PickFacts, PresentType
  <2>2. ConcatCandidates(parts) = MergeAll(choices)
    BY <1>2 DEF ConcatCandidates
  <2> HIDE DEF choices
  <2> QED BY <2>1, <2>2, MergeAllFacts
<1> QED BY <1>1, <1>2

-----------------------------------------------------------------------------
(* Candidates of repetitions.                                              *)

CopiesOf(part, n) == [m \in 1..n |-> part]

LEMMA CopiesFacts ==
  ASSUME NEW S, NEW part \in S, NEW n \in Nat
  PROVE  /\ CopiesOf(part, n) \in Seq(S) /\ Len(CopiesOf(part, n)) = n
         /\ \A m \in 1..n : CopiesOf(part, n)[m] = part
BY MakeSeq DEF CopiesOf

LEMMA NotEmpty ==
  ASSUME NEW S, NEW s \in Seq(S), Len(s) # 0
  PROVE  s # <<>>
OBVIOUS

LEMMA TripleFacts ==
  ASSUME NEW S, NEW part \in S
  PROVE  /\ CopiesOf(part, 3) \in Seq(S) /\ Len(CopiesOf(part, 3)) = 3
         /\ CopiesOf(part, 3) # <<>> /\ \A m \in 1..3 : CopiesOf(part, 3)[m] = part
<1> DEFINE t == [m \in 1..3 |-> part]
<1>1. t \in Seq(S) /\ Len(t) = 3 /\ \A m \in 1..3 : t[m] = part
  BY MakeSeq
<1>2. t # <<>>
  <2>1. Len(t) # 0
    BY <1>1
  <2> HIDE DEF t
  <2> QED BY <1>1, <2>1, NotEmpty
<1> QED BY <1>1, <1>2 DEF CopiesOf

\* Copies that fit one after the other fit together, be they as many as they like: of more
\* than three, the first three and the last three are the ends.
LEMMA ThreeCopies ==
  ASSUME NEW line \in Seq(Chars), NEW c \in Seq(Pieces), NEW k \in Nat, k > 3, NEW p \in [0..k -> Int],
         \A m \in 1..k : Fits(c, line, p[m - 1], p[m]) /\ p[m - 1] < p[m],
         NEW copies, copies = CopiesOf(c, 3)
  PROVE  MergeTrigrams(copies).ok /\ Fits(MergeTrigrams(copies).trigrams, line, p[0], p[k])
<1> DEFINE M == MergeTrigrams(copies)
           t == M.trigrams
           q == [x \in 0..3 |-> p[k - 3 + x]]
<1>1. copies \in Seq(Seq(Pieces)) /\ copies # <<>> /\ Len(copies) = 3 /\ \A m \in 1..3 : copies[m] = c
  BY TripleFacts
<1>2. \A m \in 1..3 : Fits(copies[m], line, p[m - 1], p[m])
  <2>1. \A m \in 1..3 : m \in 1..k
    BY ONLY k \in Nat, k > 3
  <2> QED BY <1>1, <2>1
<1>3. \A m \in 1..3 : Fits(copies[m], line, q[m - 1], q[m])
  <2>1. ASSUME NEW m \in 1..3 PROVE Fits(c, line, q[m - 1], q[m])
    <3>1. k - 3 + m \in 1..k /\ (k - 3 + m) - 1 = k - 3 + (m - 1) /\ m \in 0..3 /\ m - 1 \in 0..3
      BY ONLY k \in Nat, k > 3, m \in 1..3
    <3>2. q[m] = p[k - 3 + m] /\ q[m - 1] = p[(k - 3 + m) - 1]
      BY <3>1
    <3> HIDE DEF q
    <3> QED BY <3>1, <3>2
  <2> HIDE DEF q
  <2> QED BY <1>1, <2>1
<1>4. q[3] = p[k]
  <2>1. k - 3 + 3 = k /\ 3 \in 0..3
    OBVIOUS
  <2> QED BY <2>1
<1> HIDE DEF q
<1>5. M.ok /\ Fits(t, line, p[0], p[3])
  <2>1. \A m \in 1..Len(copies) : Fits(copies[m], line, p[m - 1], p[m])
    BY <1>1, <1>2
  <2>2. M.ok /\ Fits(t, line, p[0], p[Len(copies)])
    BY <1>1, <2>1, MergeTrigramsFits
  <2> QED BY <1>1, <2>2
<1>6. Fits(t, line, q[0], p[k])
  <2>1. \A m \in 1..Len(copies) : Fits(copies[m], line, q[m - 1], q[m])
    BY <1>1, <1>3
  <2>2. Fits(t, line, q[0], q[Len(copies)])
    BY <1>1, <2>1, MergeTrigramsFits
  <2> QED BY <1>1, <1>4, <2>2
<1>7. t \in Seq(Pieces)
  BY <1>1, MergeTrigramsType DEF MergedLists
<1> HIDE DEF M, t
<1>8. Size(t[1]) = 3
  <2>1. p[0] + 3 <= p[3] /\ p[0] \in Int /\ p[3] \in Int
    <3>1. 1 \in 1..k /\ 2 \in 1..k /\ 3 \in 1..k /\ 1 - 1 = 0 /\ 2 - 1 = 1 /\ 3 - 1 = 2
      OBVIOUS
    <3>2. p[1 - 1] < p[1] /\ p[2 - 1] < p[2] /\ p[3 - 1] < p[3]
      BY <3>1
    <3>3. p[0] \in Int /\ p[1] \in Int /\ p[2] \in Int /\ p[3] \in Int
      <4>1. 0 \in 0..k /\ 1 \in 0..k /\ 2 \in 0..k /\ 3 \in 0..k
        OBVIOUS
      <4> QED BY <4>1
    <3> QED BY <3>1, <3>2, <3>3
  <2>2. Size(t[1]) \in 1..3
    BY <1>5, <1>7, FitFacts
  <2>3. Size(t[1]) < 3 => p[0] + Size(t[1]) = p[3]
    BY <1>5 DEF Fits
  <2> DEFINE s == Size(t[1])
  <2>4. s \in 1..3 /\ (s < 3 => p[0] + s = p[3])
    BY <2>2, <2>3
  <2> HIDE DEF s
  <2>5. s = 3
    BY ONLY <2>1, <2>4
  <2> QED BY <2>5 DEF s
<1>9. Fits(t, line, p[0], p[k])
  BY <1>5, <1>6, <1>8 DEF Fits
<1> QED BY <1>5, <1>9 DEF M, t

LEMMA RepeatFacts ==
  ASSUME NEW part \in SUBSET Seq(Pieces), NEW min \in Nat, NEW max \in Nat \cup {NoMax},
         Repeat(part, min, max).outcome = "ok"
  PROVE  /\ 0 \in Counts(min, max) => <<>> \in Repeat(part, min, max).candidates
         /\ \A n \in Counts(min, max) \ {0} : \A lists \in AllPicks(CopiesOf(part, n)) :
              /\ MergeTrigrams(lists).ok
              /\ MergeTrigrams(lists).trigrams \in Repeat(part, min, max).candidates
<1> DEFINE counts == Counts(min, max)
           some == counts \ {0}
           choices == Copies(part, some)
           merged == MergeAll(choices)
           none == {<<>> : n \in counts \cap {0}}
<1>1. Repeat(part, min, max) = IF merged.outcome = "panic" \/ (part = {} /\ some # {}) THEN Panic
                               ELSE Ok(none \cup merged.candidates)
  BY DEF Repeat
<1>2. \A n \in some : \A lists \in AllPicks(CopiesOf(part, n)) : lists \in choices
  BY DEF Copies, CopiesOf
<1>3. merged.outcome \in {"ok", "panic"}
  BY MergeAllFacts
<1>4. 0 \in counts => <<>> \in none
  OBVIOUS
<1>5. merged.outcome = "ok" => \A lists \in choices : /\ MergeTrigrams(lists).ok
                                                      /\ MergeTrigrams(lists).trigrams \in merged.candidates
  BY MergeAllFacts
<1> HIDE DEF merged, none, choices
<1>6. merged.outcome = "ok" /\ Repeat(part, min, max).candidates = none \cup merged.candidates
  BY <1>1, <1>3 DEF Panic, Ok
<1> QED BY <1>2, <1>4, <1>5, <1>6

LEMMA CountFacts ==
  ASSUME NEW min \in Nat, NEW max \in Nat \cup {NoMax}, NEW n \in Nat, min <= n, max = NoMax \/ n <= max
  PROVE  /\ n <= 3 => n \in Counts(min, max)
         /\ n > 3 => 3 \in Counts(min, max) /\ max \notin 0..3
<1>1. NoMax \notin Nat
  BY DEF NoMax
<1>2. CASE max = NoMax
  BY <1>1, <1>2 DEF Counts, NoMax
<1>3. CASE max # NoMax
  <2>1. max \in Nat /\ n <= max
    BY <1>3
  <2> QED BY <1>3, <2>1 DEF Counts
<1> QED BY <1>2, <1>3

\* Each step is reached by a candidate of the part; e in S allows it to be empty.
Stepped(part, line, p, n, e, S) ==
  \A m \in 1..n : \E c \in part : Reaches(c, line, p[m - 1], p[m]) /\ (c = <<>> => e \in S)

\* All n steps are reached at once.
Crossed(cands, line, p, n, e, S) ==
  \E c \in cands : Reaches(c, line, p[0], p[n]) /\ (c = <<>> => n = 0 \/ (n = 1 /\ e \in S))

\* Up to three copies: what they reach one after the other is reached.
LEMMA CopiesReach ==
  ASSUME NEW line \in Seq(Chars), NEW part \in SUBSET Seq(Pieces), NEW min \in Nat,
         NEW max \in Nat \cup {NoMax}, Repeat(part, min, max).outcome = "ok",
         NEW n \in Counts(min, max), n \in Nat, NEW p \in [0..n -> Int], NEW e, NEW S,
         Stepped(part, line, p, n, e, S)
  PROVE  Crossed(Repeat(part, min, max).candidates, line, p, n, e, S)
<1> USE DEF Crossed
<1>1. CASE n = 0
  <2>1. <<>> \in Repeat(part, min, max).candidates
    BY <1>1, RepeatFacts
  <2> QED BY <1>1, <2>1 DEF Reaches
<1>2. CASE n # 0
  <2> DEFINE at(m) == CHOOSE c \in part : Reaches(c, line, p[m - 1], p[m]) /\ (c = <<>> => e \in S)
             lists == [m \in 1..n |-> at(m)]
             sets == CopiesOf(part, n)
  <2>1. \A m \in 1..n : at(m) \in part /\ Reaches(at(m), line, p[m - 1], p[m]) /\ (at(m) = <<>> => e \in S)
    BY DEF Stepped
  <2> HIDE DEF at
  <2>2. lists \in Seq(Seq(Pieces)) /\ Len(lists) = n /\ \A m \in 1..n : lists[m] = at(m)
    <3>1. \A m \in 1..n : at(m) \in Seq(Pieces)
      BY <2>1
    <3> QED BY <3>1, MakeSeq
  <2>3. sets \in Seq(SUBSET Seq(Pieces)) /\ Len(sets) = n /\ \A m \in 1..n : sets[m] = part
    BY CopiesFacts
  <2> HIDE DEF lists, sets
  <2>4. \A picks \in Seq(Seq(Pieces)) : Len(picks) = n /\ (\A m \in 1..n : picks[m] \in part)
                                        => picks \in AllPicks(sets)
    <3>1. \A picks \in Seq(Seq(Pieces)) :
            Len(picks) = Len(sets) /\ (\A i \in 1..Len(sets) : picks[i] \in sets[i]) => picks \in AllPicks(sets)
      BY <2>3, PickFacts
    <3> QED BY <2>3, <3>1
  <2>5. \A picks \in AllPicks(sets) :
          MergeTrigrams(picks).ok /\ MergeTrigrams(picks).trigrams \in Repeat(part, min, max).candidates
    BY <1>2, RepeatFacts DEF sets
  <2>6. lists \in AllPicks(sets)
    BY <2>1, <2>2, <2>4
  <2> DEFINE m == MergeTrigrams(lists)
  <2>7. m.ok /\ m.trigrams \in Repeat(part, min, max).candidates
    BY <2>5, <2>6
  <2>8. CASE n = 1
    <3>1. m = [ok |-> TRUE, trigrams |-> lists[1]]
      <4>1. Len(lists) = 1 /\ lists # <<>>
        <5>1. Len(lists) = 1
          BY <2>2, <2>8
        <5>2. Len(lists) # 0
          BY <5>1
        <5> QED BY <2>2, <5>1, <5>2, NotEmpty
      <4>2. Len(lists) - 1 = 0
        BY ONLY <4>1
      <4> QED BY <2>2, <4>1, <4>2, MergedBy
    <3>2. m.trigrams = at(1)
      BY <2>2, <2>8, <3>1
    <3>3. Reaches(at(1), line, p[0], p[1]) /\ (at(1) = <<>> => e \in S)
      <4>1. 1 \in 1..n /\ 1 - 1 = 0
        BY <2>8
      <4>2. Reaches(at(1), line, p[1 - 1], p[1]) /\ (at(1) = <<>> => e \in S)
        BY <2>1, <4>1
      <4> QED BY <4>1, <4>2
    <3> QED BY <2>7, <2>8, <3>2, <3>3
  <2>9. CASE n # 1
    <3>1. n >= 2
      BY <1>2, <2>9
    <3>2. <<>> \notin part
      <4> DEFINE none == CopiesOf(<<>>, n)
      <4>1. SUFFICES ASSUME <<>> \in part PROVE FALSE
        OBVIOUS
      <4>2. none \in Seq(Seq(Pieces)) /\ Len(none) = n /\ \A x \in 1..n : none[x] = <<>>
        <5>1. <<>> \in Seq(Pieces)
          OBVIOUS
        <5> QED BY <5>1, CopiesFacts
      <4> HIDE DEF none
      <4>3. none \in AllPicks(sets)
        BY <2>4, <4>1, <4>2
      <4>4. none[Len(none)] = <<>>
        <5>1. n \in 1..n
          BY ONLY <3>1, n \in Nat
        <5> QED BY <4>2, <5>1
      <4> QED BY <2>5, <3>1, <4>2, <4>3, <4>4, EmptyNotMerged
    <3>3. \A x \in 1..Len(lists) : Fits(lists[x], line, p[x - 1], p[x])
      BY <2>1, <2>2, <3>2 DEF Reaches
    <3>4. lists # <<>>
      BY <1>2, <2>2
    <3>5. Fits(m.trigrams, line, p[0], p[n])
      BY <2>2, <3>3, <3>4, MergeTrigramsFits
    <3>6. m.trigrams # <<>>
      BY <3>5 DEF Fits, Solid
    <3> QED BY <2>7, <3>5, <3>6 DEF Reaches
  <2> QED BY <2>8, <2>9
<1> QED BY <1>1, <1>2

\* More than three copies of what has one candidate, which fits each of them.
LEMMA ManyReach ==
  ASSUME NEW line \in Seq(Chars), NEW part \in SUBSET Seq(Pieces), NEW min \in Nat,
         NEW max \in Nat \cup {NoMax}, Repeat(part, min, max).outcome = "ok",
         3 \in Counts(min, max), NEW n \in Nat, n > 3, NEW p \in [0..n -> Int],
         NEW c \in part,
         \A m \in 1..n : Fits(c, line, p[m - 1], p[m]) /\ p[m - 1] < p[m]
  PROVE  \E d \in Repeat(part, min, max).candidates : Fits(d, line, p[0], p[n])
<1> DEFINE copies == CopiesOf(c, 3)
           sets == CopiesOf(part, 3)
<1>1. copies \in Seq(Seq(Pieces)) /\ Len(copies) = 3 /\ \A m \in 1..3 : copies[m] = c
  BY TripleFacts
<1>2. sets \in Seq(SUBSET Seq(Pieces)) /\ Len(sets) = 3 /\ \A m \in 1..3 : sets[m] = part
  BY TripleFacts
<1>3. \A picks \in AllPicks(sets) :
        MergeTrigrams(picks).ok /\ MergeTrigrams(picks).trigrams \in Repeat(part, min, max).candidates
  <2>1. 3 \in Counts(min, max) \ {0}
    OBVIOUS
  <2> QED BY <2>1, RepeatFacts
<1>4. Fits(MergeTrigrams(copies).trigrams, line, p[0], p[n])
  BY ThreeCopies
<1> HIDE DEF copies, sets
<1>5. copies \in AllPicks(sets)
  <2>1. \A picks \in Seq(Seq(Pieces)) :
          Len(picks) = Len(sets) /\ (\A i \in 1..Len(sets) : picks[i] \in sets[i]) => picks \in AllPicks(sets)
    BY <1>2, PickFacts
  <2>2. \A i \in 1..3 : copies[i] \in sets[i]
    <3>1. ASSUME NEW i \in 1..3 PROVE copies[i] \in sets[i]
      <4>1. copies[i] = c /\ sets[i] = part
        BY <1>1, <1>2
      <4> QED BY <4>1
    <3> QED BY <3>1
  <2> QED BY <1>1, <1>2, <2>1, <2>2
<1> QED BY <1>3, <1>4, <1>5

LEMMA RepeatType ==
  ASSUME NEW part \in SUBSET Seq(Pieces), NEW min \in Nat, NEW max \in Nat \cup {NoMax}
  PROVE  /\ Repeat(part, min, max).outcome \in {"ok", "panic"}
         /\ Repeat(part, min, max).candidates \subseteq Seq(Pieces)
<1> DEFINE counts == Counts(min, max)
           some == counts \ {0}
           choices == Copies(part, some)
           merged == MergeAll(choices)
           none == {<<>> : n \in counts \cap {0}}
<1>1. Repeat(part, min, max) = IF merged.outcome = "panic" \/ (part = {} /\ some # {}) THEN Panic
                               ELSE Ok(none \cup merged.candidates)
  BY DEF Repeat
<1>2. some \subseteq Nat
  <2>1. counts \subseteq Nat
    BY DEF Counts, NoMax
  <2> QED BY <2>1
<1>3. choices \subseteq Seq(Seq(Pieces))
  <2>1. ASSUME NEW n \in some PROVE AllPicks([j \in 1..n |-> part]) \subseteq Seq(Seq(Pieces))
    <3>1. [j \in 1..n |-> part] \in Seq(SUBSET Seq(Pieces))
      BY <1>2, MakeSeq
    <3> QED BY <3>1, PickFacts
  <2> HIDE DEF some
  <2> QED BY <2>1 DEF Copies
<1>4. none \subseteq Seq(Pieces)
  <2>1. <<>> \in Seq(Pieces)
    OBVIOUS
  <2> QED BY <2>1
<1> HIDE DEF choices, none, some
<1>5. merged.candidates \subseteq Seq(Pieces)
  BY <1>3, MergeAllFacts
<1> HIDE DEF merged
<1> QED BY <1>1, <1>4, <1>5 DEF Ok, Panic

-----------------------------------------------------------------------------
(* build_candidates_from_hir, by its recursive function.                   *)

\* What holds of an expression if it holds of all that is less deep holds of all.
LEMMA ByDepth ==
  ASSUME NEW E, NEW D \in [E -> Nat], NEW S, \A x \in E : Below(D, x) \subseteq S => x \in S
  PROVE  E \subseteq S
<1> DEFINE bad == {n \in Nat : \E x \in E : D[x] = n /\ x \notin S}
<1>1. SUFFICES ASSUME NEW x \in E, x \notin S PROVE FALSE
  OBVIOUS
<1>2. bad \in SUBSET Nat /\ D[x] \in bad
  BY <1>1
<1>3. PICK n \in bad : \A m \in bad : n <= m
  BY <1>2, LeastNatural
<1>4. PICK y \in E : D[y] = n /\ y \notin S
  BY <1>3
<1>5. ASSUME NEW z \in Below(D, y) PROVE z \in S
  <2>1. z \in E /\ D[z] \in Nat /\ D[z] < n /\ n \in Nat
    BY <1>4 DEF Below
  <2>2. ~ (n <= D[z])
    BY <2>1
  <2> QED BY <1>3, <2>1, <2>2
<1> QED BY <1>4, <1>5

Builds == [outcome : {"ok", "panic", "refused"}, candidates : SUBSET Seq(Pieces)]

\* The candidates of parts.
PartsOf(x, build) == [i \in DOMAIN x.parts |-> build[x.parts[i]].candidates]

LEMMA LiteralType ==
  ASSUME NEW text \in Seq(Chars)
  PROVE  FromLongString(text) \in Seq(Pieces)
<1> DEFINE elements == [i \in DOMAIN text |-> {text[i]}]
<1>1. elements \in Seq(SUBSET Chars) /\ Len(elements) = Len(text)
  <2>1. DOMAIN text = 1..Len(text) /\ Len(text) \in Nat /\ \A i \in 1..Len(text) : {text[i]} \in SUBSET Chars
    OBVIOUS
  <2>2. elements = [i \in 1..Len(text) |-> elements[i]] /\ \A i \in 1..Len(text) : elements[i] \in SUBSET Chars
    BY <2>1
  <2> HIDE DEF elements
  <2> QED BY <2>1, <2>2, MakeSeq
<1> HIDE DEF elements
<1>2. <<elements>> \in Seq(Pieces)
  BY <1>1 DEF Pieces
<1>3. Windows(elements) \in Seq(Pieces)
  <2>1. CASE Len(elements) >= 3
    BY <1>1, <2>1, WindowFacts DEF Pieces
  <2>2. CASE Len(elements) < 3
    <3>1. Len(elements) \in Nat
      BY <1>1
    <3>2. 1..(Len(elements) - 2) = 1..0 /\ 1..0 = {}
      BY <2>2, <3>1
    <3>3. Windows(elements) = [i \in 1..0 |-> SubSeq(elements, i, i + 2)]
      BY <3>2 DEF Windows
    <3>4. Windows(elements) = [i \in 1..0 |-> Windows(elements)[i]]
      BY <3>2, <3>3
    <3> QED BY <3>2, <3>4, MakeSeq
  <2> QED BY <1>1, <2>1, <2>2
<1> QED BY <1>2, <1>3 DEF FromLongString, elements

LEMMA CandidatesOfKind ==
  ASSUME NEW x, NEW build, NEW view
  PROVE  LET c == CandidatesOf(x, build, view)
         IN  /\ x.kind = "empty" => c = Ok({})
             /\ x.kind = "literal" =>
                  c = Ok(IF DocsWithWord(view, x.text) = {} THEN {} ELSE {FromLongString(x.text)})
             /\ x.kind = "class" => c = Ok({<< <<x.chars>> >>})
             /\ x.kind = "capture" => c = Refused
             /\ x.kind = "repetition" =>
                  c = IF build[x.sub].outcome # "ok" THEN build[x.sub]
                      ELSE Repeat(build[x.sub].candidates, x.min, x.max)
             /\ x.kind \in {"concat", "alternation"} => c = JoinCandidates(x, build)
<1>1. CASE x.kind = "empty"
  BY <1>1 DEF CandidatesOf
<1>2. CASE x.kind = "literal"
  BY <1>2 DEF CandidatesOf
<1>3. CASE x.kind = "class"
  BY <1>3 DEF CandidatesOf
<1>4. CASE x.kind = "capture"
  BY <1>4 DEF CandidatesOf
<1>5. CASE x.kind = "repetition"
  BY <1>5 DEF CandidatesOf
<1>6. CASE x.kind = "concat"
  BY <1>6 DEF CandidatesOf
<1>7. CASE x.kind = "alternation"
  BY <1>7 DEF CandidatesOf
<1>8. CASE x.kind \notin Kinds
  BY <1>8 DEF Kinds
<1> QED BY <1>1, <1>2, <1>3, <1>4, <1>5, <1>6, <1>7, <1>8 DEF Kinds

\* Parts that were all built, or one that was not.
LEMMA JoinFacts ==
  ASSUME NEW x \in Expressions, x.kind \in {"concat", "alternation"}, NEW build
  PROVE  \/ /\ \A i \in DOMAIN x.parts : build[x.parts[i]].outcome = "ok"
            /\ x.kind = "concat" => JoinCandidates(x, build) = ConcatCandidates(PartsOf(x, build))
            /\ x.kind = "alternation" => JoinCandidates(x, build) = Ok(UNION Range(PartsOf(x, build)))
         \/ \E i \in DOMAIN x.parts : /\ build[x.parts[i]].outcome # "ok"
                                      /\ JoinCandidates(x, build) = build[x.parts[i]]
<1> DEFINE failed == {i \in DOMAIN x.parts : build[x.parts[i]].outcome # "ok"}
<1>1. JoinCandidates(x, build) = IF failed # {} THEN build[x.parts[Min(failed)]]
                                 ELSE IF x.kind = "concat" THEN ConcatCandidates(PartsOf(x, build))
                                 ELSE Ok(UNION Range(PartsOf(x, build)))
  BY DEF JoinCandidates, PartsOf
<1>2. CASE failed = {}
  <2>1. \A i \in DOMAIN x.parts : build[x.parts[i]].outcome = "ok"
    BY <1>2
  <2> HIDE DEF failed
  <2> QED BY <1>1, <1>2, <2>1
<1>3. CASE failed # {}
  <2>1. failed \in SUBSET Nat
    BY ExpressionFacts
  <2> HIDE DEF failed
  <2>2. Min(failed) \in failed
    BY <1>3, <2>1, MinOf
  <2>3. JoinCandidates(x, build) = build[x.parts[Min(failed)]]
    BY <1>1, <1>3
  <2> QED BY <2>2, <2>3 DEF failed
<1> QED BY <1>2, <1>3

LEMMA PartsType ==
  ASSUME NEW x \in Expressions, x.kind \in {"concat", "alternation"}, NEW build \in [Expressions -> Builds]
  PROVE  /\ PartsOf(x, build) \in Seq(SUBSET Seq(Pieces)) /\ Len(PartsOf(x, build)) = Len(x.parts)
         /\ \A i \in 1..Len(x.parts) : PartsOf(x, build)[i] = build[x.parts[i]].candidates
<1> DEFINE n == Len(x.parts)
           parts == [i \in 1..n |-> build[x.parts[i]].candidates]
<1>1. n \in Nat /\ DOMAIN x.parts = 1..n /\ \A i \in 1..n : x.parts[i] \in Expressions
  BY ExpressionFacts
<1>2. \A i \in 1..n : build[x.parts[i]].candidates \in SUBSET Seq(Pieces)
  BY <1>1 DEF Builds
<1>3. PartsOf(x, build) = parts
  BY <1>1 DEF PartsOf
<1>4. \A i \in 1..n : parts[i] = build[x.parts[i]].candidates
  OBVIOUS
<1> HIDE DEF n
<1>5. parts = [i \in 1..n |-> parts[i]] /\ \A i \in 1..n : parts[i] \in SUBSET Seq(Pieces)
  BY <1>2
<1> HIDE DEF parts
<1>6. parts \in Seq(SUBSET Seq(Pieces)) /\ Len(parts) = n
  BY <1>1, <1>5, MakeSeq
<1> QED BY <1>3, <1>4, <1>6 DEF n

LEMMA CandidatesType ==
  ASSUME NEW x \in Expressions, NEW build \in [Expressions -> Builds], NEW view
  PROVE  CandidatesOf(x, build, view) \in Builds
<1>1. \A set \in SUBSET Seq(Pieces) : Ok(set) \in Builds
  BY DEF Ok, Builds
<1>2. CASE x.kind = "empty"
  BY <1>1, <1>2, CandidatesOfKind
<1>3. CASE x.kind = "literal"
  <2>1. FromLongString(x.text) \in Seq(Pieces)
    BY <1>3, ExpressionFacts, LiteralType
  <2> QED BY <1>1, <1>3, <2>1, CandidatesOfKind
<1>4. CASE x.kind = "class"
  <2>1. << <<x.chars>> >> \in Seq(Pieces)
    BY <1>4, ExpressionFacts DEF Pieces
  <2> QED BY <1>1, <1>4, <2>1, CandidatesOfKind
<1>5. CASE x.kind = "capture"
  <2>1. CandidatesOf(x, build, view) = Refused
    BY <1>5, CandidatesOfKind
  <2> QED BY <2>1 DEF Refused, Builds
<1>6. CASE x.kind = "repetition"
  <2> DEFINE part == build[x.sub].candidates
             r == Repeat(part, x.min, x.max)
  <2>1. x.sub \in Expressions /\ x.min \in Nat /\ x.max \in Nat \cup {NoMax}
    BY <1>6, ExpressionFacts
  <2>2. build[x.sub] \in Builds /\ part \in SUBSET Seq(Pieces)
    BY <2>1 DEF Builds
  <2> HIDE DEF part
  <2>3. r.outcome \in {"ok", "panic"} /\ r.candidates \subseteq Seq(Pieces)
    BY <2>1, <2>2, RepeatType
  <2>4. r = [outcome |-> r.outcome, candidates |-> r.candidates]
    BY DEF Repeat, Panic, Ok
  <2>5. r \in Builds
    <3> HIDE DEF r
    <3> QED BY <2>3, <2>4 DEF Builds
  <2> QED BY <1>6, <2>2, <2>5, CandidatesOfKind DEF part
<1>7. CASE x.kind \in {"concat", "alternation"}
  <2> DEFINE parts == PartsOf(x, build)
             r == ConcatCandidates(parts)
  <2>1. /\ parts \in Seq(SUBSET Seq(Pieces))
        /\ \A i \in 1..Len(parts) : parts[i] \in SUBSET Seq(Pieces)
    BY <1>7, PartsType
  <2>2. CandidatesOf(x, build, view) = JoinCandidates(x, build)
    BY <1>7, CandidatesOfKind
  <2>3. \A i \in DOMAIN x.parts : build[x.parts[i]] \in Builds
    BY <1>7, ExpressionFacts
  <2> HIDE DEF parts
  <2>4. r.outcome \in {"ok", "panic"} /\ r.candidates \subseteq Seq(Pieces)
    BY <2>1, ConcatType
  <2>5. r = [outcome |-> r.outcome, candidates |-> r.candidates]
    BY DEF ConcatCandidates, MergeAll, Panic, Ok
  <2>6. r \in Builds
    <3> HIDE DEF r
    <3> QED BY <2>4, <2>5 DEF Builds
  <2>7. Ok(UNION Range(parts)) \in Builds
    <3>1. \A s \in Range(parts) : s \in SUBSET Seq(Pieces)
      BY <2>1 DEF Range
    <3> QED BY <1>1, <3>1
  <2> HIDE DEF r
  <2> QED BY <1>7, <2>2, <2>3, <2>6, <2>7, JoinFacts DEF parts, r
<1> QED BY <1>2, <1>3, <1>4, <1>5, <1>6, <1>7, ExpressionFacts DEF Kinds

\* Only the parts count.
LEMMA CandidatesOfParts ==
  ASSUME NEW x \in Expressions, NEW g, NEW h, NEW view, \A y \in Below(Depth, x) : g[y] = h[y]
  PROVE  CandidatesOf(x, g, view) = CandidatesOf(x, h, view)
<1>1. x.kind = "repetition" => g[x.sub] = h[x.sub]
  BY ExpressionFacts
<1>2. x.kind \in {"concat", "alternation"} => \A i \in DOMAIN x.parts : g[x.parts[i]] = h[x.parts[i]]
  BY ExpressionFacts
<1>3. CASE x.kind \in {"empty", "literal", "class", "capture"}
  BY <1>3 DEF CandidatesOf
<1>4. CASE x.kind = "repetition"
  BY <1>1, <1>4 DEF CandidatesOf
<1>5. CASE x.kind \in {"concat", "alternation"}
  <2> DEFINE failed(b) == {i \in DOMAIN x.parts : b[x.parts[i]].outcome # "ok"}
  <2>1. failed(g) = failed(h) /\ PartsOf(x, g) = PartsOf(x, h)
    BY <1>2, <1>5 DEF PartsOf
  <2>2. \A b : JoinCandidates(x, b) = IF failed(b) # {} THEN b[x.parts[Min(failed(b))]]
                                      ELSE IF x.kind = "concat" THEN ConcatCandidates(PartsOf(x, b))
                                      ELSE Ok(UNION Range(PartsOf(x, b)))
    BY DEF JoinCandidates, PartsOf
  <2>3. failed(g) # {} => Min(failed(g)) \in DOMAIN x.parts
    <3>1. failed(g) \in SUBSET Nat /\ failed(g) \subseteq DOMAIN x.parts
      BY <1>5, ExpressionFacts
    <3> HIDE DEF failed
    <3> QED BY <3>1, MinOf
  <2> HIDE DEF failed
  <2>4. JoinCandidates(x, g) = JoinCandidates(x, h)
    BY <1>2, <1>5, <2>1, <2>2, <2>3
  <2> QED BY <1>5, <2>4, CandidatesOfKind
<1> QED BY <1>3, <1>4, <1>5, ExpressionFacts DEF Kinds

LEMMA BuildBy ==
  ASSUME NEW view
  PROVE  \E build \in [Expressions -> Builds] :
           /\ \A x \in Expressions : build[x] = CandidatesOf(x, build, view)
           /\ \A x \in Expressions : BuildCandidates(view, x) = build[x]
<1> DEFINE E == Expressions
           V == Builds
           step == [g \in [E -> V] |-> [x \in E |-> CandidatesOf(x, g, view)]]
           build == CHOOSE f : f = [x \in E |-> CandidatesOf(x, f, view)]
<1>1. step \in [[E -> V] -> [E -> V]]
  BY CandidatesType
<1>2. ASSUME NEW g \in [E -> V], NEW h \in [E -> V], NEW x \in E, \A y \in Below(Depth, x) : g[y] = h[y]
      PROVE  step[g][x] = step[h][x]
  BY <1>2, CandidatesOfParts
<1>3. Depth \in [E -> Nat] /\ Panic \in V
  BY ExpressionsAssumption DEF Panic, Builds
<1>4. \A g \in [E -> V] : step[g] = [x \in E |-> CandidatesOf(x, g, view)]
  OBVIOUS
<1>5. \A x : BuildCandidates(view, x) = build[x]
  BY DEF BuildCandidates
<1> HIDE DEF V, step
<1>6. PICK f \in [E -> V] : f = step[f]
  <2>1. LooksBelow(step, E, Depth, V)
    BY <1>1, <1>2 DEF LooksBelow
  <2> HIDE DEF E
  <2> QED BY <1>3, <2>1, RecursionExists
<1>7. f = [x \in E |-> CandidatesOf(x, f, view)]
  BY <1>4, <1>6
<1>8. build = [x \in E |-> CandidatesOf(x, build, view)]
  BY <1>7
<1> HIDE DEF build
<1>9. build \in [E -> V]
  <2> DEFINE S == {x \in E : build[x] = f[x]}
  <2>1. ASSUME NEW x \in E, Below(Depth, x) \subseteq S PROVE x \in S
    <3>1. CandidatesOf(x, build, view) = CandidatesOf(x, f, view)
      BY <2>1, CandidatesOfParts
    <3>2. build[x] = CandidatesOf(x, build, view) /\ f[x] = CandidatesOf(x, f, view)
      BY <1>7, <1>8
    <3> QED BY <3>1, <3>2
  <2>2. E \subseteq S
    <3> HIDE DEF S, E
    <3> QED BY <1>3, <2>1, ByDepth
  <2> QED BY <1>6, <1>8, <2>2
<1>10. \A x \in E : build[x] = CandidatesOf(x, build, view)
  BY <1>8
<1> QED BY <1>5, <1>9, <1>10 DEF V

\* What is covered, by its recursive function.
LEMMA CoveredFacts ==
  ASSUME NEW x \in Expressions
  PROVE  Covered(x) <=>
           \/ x.kind = "literal" /\ (ByteLen(x.text) <= 2 \/ Len(x.text) >= 3)
           \/ x.kind = "class"
           \/ x.kind = "repetition" /\ Covered(x.sub) /\ (x.max \in 0..3 \/ x.sub.kind \in {"literal", "class"})
           \/ x.kind \in {"concat", "alternation"} /\ \A i \in DOMAIN x.parts : Covered(x.parts[i])
<1> DEFINE E == Expressions
           V == BOOLEAN
           step == [g \in [E -> V] |-> [y \in E |-> CoveredBy(y, g)]]
           covered == CHOOSE f : f = [y \in E |-> CoveredBy(y, f)]
           by(y, g) ==
             \/ y.kind = "literal" /\ (ByteLen(y.text) <= 2 \/ Len(y.text) >= 3)
             \/ y.kind = "class"
             \/ y.kind = "repetition" /\ g[y.sub] /\ (y.max \in 0..3 \/ y.sub.kind \in {"literal", "class"})
             \/ y.kind \in {"concat", "alternation"} /\ \A i \in DOMAIN y.parts : g[y.parts[i]]
<1>1. ASSUME NEW g \in [E -> V], NEW y \in E PROVE CoveredBy(y, g) \in V
  <2>1. y.kind = "repetition" => g[y.sub] \in BOOLEAN
    BY ExpressionFacts
  <2> QED BY <2>1 DEF CoveredBy
<1>2. ASSUME NEW g, NEW h, NEW y \in E, \A z \in Below(Depth, y) : g[z] = h[z]
      PROVE  CoveredBy(y, g) = CoveredBy(y, h)
  <2>1. y.kind = "repetition" => g[y.sub] = h[y.sub]
    BY <1>2, ExpressionFacts
  <2>2. y.kind \in {"concat", "alternation"} => \A i \in DOMAIN y.parts : g[y.parts[i]] = h[y.parts[i]]
    BY <1>2, ExpressionFacts
  <2> QED BY <2>1, <2>2 DEF CoveredBy
<1>3. Depth \in [E -> Nat] /\ TRUE \in V
  BY ExpressionsAssumption
<1>4. \A g \in [E -> V] : step[g] = [y \in E |-> CoveredBy(y, g)]
  OBVIOUS
<1>5. \A y : Covered(y) = covered[y]
  BY DEF Covered
<1>6. step \in [[E -> V] -> [E -> V]]
  BY <1>1
<1> HIDE DEF V, step
<1>7. PICK f \in [E -> V] : f = step[f]
  <2>1. ASSUME NEW g \in [E -> V], NEW h \in [E -> V], NEW y \in E, \A z \in Below(Depth, y) : g[z] = h[z]
        PROVE  step[g][y] = step[h][y]
    <3>1. step[g][y] = CoveredBy(y, g) /\ step[h][y] = CoveredBy(y, h)
      BY <1>4
    <3>2. CoveredBy(y, g) = CoveredBy(y, h)
      BY <1>2, <2>1
    <3> QED BY <3>1, <3>2
  <2>2. LooksBelow(step, E, Depth, V)
    BY <1>6, <2>1 DEF LooksBelow
  <2>3. PICK v \in V : TRUE
    BY <1>3
  <2> HIDE DEF E
  <2> QED BY <1>3, <2>2, <2>3, RecursionExists
<1>8. f = [y \in E |-> CoveredBy(y, f)]
  BY <1>4, <1>7
<1>9. covered = [y \in E |-> CoveredBy(y, covered)]
  BY <1>8
<1> HIDE DEF covered
<1>10. covered \in [E -> V]
  <2> DEFINE S == {y \in E : covered[y] = f[y]}
  <2>1. ASSUME NEW y \in E, Below(Depth, y) \subseteq S PROVE y \in S
    <3>1. CoveredBy(y, covered) = CoveredBy(y, f)
      BY <1>2, <2>1
    <3>2. covered[y] = CoveredBy(y, covered) /\ f[y] = CoveredBy(y, f)
      BY <1>8, <1>9
    <3> QED BY <3>1, <3>2
  <2>2. E \subseteq S
    <3> HIDE DEF S, E
    <3> QED BY <1>3, <2>1, ByDepth
  <2> QED BY <1>7, <1>9, <2>2
<1>11. covered[x] = CoveredBy(x, covered)
  BY <1>9
<1>12. CoveredBy(x, covered) <=> by(x, covered)
  <2>1. x.kind \in Kinds
    BY ExpressionFacts
  <2> QED BY <2>1 DEF CoveredBy, Kinds
<1> QED BY <1>5, <1>11, <1>12

-----------------------------------------------------------------------------
(* Candidates reach what expressions match.                                *)

\* A trigram where it stands.
LEMMA OneFits ==
  ASSUME NEW line \in Seq(Chars), NEW piece \in Pieces, NEW i, NEW j,
         At(piece, line, i), Size(piece) \in 1..3, i + Size(piece) = j
  PROVE  Fits(<<piece>>, line, i, j)
<1> DEFINE one == <<piece>>
           s == Size(piece)
<1>1. one \in Seq(Pieces) /\ Len(one) = 1 /\ one[1] = piece /\ one # <<>>
  OBVIOUS
<1>2. i \in Nat
  BY DEF At
<1>3. s \in 1..3 /\ i + s = j
  OBVIOUS
<1> HIDE DEF one, s
<1>4. j - s = i
  BY ONLY <1>2, <1>3
<1>5. Solid(one)
  BY <1>1 DEF Solid
<1>6. \A y \in 1..Len(one) : y = 1
  BY <1>1
<1>7. Fits(one, line, i, j)
  BY <1>1, <1>2, <1>4, <1>5, <1>6 DEF Fits, s
<1> QED BY <1>7 DEF one

LEMMA LiteralFits ==
  ASSUME NEW line \in Seq(Chars), NEW text \in Seq(Chars), text # <<>>,
         ByteLen(text) <= 2 \/ Len(text) >= 3, NEW i \in Nat, NEW j,
         i + Len(text) = j, j <= Len(line), \A k \in 1..Len(text) : line[i + k] = text[k]
  PROVE  Fits(FromLongString(text), line, i, j)
<1> DEFINE el == [k \in DOMAIN text |-> {text[k]}]
           n == Len(text)
<1>1. n \in Nat /\ n >= 1 /\ DOMAIN text = 1..n /\ ByteLen(text) \in Nat /\ ByteLen(text) >= n
      /\ Len(line) \in Nat /\ \A k \in 1..n : text[k] \in Chars
  <2>1. n \in Nat /\ n >= 1 /\ DOMAIN text = 1..n /\ \A k \in 1..n : text[k] \in Chars
    OBVIOUS
  <2> QED BY <2>1, ByteLenFacts
<1>2. el \in Pieces /\ Size(el) = n /\ \A k \in 1..n : el[k] = {text[k]}
  <2>1. el = [k \in 1..n |-> el[k]] /\ \A k \in 1..n : el[k] \in SUBSET Chars /\ el[k] = {text[k]}
    BY <1>1
  <2> HIDE DEF el
  <2> QED BY <1>1, <2>1, MakeSeq DEF Pieces, Size
<1>3. FromLongString(text) = IF ByteLen(text) < 3 THEN <<el>> ELSE Windows(el)
  BY DEF FromLongString
<1>4. i + n = j /\ j <= Len(line) /\ \A k \in 1..n : line[i + k] = text[k]
  OBVIOUS
<1>5. (ByteLen(text) < 3 /\ n <= 2) \/ (~ (ByteLen(text) < 3) /\ n >= 3)
  <2>1. ByteLen(text) <= 2 \/ n >= 3
    OBVIOUS
  <2> QED BY <1>1, <2>1
<1> HIDE DEF el, n
<1>6. At(el, line, i)
  BY <1>1, <1>2, <1>4 DEF At
<1>7. CASE ByteLen(text) < 3 /\ n <= 2
  <2>1. Size(el) \in 1..3 /\ i + Size(el) = j
    BY <1>1, <1>2, <1>4, <1>7
  <2> QED BY <1>2, <1>3, <1>6, <1>7, <2>1, OneFits
<1>8. CASE ~ (ByteLen(text) < 3) /\ n >= 3
  <2> DEFINE W == Windows(el)
             N == n - 2
  <2>1. W \in Seq(Pieces) /\ Len(W) = N /\ \A x \in 1..N : Size(W[x]) = 3
    <3>1. el \in Seq(SUBSET Chars) /\ Len(el) = n
      BY <1>2 DEF Pieces, Size
    <3> QED BY <1>8, <3>1, WindowFacts DEF Pieces
  <2>2. \A x \in 1..N : At(W[x], line, i + x - 1)
    BY <1>2, <1>6, <1>8, WindowsAt
  <2>3. N \in Nat /\ N >= 1 /\ 1 \in 1..N /\ N \in 1..N /\ i + 1 - 1 = i /\ i + N - 1 = j - 3
    BY <1>1, <1>4, <1>8
  <2> HIDE DEF W, N
  <2>4. W # <<>>
    BY <2>1, <2>3
  <2>5. Solid(W)
    BY <2>1, <2>4 DEF Solid
  <2>6. \A x \in 1..N : \E k \in Nat : At(W[x], line, k)
    <3>1. \A x \in 1..N : At(W[x], line, i + x - 1) /\ i + x - 1 \in Nat
      BY <2>2, <2>3
    <3> QED BY <3>1
  <2>7. At(W[1], line, i) /\ At(W[N], line, j - 3) /\ Size(W[1]) = 3 /\ Size(W[N]) = 3
    <3>1. At(W[1], line, i + 1 - 1) /\ At(W[N], line, i + N - 1)
      BY <2>2, <2>3
    <3> QED BY <2>1, <2>3, <3>1
  <2>8. Fits(W, line, i, j)
    BY <2>1, <2>5, <2>6, <2>7 DEF Fits
  <2> QED BY <1>3, <1>8, <2>8 DEF W
<1> QED BY <1>5, <1>7, <1>8

LEMMA ClassFits ==
  ASSUME NEW line \in Seq(Chars), NEW chars \in SUBSET Chars, NEW i \in Places(line),
         NEW j \in Places(line), i + 1 = j, line[j] \in chars
  PROVE  Fits(<< <<chars>> >>, line, i, j)
<1> DEFINE piece == <<chars>>
<1>1. piece \in Pieces /\ Size(piece) = 1 /\ piece[1] = chars
  BY DEF Pieces, Size
<1>2. i \in Nat /\ j \in Nat /\ j <= Len(line) /\ i + 1 = j
  BY DEF Places
<1> HIDE DEF piece
<1>3. At(piece, line, i)
  <2>1. \A m \in 1..1 : m = 1
    OBVIOUS
  <2>2. \A m \in 1..Size(piece) : line[i + m] \in piece[m]
    BY <1>1, <1>2, <2>1
  <2> QED BY <1>1, <1>2, <2>2 DEF At
<1>4. Size(piece) \in 1..3 /\ i + Size(piece) = j
  BY <1>1, <1>2
<1>5. Fits(<<piece>>, line, i, j)
  BY <1>1, <1>3, <1>4, OneFits
<1> QED BY <1>5 DEF piece

\* Texts that stand in the line are in some file.
Known(view, line) ==
  \A text \in Seq(Chars) :
    text # <<>> /\ PlacesOf(text, line) # {} /\ (ByteLen(text) <= 2 \/ Len(text) >= 3)
      => DocsWithWord(view, text) # {}

\* The expression matches nothing.
Null(x) == <<0, 0>> \in Spans(x, <<>>)

\* What the expression matches in the line is reached by a candidate.
Served(x, view, line) ==
  BuildCandidates(view, x).outcome = "ok" /\ Covered(x) =>
    \A i, j \in Places(line) : <<i, j>> \in Spans(x, line) =>
      \E c \in BuildCandidates(view, x).candidates : Reaches(c, line, i, j) /\ (c = <<>> => Null(x))

LEMMA SpansFacts ==
  ASSUME NEW x \in Expressions, NEW line \in Seq(Chars)
  PROVE  /\ Spans(x, line) \in SpansIn(line)
         /\ x.kind = "literal" => Spans(x, line) = TextIn(x.text, line)
         /\ x.kind = "class" => Spans(x, line) = OneOf(x.chars, line)
         /\ x.kind = "repetition" => Spans(x, line)
              = UNION {InARow(Still(line), CopiesOf(Spans(x.sub, line), n)) : n \in CountsIn(x, line)}
         /\ x.kind = "concat" => Spans(x, line)
              = InARow(Still(line), [i \in DOMAIN x.parts |-> Spans(x.parts[i], line)])
         /\ x.kind = "alternation" => Spans(x, line) = UNION {Spans(x.parts[i], line) : i \in DOMAIN x.parts}
<1>1. PICK spans \in [Expressions -> SpansIn(line)] :
        /\ \A y \in Expressions : spans[y] = SpansOf(y, spans, line)
        /\ \A y \in Expressions : Spans(y, line) = spans[y]
  BY SpansBy
<1>2. Spans(x, line) \in SpansIn(line) /\ Spans(x, line) = SpansOf(x, spans, line)
  BY <1>1
<1>3. CASE x.kind = "repetition"
  <2>1. spans[x.sub] = Spans(x.sub, line)
    BY <1>1, <1>3, ExpressionFacts
  <2>2. Spans(x, line) = UNION {InARow(Still(line), [i \in 1..n |-> spans[x.sub]]) : n \in CountsIn(x, line)}
    BY <1>2, <1>3, SpansOfKind
  <2> QED BY <1>2, <1>3, <2>1, <2>2 DEF CopiesOf
<1>4. CASE x.kind = "concat"
  <2>1. \A i \in DOMAIN x.parts : spans[x.parts[i]] = Spans(x.parts[i], line)
    BY <1>1, <1>4, ExpressionFacts
  <2>2. Spans(x, line) = InARow(Still(line), Each(x, spans))
    BY <1>2, <1>4, SpansOfKind
  <2>3. Each(x, spans) = [i \in DOMAIN x.parts |-> Spans(x.parts[i], line)]
    BY <2>1 DEF Each
  <2> QED BY <1>2, <1>4, <2>2, <2>3
<1>5. CASE x.kind = "alternation"
  <2>1. \A i \in DOMAIN x.parts : spans[x.parts[i]] = Spans(x.parts[i], line)
    BY <1>1, <1>5, ExpressionFacts
  <2>2. Spans(x, line) = UNION {spans[x.parts[i]] : i \in DOMAIN x.parts}
    BY <1>2, <1>5 DEF SpansOf
  <2>3. {spans[x.parts[i]] : i \in DOMAIN x.parts} = {Spans(x.parts[i], line) : i \in DOMAIN x.parts}
    BY <2>1
  <2> QED BY <1>2, <1>5, <2>2, <2>3
<1>6. CASE x.kind \notin {"repetition", "concat", "alternation"}
  BY <1>2, <1>6, SpansOfKind
<1> QED BY <1>3, <1>4, <1>5, <1>6

LEMMA BuildFacts ==
  ASSUME NEW x \in Expressions, NEW view, BuildCandidates(view, x).outcome = "ok"
  PROVE  LET cands == BuildCandidates(view, x).candidates
         IN  /\ x.kind = "literal" /\ DocsWithWord(view, x.text) # {} => FromLongString(x.text) \in cands
             /\ x.kind = "class" => << <<x.chars>> >> \in cands
             /\ x.kind = "repetition" =>
                  LET sub == BuildCandidates(view, x.sub)
                      r   == Repeat(sub.candidates, x.min, x.max)
                  IN  /\ sub.outcome = "ok" /\ sub.candidates \in SUBSET Seq(Pieces)
                      /\ r.outcome = "ok" /\ cands = r.candidates
             /\ x.kind \in {"concat", "alternation"} =>
                  \E parts \in Seq(SUBSET Seq(Pieces)) :
                    /\ Len(parts) = Len(x.parts)
                    /\ \A i \in 1..Len(x.parts) : /\ BuildCandidates(view, x.parts[i]).outcome = "ok"
                                                  /\ parts[i] = BuildCandidates(view, x.parts[i]).candidates
                    /\ x.kind = "concat" => /\ ConcatCandidates(parts).outcome = "ok"
                                            /\ cands = ConcatCandidates(parts).candidates
                    /\ x.kind = "alternation" => cands = UNION Range(parts)
<1> DEFINE cands == BuildCandidates(view, x).candidates
<1>1. PICK build \in [Expressions -> Builds] :
        /\ \A y \in Expressions : build[y] = CandidatesOf(y, build, view)
        /\ \A y \in Expressions : BuildCandidates(view, y) = build[y]
  BY BuildBy
<1>2. /\ build[x] = CandidatesOf(x, build, view) /\ build[x].outcome = "ok" /\ cands = build[x].candidates
  BY <1>1
<1> HIDE DEF cands
<1>3. CASE x.kind = "literal"
  <2>1. build[x] = Ok(IF DocsWithWord(view, x.text) = {} THEN {} ELSE {FromLongString(x.text)})
    BY <1>2, <1>3, CandidatesOfKind
  <2>2. cands = IF DocsWithWord(view, x.text) = {} THEN {} ELSE {FromLongString(x.text)}
    BY <1>2, <2>1 DEF Ok
  <2> QED BY <1>3, <2>2 DEF cands
<1>4. CASE x.kind = "class"
  <2>1. build[x] = Ok({<< <<x.chars>> >>})
    BY <1>2, <1>4, CandidatesOfKind
  <2>2. cands = {<< <<x.chars>> >>}
    BY <1>2, <2>1 DEF Ok
  <2> QED BY <1>4, <2>2 DEF cands
<1>5. CASE x.kind = "repetition"
  <2>1. x.sub \in Expressions
    BY <1>5, ExpressionFacts
  <2>2. build[x.sub] \in Builds /\ BuildCandidates(view, x.sub) = build[x.sub]
    BY <1>1, <2>1
  <2>3. build[x] = IF build[x.sub].outcome # "ok" THEN build[x.sub]
                   ELSE Repeat(build[x.sub].candidates, x.min, x.max)
    BY <1>2, <1>5, CandidatesOfKind
  <2>4. build[x.sub].outcome = "ok" /\ build[x] = Repeat(build[x.sub].candidates, x.min, x.max)
    BY <1>2, <2>3
  <2>5. build[x.sub].candidates \in SUBSET Seq(Pieces)
    BY <2>2 DEF Builds
  <2> QED BY <1>2, <1>5, <2>2, <2>4, <2>5 DEF cands
<1>6. CASE x.kind \in {"concat", "alternation"}
  <2> DEFINE parts == PartsOf(x, build)
  <2>1. /\ parts \in Seq(SUBSET Seq(Pieces)) /\ Len(parts) = Len(x.parts)
        /\ \A i \in 1..Len(x.parts) : parts[i] = build[x.parts[i]].candidates
    BY <1>6, PartsType
  <2>2. DOMAIN x.parts = 1..Len(x.parts) /\ \A i \in DOMAIN x.parts : x.parts[i] \in Expressions
    BY <1>6, ExpressionFacts
  <2>3. build[x] = JoinCandidates(x, build)
    BY <1>2, <1>6, CandidatesOfKind
  <2> HIDE DEF parts
  <2>4. /\ \A i \in DOMAIN x.parts : build[x.parts[i]].outcome = "ok"
        /\ x.kind = "concat" => build[x] = ConcatCandidates(parts)
        /\ x.kind = "alternation" => build[x] = Ok(UNION Range(parts))
    BY <1>2, <1>6, <2>3, JoinFacts DEF parts
  <2>5. \A i \in 1..Len(x.parts) : /\ BuildCandidates(view, x.parts[i]).outcome = "ok"
                                   /\ parts[i] = BuildCandidates(view, x.parts[i]).candidates
    BY <1>1, <2>1, <2>2, <2>4
  <2>6. /\ x.kind = "concat" => ConcatCandidates(parts).outcome = "ok" /\ cands = ConcatCandidates(parts).candidates
        /\ x.kind = "alternation" => cands = UNION Range(parts)
    BY <1>2, <2>4 DEF Ok
  <2> QED BY <1>6, <2>1, <2>5, <2>6 DEF cands
<1>7. CASE x.kind \notin {"literal", "class", "repetition", "concat", "alternation"}
  BY <1>7
<1> QED BY <1>3, <1>4, <1>5, <1>6, <1>7

-----------------------------------------------------------------------------
(* All that expressions match is reached.                                  *)

\* A literal or a class has one candidate, which fits all that it matches.
LEMMA SingleFits ==
  ASSUME NEW view, NEW line \in Seq(Chars), Known(view, line), NEW y \in Expressions,
         y.kind \in {"literal", "class"}, Covered(y), BuildCandidates(view, y).outcome = "ok",
         Spans(y, line) # {}
  PROVE  \E c \in BuildCandidates(view, y).candidates : \A i, j \in Places(line) :
           <<i, j>> \in Spans(y, line) => Fits(c, line, i, j) /\ i < j
<1> DEFINE cands == BuildCandidates(view, y).candidates
<1>0. Places(line) \subseteq Nat /\ \A j \in Places(line) : j <= Len(line)
  BY DEF Places
<1>1. CASE y.kind = "literal"
  <2> DEFINE text == y.text
  <2>1. text \in Seq(Chars) /\ text # <<>> /\ Len(text) \in Nat /\ Len(text) # 0
    <3>1. text \in Seq(Chars) /\ text # <<>>
      BY <1>1, ExpressionFacts
    <3> QED BY <3>1
  <2>2. ByteLen(text) <= 2 \/ Len(text) >= 3
    BY <1>1, CoveredFacts
  <2>3. Spans(y, line) = TextIn(text, line)
    BY <1>1, SpansFacts
  <2>4. PlacesOf(text, line) # {}
    BY <2>3 DEF TextIn
  <2> HIDE DEF text
  <2>5. DocsWithWord(view, text) # {}
    BY <2>1, <2>2, <2>4 DEF Known
  <2>6. FromLongString(text) \in cands
    BY <1>1, <2>5, BuildFacts DEF text
  <2>7. ASSUME NEW i \in Places(line), NEW j \in Places(line), <<i, j>> \in Spans(y, line)
        PROVE  Fits(FromLongString(text), line, i, j) /\ i < j
    <3>1. i + Len(text) = j /\ \A k \in 1..Len(text) : line[i + k] = text[k]
      BY <2>1, <2>3, <2>7, TextSpans
    <3>2. i \in Nat /\ j \in Nat /\ j <= Len(line)
      BY <1>0
    <3>3. i < j
      BY <2>1, <3>1, <3>2
    <3> QED BY <2>1, <2>2, <3>1, <3>2, <3>3, LiteralFits
  <2> QED BY <2>6, <2>7
<1>2. CASE y.kind = "class"
  <2>1. Spans(y, line) = OneOf(y.chars, line) /\ y.chars \in SUBSET Chars
    BY <1>2, SpansFacts, ExpressionFacts
  <2>2. << <<y.chars>> >> \in cands
    BY <1>2, BuildFacts
  <2>3. ASSUME NEW i \in Places(line), NEW j \in Places(line), <<i, j>> \in Spans(y, line)
        PROVE  Fits(<< <<y.chars>> >>, line, i, j) /\ i < j
    <3>1. i + 1 = j /\ line[j] \in y.chars
      BY <2>1, <2>3, ClassSpans
    <3>2. i < j
      BY <1>0, <3>1
    <3> QED BY <2>1, <3>1, <3>2, ClassFits
  <2> QED BY <2>2, <2>3
<1> QED BY <1>1, <1>2

\* Nothing in a row is the empty span; one in a row is what that one matches.
LEMMA NoneInARow ==
  ASSUME NEW sub \in SpansIn(<<>>)
  PROVE  <<0, 0>> \in InARow(Still(<<>>), CopiesOf(sub, 0))
<1> DEFINE s == CopiesOf(sub, 0)
<1>1. Len(<<>>) = 0 /\ Len(<<>>) \in Nat
  OBVIOUS
<1>2. s \in Seq(SpansIn(<<>>)) /\ Len(s) = 0
  BY CopiesFacts
<1> HIDE DEF s
<1>3. PICK row \in [0..Len(s) -> SpansIn(<<>>)] :
        row[0] = Still(<<>>) /\ InARow(Still(<<>>), s) = row[Len(s)]
  BY <1>1, <1>2, Rows
<1>4. <<0, 0>> \in Still(<<>>)
  BY <1>1 DEF Still, Places
<1> QED BY <1>2, <1>3, <1>4 DEF s

LEMMA OneInARow ==
  ASSUME NEW sub \in SpansIn(<<>>), <<0, 0>> \in sub
  PROVE  <<0, 0>> \in InARow(Still(<<>>), CopiesOf(sub, 1))
<1> DEFINE s == CopiesOf(sub, 1)
           P == Places(<<>>)
<1>1. Len(<<>>) \in Nat /\ 0 \in P
  BY DEF Places
<1>2. s \in Seq(SpansIn(<<>>)) /\ Len(s) = 1 /\ s[1] = sub
  <2>1. 1 \in Nat /\ 1 \in 1..1
    OBVIOUS
  <2>2. s \in Seq(SpansIn(<<>>)) /\ Len(s) = 1 /\ \A m \in 1..1 : s[m] = sub
    BY <2>1, CopiesFacts
  <2> HIDE DEF s
  <2> QED BY <2>1, <2>2
<1> HIDE DEF s
<1>3. PICK row \in [0..Len(s) -> SpansIn(<<>>)] :
        /\ row[0] = Still(<<>>) /\ \A i \in 1..Len(s) : row[i] = Then(row[i - 1], s[i])
        /\ InARow(Still(<<>>), s) = row[Len(s)]
  BY <1>1, <1>2, Rows
<1>4. row[1] = Then(Still(<<>>), sub)
  <2>1. 1 \in 1..Len(s) /\ 1 - 1 = 0
    BY <1>2
  <2> QED BY <1>2, <1>3, <2>1
<1>5. <<0, 0>> \in Still(<<>>)
  BY <1>1 DEF Still
<1>6. Still(<<>>) \in SUBSET (P \X P) /\ sub \in SUBSET (P \X P)
  BY DEF Still, SpansIn
<1>7. <<0, 0>> \in Then(Still(<<>>), sub)
  BY <1>1, <1>5, <1>6, ThenFacts
<1> QED BY <1>2, <1>3, <1>4, <1>7 DEF s

\* A repetition matches nothing if it need not match, or may match nothing once.
LEMMA NullRepetition ==
  ASSUME NEW x \in Expressions, x.kind = "repetition", NEW n \in Nat, x.min <= n,
         x.max = NoMax \/ n <= x.max, n = 0 \/ (n = 1 /\ Null(x.sub))
  PROVE  Null(x)
<1> DEFINE sub == Spans(x.sub, <<>>)
<1>1. <<>> \in Seq(Chars) /\ Len(<<>>) = 0
  OBVIOUS
<1>2. x.sub \in Expressions /\ x.min \in Nat /\ x.max \in Nat \cup {NoMax}
  BY ExpressionFacts
<1>3. sub \in SpansIn(<<>>)
  BY <1>1, <1>2, SpansFacts
<1>4. Spans(x, <<>>) = UNION {InARow(Still(<<>>), CopiesOf(sub, k)) : k \in CountsIn(x, <<>>)}
  BY <1>1, SpansFacts
<1> HIDE DEF sub
<1>5. x.min \in {0, 1} /\ x.min \in CountsIn(x, <<>>)
  BY <1>1, <1>2 DEF CountsIn, NoMax
<1>6. <<0, 0>> \in InARow(Still(<<>>), CopiesOf(sub, x.min))
  <2>1. CASE x.min = 0
    BY <1>3, <2>1, NoneInARow
  <2>2. CASE x.min = 1
    <3>1. n = 1
      BY <2>2
    <3>2. <<0, 0>> \in sub
      BY <3>1 DEF Null, sub
    <3> QED BY <1>3, <2>2, <3>2, OneInARow
  <2> QED BY <1>5, <2>1, <2>2
<1> QED BY <1>4, <1>5, <1>6 DEF Null


\* What parts serve, a repetition serves.
LEMMA RepetitionServed ==
  ASSUME NEW view, NEW line \in Seq(Chars), Known(view, line), NEW x \in Expressions,
         x.kind = "repetition", Served(x.sub, view, line)
  PROVE  Served(x, view, line)
<1> DEFINE built == BuildCandidates(view, x)
           cands == built.candidates
           part == BuildCandidates(view, x.sub).candidates
           sub == Spans(x.sub, line)
<1>1. SUFFICES ASSUME built.outcome = "ok", Covered(x), NEW i \in Places(line), NEW j \in Places(line),
                      <<i, j>> \in Spans(x, line)
               PROVE  \E c \in cands : Reaches(c, line, i, j) /\ (c = <<>> => Null(x))
  BY DEF Served
<1>2. x.sub \in Expressions /\ x.min \in Nat /\ x.max \in Nat \cup {NoMax}
  BY ExpressionFacts
<1>3. Covered(x.sub) /\ (x.max \in 0..3 \/ x.sub.kind \in {"literal", "class"})
  BY <1>1, CoveredFacts
<1>4. /\ BuildCandidates(view, x.sub).outcome = "ok" /\ part \in SUBSET Seq(Pieces)
      /\ Repeat(part, x.min, x.max).outcome = "ok" /\ cands = Repeat(part, x.min, x.max).candidates
  BY <1>1, BuildFacts
<1>5. Len(line) \in Nat /\ Places(line) \subseteq Int
  BY DEF Places
<1>6. sub \in SpansIn(line)
  BY <1>2, SpansFacts
<1>7. PICK n \in CountsIn(x, line) : <<i, j>> \in InARow(Still(line), CopiesOf(sub, n))
  <2>1. Spans(x, line) = UNION {InARow(Still(line), CopiesOf(sub, n)) : n \in CountsIn(x, line)}
    BY SpansFacts
  <2> QED BY <1>1, <2>1
<1>8. n \in Nat /\ x.min <= n /\ (x.max = NoMax \/ n <= x.max)
  BY <1>2, <1>5 DEF CountsIn
<1>9. /\ CopiesOf(sub, n) \in Seq(SpansIn(line)) /\ Len(CopiesOf(sub, n)) = n
      /\ \A m \in 1..n : CopiesOf(sub, n)[m] = sub
  BY <1>6, <1>8, CopiesFacts
<1> DEFINE s == CopiesOf(sub, n)
<1> HIDE DEF s
<1>10. PICK p : Path(p, s, line) /\ p[0] = i /\ p[Len(s)] = j
  BY <1>1, <1>5, <1>7, <1>9, PathOfRow DEF s
<1>11. p \in [0..n -> Places(line)] /\ p[n] = j /\ \A m \in 1..n : <<p[m - 1], p[m]>> \in sub
  BY <1>9, <1>10 DEF Path, s
<1>12. p \in [0..n -> Int] /\ \A m \in 1..n : p[m - 1] \in Places(line) /\ p[m] \in Places(line)
  <2>1. \A m \in 1..n : m \in 0..n /\ m - 1 \in 0..n
    BY <1>8
  <2> QED BY <1>5, <1>11, <2>1
<1> HIDE DEF built, cands, part, sub
<1>13. CASE n <= 3
  <2>1. n \in Counts(x.min, x.max)
    BY <1>2, <1>8, <1>13, CountFacts
  <2> DEFINE same == <<0, 0>>
             spans == Spans(x.sub, <<>>)
  <2>2. Stepped(part, line, p, n, same, spans)
    BY <1>3, <1>4, <1>11, <1>12 DEF Stepped, Served, Null, part, sub
  <2> HIDE DEF same, spans
  <2>3. p \in [0..n -> Int] /\ n \in Nat /\ x.min \in Nat /\ x.max \in Nat \cup {NoMax}
    BY <1>2, <1>8, <1>12
  <2>4. Crossed(Repeat(part, x.min, x.max).candidates, line, p, n, same, spans)
    BY <1>4, <2>1, <2>2, <2>3, CopiesReach
  <2>5. PICK c \in cands : Reaches(c, line, p[0], p[n]) /\ (c = <<>> => n = 0 \/ (n = 1 /\ same \in spans))
    BY <1>4, <2>4 DEF Crossed
  <2>6. c = <<>> => Null(x)
    BY <1>8, <2>5, NullRepetition DEF Null, same, spans
  <2> QED BY <1>10, <1>11, <2>5, <2>6
<1>14. CASE ~ (n <= 3)
  <2>1. n > 3 /\ 3 \in Counts(x.min, x.max) /\ x.max \notin 0..3
    <3>1. n > 3
      BY <1>8, <1>14
    <3> QED BY <1>2, <1>8, <3>1, CountFacts
  <2>2. sub # {}
    <3>1. 1 \in 1..n
      BY <1>8, <2>1
    <3> QED BY <1>11, <3>1
  <2>3. PICK c \in part : \A a, b \in Places(line) : <<a, b>> \in sub => Fits(c, line, a, b) /\ a < b
    BY <1>2, <1>3, <1>4, <2>1, <2>2, SingleFits DEF part, sub
  <2>4. \A m \in 1..n : Fits(c, line, p[m - 1], p[m]) /\ p[m - 1] < p[m]
    BY <1>11, <1>12, <2>3
  <2>5. PICK d \in cands : Fits(d, line, p[0], p[n])
    BY <1>2, <1>4, <1>8, <1>12, <2>1, <2>4, ManyReach
  <2>6. d # <<>>
    BY <2>5 DEF Fits, Solid
  <2> QED BY <1>10, <1>11, <2>5, <2>6 DEF Reaches
<1> QED BY <1>13, <1>14

\* The candidates of the parts, and those of all of them together.
Joined(parts, x, view) ==
  /\ Len(parts) = Len(x.parts)
  /\ \A m \in 1..Len(x.parts) : /\ BuildCandidates(view, x.parts[m]).outcome = "ok"
                                 /\ parts[m] = BuildCandidates(view, x.parts[m]).candidates
  /\ x.kind = "concat" => /\ ConcatCandidates(parts).outcome = "ok"
                          /\ BuildCandidates(view, x).candidates = ConcatCandidates(parts).candidates
  /\ x.kind = "alternation" => BuildCandidates(view, x).candidates = UNION Range(parts)

LEMMA JoinedParts ==
  ASSUME NEW x \in Expressions, x.kind \in {"concat", "alternation"}, NEW view,
         BuildCandidates(view, x).outcome = "ok"
  PROVE  \E parts \in Seq(SUBSET Seq(Pieces)) : Joined(parts, x, view)
BY BuildFacts DEF Joined

\* And so does a concatenation.
LEMMA ConcatServed ==
  ASSUME NEW view, NEW line \in Seq(Chars), NEW x \in Expressions, x.kind = "concat",
         \A m \in DOMAIN x.parts : Served(x.parts[m], view, line)
  PROVE  Served(x, view, line)
<1> DEFINE built == BuildCandidates(view, x)
           cands == built.candidates
           n == Len(x.parts)
           spans == [m \in DOMAIN x.parts |-> Spans(x.parts[m], line)]
<1>1. SUFFICES ASSUME built.outcome = "ok", Covered(x), NEW i \in Places(line), NEW j \in Places(line),
                      <<i, j>> \in Spans(x, line)
               PROVE  \E c \in cands : Reaches(c, line, i, j) /\ (c = <<>> => Null(x))
  BY DEF Served
<1>2. n \in Nat /\ DOMAIN x.parts = 1..n /\ \A m \in 1..n : x.parts[m] \in Expressions
  BY ExpressionFacts
<1>3. \A m \in 1..n : Covered(x.parts[m])
  BY <1>1, <1>2, CoveredFacts
<1>4. PICK parts \in Seq(SUBSET Seq(Pieces)) : Joined(parts, x, view)
  BY <1>1, JoinedParts
<1> USE DEF Joined
<1>5. Len(line) \in Nat /\ Places(line) \subseteq Int
  BY DEF Places
<1>6. Spans(x, line) = InARow(Still(line), spans)
  BY SpansFacts
<1>7. spans \in Seq(SpansIn(line)) /\ Len(spans) = n /\ \A m \in 1..n : spans[m] = Spans(x.parts[m], line)
  <2>1. spans = [m \in 1..n |-> Spans(x.parts[m], line)]
    BY <1>2
  <2>2. \A m \in 1..n : Spans(x.parts[m], line) \in SpansIn(line)
    BY <1>2, SpansFacts
  <2> QED BY <1>2, <2>1, <2>2, MakeSeq
<1> HIDE DEF spans
<1>8. PICK p : Path(p, spans, line) /\ p[0] = i /\ p[Len(spans)] = j
  BY <1>1, <1>5, <1>6, <1>7, PathOfRow
<1>9. p \in [0..n -> Places(line)] /\ p[n] = j /\ \A m \in 1..n : <<p[m - 1], p[m]>> \in Spans(x.parts[m], line)
  BY <1>7, <1>8 DEF Path
<1>10. p \in [0..n -> Int] /\ \A m \in 1..n : p[m - 1] \in Places(line) /\ p[m] \in Places(line)
  <2>1. \A m \in 1..n : m \in 0..n /\ m - 1 \in 0..n
    BY <1>2
  <2> QED BY <1>5, <1>9, <2>1
<1>11. \A m \in 1..n : \E c \in parts[m] : Reaches(c, line, p[m - 1], p[m])
  <2>1. ASSUME NEW m \in 1..n PROVE \E c \in parts[m] : Reaches(c, line, p[m - 1], p[m])
    <3>1. Served(x.parts[m], view, line)
      BY <1>2
    <3> QED BY <1>3, <1>4, <1>9, <1>10, <3>1 DEF Served
  <2> QED BY <2>1
<1>12. PICK c \in ConcatCandidates(parts).candidates : Fits(c, line, p[0], p[Len(parts)])
  BY <1>4, <1>10, <1>11, ConcatReaches
<1>13. c # <<>>
  BY <1>12 DEF Fits, Solid
<1> QED BY <1>4, <1>8, <1>9, <1>12, <1>13 DEF Reaches

\* And an alternation.
LEMMA AlternationServed ==
  ASSUME NEW view, NEW line \in Seq(Chars), NEW x \in Expressions, x.kind = "alternation",
         \A m \in DOMAIN x.parts : Served(x.parts[m], view, line)
  PROVE  Served(x, view, line)
<1> DEFINE built == BuildCandidates(view, x)
           cands == built.candidates
           n == Len(x.parts)
<1>1. SUFFICES ASSUME built.outcome = "ok", Covered(x), NEW i \in Places(line), NEW j \in Places(line),
                      <<i, j>> \in Spans(x, line)
               PROVE  \E c \in cands : Reaches(c, line, i, j) /\ (c = <<>> => Null(x))
  BY DEF Served
<1>2. DOMAIN x.parts = 1..n /\ \A m \in 1..n : x.parts[m] \in Expressions
  BY ExpressionFacts
<1>3. \A m \in 1..n : Covered(x.parts[m])
  BY <1>1, <1>2, CoveredFacts
<1>4. PICK parts \in Seq(SUBSET Seq(Pieces)) : Joined(parts, x, view)
  BY <1>1, JoinedParts
<1> USE DEF Joined
<1>5. PICK m \in 1..n : <<i, j>> \in Spans(x.parts[m], line)
  <2>1. Spans(x, line) = UNION {Spans(x.parts[m], line) : m \in DOMAIN x.parts}
    BY SpansFacts
  <2> QED BY <1>1, <1>2, <2>1
<1> HIDE DEF built
<1>6. PICK c \in parts[m] : Reaches(c, line, i, j) /\ (c = <<>> => Null(x.parts[m]))
  <2>1. Served(x.parts[m], view, line)
    BY <1>2
  <2> QED BY <1>3, <1>4, <1>5, <2>1 DEF Served
<1>7. c \in cands
  <2>1. m \in DOMAIN parts
    BY <1>4
  <2>2. parts[m] \in Range(parts)
    BY <2>1 DEF Range
  <2>3. cands = UNION Range(parts)
    BY <1>4 DEF cands, built
  <2> QED BY <1>6, <2>2, <2>3
<1>8. Null(x.parts[m]) => Null(x)
  <2>1. Spans(x, <<>>) = UNION {Spans(x.parts[k], <<>>) : k \in DOMAIN x.parts}
    <3>1. <<>> \in Seq(Chars)
      OBVIOUS
    <3> QED BY <3>1, SpansFacts
  <2> QED BY <1>2, <2>1 DEF Null
<1> QED BY <1>6, <1>7, <1>8

\* All expressions are served, by induction over their depth.
LEMMA AllServed ==
  ASSUME NEW view, NEW line \in Seq(Chars), Known(view, line), NEW x \in Expressions
  PROVE  Served(x, view, line)
<1> DEFINE S == {y \in Expressions : Served(y, view, line)}
<1>1. ASSUME NEW y \in Expressions, Below(Depth, y) \subseteq S PROVE Served(y, view, line)
  <2>1. CASE y.kind \in {"literal", "class"}
    <3>1. SUFFICES ASSUME BuildCandidates(view, y).outcome = "ok", Covered(y),
                          NEW i \in Places(line), NEW j \in Places(line), <<i, j>> \in Spans(y, line)
                   PROVE  \E c \in BuildCandidates(view, y).candidates :
                            Reaches(c, line, i, j) /\ (c = <<>> => Null(y))
      BY DEF Served
    <3>2. Spans(y, line) # {}
      BY <3>1
    <3>3. PICK c \in BuildCandidates(view, y).candidates : \A a, b \in Places(line) :
            <<a, b>> \in Spans(y, line) => Fits(c, line, a, b) /\ a < b
      BY <2>1, <3>1, <3>2, SingleFits
    <3>4. Fits(c, line, i, j)
      BY <3>1, <3>3
    <3>5. c # <<>>
      BY <3>4 DEF Fits, Solid
    <3> QED BY <3>4, <3>5 DEF Reaches
  <2>2. CASE y.kind = "repetition"
    <3>1. Served(y.sub, view, line)
      BY <1>1, <2>2, ExpressionFacts
    <3> QED BY <2>2, <3>1, RepetitionServed
  <2>3. CASE y.kind \in {"concat", "alternation"}
    <3>1. \A m \in DOMAIN y.parts : Served(y.parts[m], view, line)
      BY <1>1, <2>3, ExpressionFacts
    <3> QED BY <2>3, <3>1, ConcatServed, AlternationServed
  <2>4. CASE y.kind \in {"empty", "capture"}
    <3>1. ~ Covered(y)
      BY <2>4, CoveredFacts
    <3> QED BY <3>1 DEF Served
  <2> QED BY <2>1, <2>2, <2>3, <2>4, ExpressionFacts DEF Kinds
<1>2. Depth \in [Expressions -> Nat]
  BY ExpressionsAssumption
<1>3. \A y \in Expressions : Below(Depth, y) \subseteq S => y \in S
  BY <1>1
<1> HIDE DEF S
<1>4. Expressions \subseteq S
  BY <1>2, <1>3, ByDepth
<1> QED BY <1>4 DEF S

-----------------------------------------------------------------------------
(* Trigrams of the line, and words of the index.                           *)

LEMMA PartFacts ==
  ASSUME NEW S, NEW s \in Seq(S), NEW a \in 1..(Len(s) + 1), NEW b \in 0..Len(s),
         NEW n \in Nat, (b - a) + 1 = n
  PROVE  /\ SubSeq(s, a, b) \in Seq(S) /\ Len(SubSeq(s, a, b)) = n
         /\ \A x \in 1..n : SubSeq(s, a, b)[x] = s[a + x - 1]
OBVIOUS

\* One to three characters of a line are within one of its words.
LEMMA WordAround ==
  ASSUME NEW line \in Seq(Chars), NEW k \in Nat, NEW n \in 1..3, k + n <= Len(line)
  PROVE  \E w \in TrigramsOf(line) :
           /\ w \in Seq(Chars) /\ Len(w) <= 3
           /\ \E i \in 0..(Len(w) - n) : \A j \in 1..n : w[i + j] = line[k + j]
<1> DEFINE N == Len(line)
<1>1. N \in Nat /\ n \in Nat /\ n >= 1 /\ n <= 3 /\ k + n <= N /\ line # <<>>
  OBVIOUS
<1>2. CASE N <= 2
  <2>1. line \in TrigramsOf(line) /\ Len(line) <= 3
    BY <1>1, <1>2 DEF TrigramsOf
  <2>2. k \in 0..(Len(line) - n)
    BY <1>1
  <2> QED BY <2>1, <2>2
<1>3. CASE ~ (N <= 2)
  <2> DEFINE s == IF k <= N - 3 THEN k ELSE N - 3
             w == SubSeq(line, s + 1, s + 3)
             i == k - s
  <2>1. s \in Nat /\ s + 3 <= N /\ i \in 0..(3 - n) /\ k = s + i
    BY <1>1, <1>3
  <2> HIDE DEF s, i
  <2>2. s + 1 \in 1..(N - 2) /\ (s + 1) + 2 = s + 3
    BY <1>1, <2>1
  <2>3. w \in TrigramsOf(line)
    <3>1. TrigramsOf(line) = Range(Windows(line))
      BY <1>1, <1>3 DEF TrigramsOf
    <3>2. DOMAIN Windows(line) = 1..(N - 2) /\ Windows(line)[s + 1] = SubSeq(line, s + 1, (s + 1) + 2)
      BY <2>2 DEF Windows
    <3>3. Windows(line)[s + 1] \in Range(Windows(line))
      BY <2>2, <3>2 DEF Range
    <3> QED BY <2>2, <3>1, <3>2, <3>3
  <2>4. w \in Seq(Chars) /\ Len(w) = 3 /\ \A x \in 1..3 : w[x] = line[(s + 1) + x - 1]
    <3> DEFINE a == s + 1
               b == s + 3
    <3>1. a \in 1..(N + 1) /\ b \in 0..N /\ (b - a) + 1 = 3 /\ 3 \in Nat
      BY <1>1, <2>1
    <3> HIDE DEF a, b
    <3>2. /\ SubSeq(line, a, b) \in Seq(Chars) /\ Len(SubSeq(line, a, b)) = 3
          /\ \A x \in 1..3 : SubSeq(line, a, b)[x] = line[a + x - 1]
      BY <3>1, PartFacts
    <3> QED BY <3>2 DEF a, b
  <2> HIDE DEF w
  <2>5. ASSUME NEW j \in 1..n PROVE w[i + j] = line[k + j]
    <3>1. i + j \in 1..3 /\ (s + 1) + (i + j) - 1 = k + j
      BY <1>1, <2>1
    <3> QED BY <2>4, <3>1
  <2>6. Len(w) <= 3 /\ i \in 0..(Len(w) - n)
    BY <2>1, <2>4
  <2> QED BY <2>3, <2>4, <2>5, <2>6
<1> QED BY <1>2, <1>3

\* A trigram that is somewhere in the line has a word of it.
LEMMA PieceWord ==
  ASSUME NEW line \in Seq(Chars), NEW piece \in Pieces, Size(piece) \in 1..3, NEW k, At(piece, line, k)
  PROVE  \E w \in TrigramsOf(line) : w \in MatchingWords(piece, TrigramsOf(line))
<1> DEFINE n == Size(piece)
           words == TrigramsOf(line)
           single == Len(piece) = 3 /\ \A i \in 1..3 : \E c \in piece[i] : piece[i] = {c}
<1>1. /\ n \in 1..3 /\ n = Len(piece) /\ DOMAIN piece = 1..n /\ k \in Nat /\ k + n <= Len(line)
      /\ \A j \in 1..n : line[k + j] \in piece[j]
  BY DEF At, Size, Pieces
<1> HIDE DEF n
<1>2. PICK w \in words :
        /\ w \in Seq(Chars) /\ Len(w) <= 3
        /\ \E i \in 0..(Len(w) - n) : \A j \in 1..n : w[i + j] = line[k + j]
  <2>1. k \in Nat /\ n \in 1..3 /\ k + n <= Len(line)
    BY <1>1
  <2> HIDE DEF single
  <2> QED BY <2>1, WordAround
<1>3. PICK i \in 0..(Len(w) - n) : \A j \in 1..n : w[i + j] = line[k + j]
  BY <1>2
<1>4. \A j \in DOMAIN piece : w[i + j] \in piece[j]
  BY <1>1, <1>3
<1>5. CASE single
  <2> DEFINE key == [x \in 1..3 |-> CHOOSE c \in piece[x] : TRUE]
  <2>1. n = 3 /\ Len(w) \in Nat
    BY <1>1, <1>2, <1>5
  <2>2. i = 0 /\ Len(w) = 3
    <3> DEFINE size == Len(w)
    <3>1. i \in 0..(size - 3) /\ size <= 3 /\ size \in Nat
      BY <1>2, <1>3, <2>1
    <3> HIDE DEF size
    <3>2. i = 0 /\ size = 3
      BY <3>1
    <3> QED BY <3>2 DEF size
  <2>3. ASSUME NEW x \in 1..3 PROVE key[x] = w[x]
    <3>1. PICK c \in piece[x] : piece[x] = {c}
      BY <1>5
    <3>2. w[x] \in piece[x]
      <4>1. x \in DOMAIN piece /\ i + x = x
        BY <1>1, <2>1, <2>2
      <4> QED BY <1>4, <4>1
    <3>3. key[x] = CHOOSE d \in piece[x] : TRUE
      OBVIOUS
    <3> QED BY <3>1, <3>2, <3>3
  <2> HIDE DEF key
  <2>4. key = w
    <3>1. key = [x \in 1..3 |-> w[x]]
      BY <2>3 DEF key
    <3>2. w = [x \in 1..3 |-> w[x]]
      BY <1>2, <2>2
    <3> QED BY <3>1, <3>2
  <2>5. MatchingWords(piece, words) = {key}
    BY <1>5 DEF MatchingWords, key
  <2> QED BY <1>2, <2>4, <2>5
<1>6. CASE ~ single
  <2>1. i \in 0..(Len(w) - Len(piece))
    BY <1>1, <1>3
  <2>2. MatchingWords(piece, words) =
          {v \in words : \E x \in 0..(Len(v) - Len(piece)) : \A j \in DOMAIN piece : v[x + j] \in piece[j]}
    BY <1>6 DEF MatchingWords
  <2> HIDE DEF single, words
  <2>3. w \in MatchingWords(piece, words)
    BY <1>2, <1>4, <2>1, <2>2
  <2> QED BY <1>2, <2>3 DEF words
<1> QED BY <1>5, <1>6

\* The words of a published version's lines have been published.
LEMMA LinePublished ==
  ASSUME SearchInv, Searching, NEW f \in Searchable, NEW c \in 0..(finalized - 1),
         NEW text \in Range(repo[c + 1][f].lines), NEW w \in text
  PROVE  Published(f, w) # {}
<1> DEFINE has == {b \in Nat : b <= c /\ text \in Range(repo[b + 1][f].lines)}
<1>1. /\ LinesInv /\ Applied(f) = commits /\ commits \in Nat /\ finalized \in Nat /\ finalized <= commits
      /\ c \in Nat /\ c <= finalized - 1
  BY SearchFacts
<1>2. has \in SUBSET Nat /\ c \in has
  BY <1>1
<1>3. PICK b \in has : \A d \in has : b <= d
  BY <1>2, LeastNatural
<1>4. b \in Nat /\ b <= c /\ text \in Range(repo[b + 1][f].lines)
  OBVIOUS
<1>5. ASSUME b # 0, text \in Range(repo[b][f].lines) PROVE FALSE
  <2>1. b - 1 \in Nat /\ b - 1 <= c /\ (b - 1) + 1 = b /\ ~ (b <= b - 1)
    BY <1>1, <1>4, <1>5
  <2>2. b - 1 \in has
    BY <1>5, <2>1
  <2> QED BY <1>3, <2>1, <2>2
<1> HIDE DEF has
<1>6. b \in 0..(Applied(f) - 1) /\ b \in 0..(finalized - 1)
  BY <1>1, <1>4
<1>7. NewLinesAreFound
  BY <1>1, LinesAreFound
<1>8. b \in Bits(f, w)
  BY <1>4, <1>5, <1>6, <1>7 DEF NewLinesAreFound
<1> QED BY <1>6, <1>8 DEF Published

\* Whatever stands in a published line is in some file.
LEMMA LineKnown ==
  ASSUME SearchInv, Searching, NEW f \in Searchable, NEW c \in 0..(finalized - 1),
         NEW n \in DOMAIN Version(f, c).lines, NEW line, line = Version(f, c).lines[n]
  PROVE  line \in Seq(Chars) /\ Known(View, line)
<1>1. /\ f \in Files /\ c \in 0..(commits - 1) /\ LinesInv /\ Shapes
  BY SearchFacts
<1> DEFINE texts == repo[c + 1][f].lines
<1>2. /\ texts \in Seq(LineTexts) /\ n \in DOMAIN texts
      /\ line \in Seq(Chars) /\ TrigramsOf(line) = texts[n]
  BY <1>1, VersionFacts
<1>3. texts[n] \in Range(texts) /\ texts[n] \in LineTexts
  BY <1>2 DEF Range
<1> HIDE DEF texts
<1>4. ASSUME NEW w \in TrigramsOf(line)
      PROVE  /\ w \in all_words /\ f \in DocsOf(View, w) /\ f \in DOMAIN View.documents
  <2>1. Published(f, w) # {}
    BY <1>2, <1>3, LinePublished DEF texts
  <2>2. w \in Words
    BY <1>2, <1>3, IndexerAssumption
  <2>3. Listed(f) /\ Bits(f, w) # {}
    BY <2>1 DEF SearchInv, Published
  <2> QED BY <2>1, <2>2, <2>3, BearsTracked DEF Listed
<1>5. ASSUME NEW text \in Seq(Chars), text # <<>>, PlacesOf(text, line) # {},
             ByteLen(text) <= 2 \/ Len(text) >= 3
      PROVE  DocsWithWord(View, text) # {}
  <2>1. ByteLen(text) \in Nat /\ Len(text) \in Nat /\ Len(text) # 0 /\ ByteLen(text) >= Len(text)
    BY <1>5, ByteLenFacts
  <2>2. CASE ByteLen(text) <= 2
    <3> DEFINE m == Len(text)
               bytes == ByteLen(text)
    <3>1. m \in 1..3 /\ m \in Nat /\ m >= 1
      <4>1. m \in Nat /\ m # 0 /\ bytes \in Nat /\ bytes >= m /\ bytes <= 2
        BY <2>1, <2>2
      <4> HIDE DEF m, bytes
      <4> QED BY <4>1
    <3>2. PICK i \in 1..(Len(line) - m + 1) : SubSeq(line, i, i + m - 1) = text
      BY <1>5 DEF PlacesOf
    <3> DEFINE k == i - 1
    <3>3. k \in Nat /\ k + m <= Len(line)
      BY <1>2, <3>1
    <3>4. \A x \in 1..m : text[x] = line[k + x]
      <4>1. i \in 1..(Len(line) + 1) /\ i + m - 1 \in 0..Len(line) /\ (i + m - 1) - i + 1 = m
        BY <1>2, <3>1
      <4>2. \A x \in 1..((i + m - 1) - i + 1) : SubSeq(line, i, i + m - 1)[x] = line[i + x - 1]
        BY <1>2, <4>1
      <4>3. \A x \in 1..m : i + x - 1 = k + x
        OBVIOUS
      <4> QED BY <3>2, <4>1, <4>2, <4>3
    <3> HIDE DEF m, k
    <3>5. PICK w \in TrigramsOf(line) :
            /\ w \in Seq(Chars) /\ Len(w) <= 3
            /\ \E x \in 0..(Len(w) - m) : \A j \in 1..m : w[x + j] = line[k + j]
      BY <1>2, <3>1, <3>3, WordAround
    <3>6. PICK x \in 0..(Len(w) - m) : \A j \in 1..m : w[x + j] = line[k + j]
      BY <3>5
    <3>7. x + 1 \in PlacesOf(text, w)
      <4> DEFINE s == SubSeq(w, x + 1, x + m)
      <4>1. x + 1 \in 1..(Len(w) - m + 1) /\ (x + 1) + m - 1 = x + m /\ Len(w) \in Nat /\ x \in Nat
        BY <3>1, <3>5
      <4>2. x + 1 \in 1..(Len(w) + 1) /\ x + m \in 0..Len(w) /\ (x + m) - (x + 1) + 1 = m
        BY <3>1, <4>1
      <4>3. s \in Seq(Chars) /\ Len(s) = m /\ \A j \in 1..m : s[j] = w[(x + 1) + j - 1]
        BY <3>1, <3>5, <4>2, PartFacts
      <4> HIDE DEF s
      <4>4. \A j \in 1..m : s[j] = text[j]
        <5>1. ASSUME NEW j \in 1..m PROVE s[j] = text[j]
          <6>1. (x + 1) + j - 1 = x + j
            BY <4>1
          <6> QED BY <3>4, <3>6, <4>3, <6>1
        <5> QED BY <5>1
      <4>5. s = text
        <5>1. Len(s) = Len(text) /\ \A j \in 1..Len(s) : s[j] = text[j]
          BY <4>3, <4>4 DEF m
        <5> QED BY <1>5, <4>3, <5>1, SeqEqual
      <4> QED BY <4>1, <4>5 DEF PlacesOf, m, s
    <3>8. IsWithin(text, w)
      BY <3>7 DEF IsWithin
    <3>9. w \in View.all_words
      BY <1>4, ViewFacts
    <3>10. f \in DocsWithWord(View, text)
      BY <1>4, <2>2, <3>8, <3>9 DEF DocsWithWord
    <3> QED BY <3>10
  <2>3. CASE ~ (ByteLen(text) <= 2)
    <3>1. Len(text) >= 3
      BY <1>5, <2>3
    <3>2. TrigramsOf(text) \subseteq TrigramsOf(line)
      BY <1>2, <1>5, <3>1, PlaceTrigrams
    <3>3. PICK w \in TrigramsOf(text) : TRUE
      BY <1>5, HasTrigrams
    <3>4. f \in DocsWithWord(View, text)
      BY <1>4, <2>3, <3>2, <3>3 DEF DocsWithWord
    <3> QED BY <3>4
  <2> QED BY <2>2, <2>3
<1> QED BY <1>2, <1>5 DEF Known

-----------------------------------------------------------------------------
(* Candidates cover what expressions match.                                *)

LEMMA InvCover ==
  ASSUME SearchInv
  PROVE  CandidatesCover
<1> DEFINE q == answer.query
           e == q.expression
           built == BuildCandidates(View, e)
           meets(line, trigram) ==
             \E word \in TrigramsOf(line) : word \in MatchingWords(trigram, TrigramsOf(line))
<1>1. SUFFICES ASSUME answer.outcome = "ok", q.kind = "regex", Precise(q), NEW f \in Searchable,
                      NEW c \in 0..(finalized - 1), NEW line \in Range(Version(f, c).lines),
                      IsMatch(e, line)
               PROVE  \E cand \in Demanding(built.candidates) :
                        \A i \in DOMAIN cand : meets(line, cand[i])
  BY DEF CandidatesCover
<1>2. answer # NoAnswer
  BY <1>1 DEF NoAnswer
<1>3. Searching /\ q \in Queries /\ Search(View, q).outcome = "ok"
  BY <1>1, <1>2, AnswerFacts
<1>4. e \in Expressions
  BY <1>1, <1>3, QueryFacts
<1>5. built.outcome = "ok"
  <2>1. Search(View, q) = RegexSearch(View, e)
    BY <1>1 DEF Search
  <2>2. built.outcome \in {"ok", "panic", "refused"}
    <3>1. PICK build \in [Expressions -> Builds] : \A x \in Expressions : BuildCandidates(View, x) = build[x]
      BY BuildBy
    <3>2. built \in Builds
      BY <1>4, <3>1
    <3> QED BY <3>2 DEF Builds
  <2> HIDE DEF built
  <2>3. built.outcome # "panic" /\ built.outcome # "refused"
    BY <1>3, <2>1 DEF RegexSearch, SearchPanics, SearchRefused, built
  <2> QED BY <2>2, <2>3
<1>6. Covered(e) /\ Spans(e, <<>>) = {}
  BY <1>1 DEF Precise, IsMatch
<1>7. ~ Null(e)
  BY <1>6 DEF Null
<1>8. line \in Seq(Chars) /\ Known(View, line)
  <2>1. PICK n \in DOMAIN Version(f, c).lines : line = Version(f, c).lines[n]
    BY DEF Range
  <2> QED BY <1>3, <2>1, LineKnown
<1>9. PICK i \in Places(line), j \in Places(line) : <<i, j>> \in Spans(e, line)
  <2>1. Spans(e, line) # {} /\ Spans(e, line) \in SUBSET (Places(line) \X Places(line))
    BY <1>1, <1>4, <1>8, SpansFacts DEF IsMatch, SpansIn
  <2> QED BY <2>1
<1>10. Served(e, View, line)
  BY <1>4, <1>8, AllServed
<1>11. PICK cand \in built.candidates : Reaches(cand, line, i, j) /\ (cand = <<>> => Null(e))
  BY <1>5, <1>6, <1>9, <1>10 DEF Served
<1>12. Solid(cand) /\ \A m \in 1..Len(cand) : \E k \in Nat : At(cand[m], line, k)
  BY <1>7, <1>11 DEF Reaches, Fits
<1>13. /\ cand \in Seq(Pieces) /\ DOMAIN cand = 1..Len(cand) /\ DOMAIN cand # {}
       /\ \A m \in DOMAIN cand : cand[m] \in Pieces /\ Size(cand[m]) \in 1..3
  BY <1>12 DEF Solid
<1>14. \A m \in DOMAIN cand : meets(line, cand[m])
  BY <1>8, <1>12, <1>13, PieceWord
<1> HIDE DEF built
<1>15. cand \in Demanding(built.candidates)
  BY <1>11, <1>13 DEF Demanding
<1> QED BY <1>14, <1>15

\* A line that an expression matches has, for one of its candidates, a word for each of the
\* trigrams: merging, repeating and concatenating parts, and leaving out literals of no file,
\* lose no match (build_candidates_from_hir, regex_search.rs, permutation.rs).
THEOREM CandidatesAlwaysCover == SearchSpec => []CandidatesCover
BY SearchInvariant, InvCover, PTL

-----------------------------------------------------------------------------
(* Matches are found.                                                      *)

\* Line n of the version at c has its bits there, and is one that the query asks for.
Finds(q, f, c) ==
  LET lines     == Version(f, c).lines
      texts     == repo[c + 1][f].lines
      bearing   == {n \in DOMAIN lines : Bears(f, c, texts[n])}
  IN  /\ q.kind = "plain" =>
           \A k \in 1..Len(q.words) : \E n \in bearing : PlacesOf(q.words[k], lines[n]) # {}
      /\ q.kind = "regex" => \E n \in bearing : IsMatch(q.expression, lines[n])

\* Such a version is in a result.
LEMMA FoundFor ==
  ASSUME SearchInv, answer.outcome = "ok", NEW q, q = answer.query, Precise(q),
         NEW f \in Searchable, NEW c \in 0..(finalized - 1),
         c \in CommitsToSearch(View, index[f].document), Finds(q, f, c)
  PROVE  \E r \in Search(View, q).results : r.file = f /\ c \in r.commits
<1>1. answer # NoAnswer
  BY DEF NoAnswer
<1>2. /\ Searching /\ q \in Queries /\ Search(View, q).outcome = "ok" /\ f \in Files
      /\ c \in 0..(commits - 1)
  BY <1>1, AnswerFacts, SearchFacts
<1> DEFINE lines == Version(f, c).lines
           texts == repo[c + 1][f].lines
<1>3. /\ DOMAIN lines = DOMAIN texts
      /\ \A n \in DOMAIN lines : /\ lines[n] \in Seq(Chars) /\ TrigramsOf(lines[n]) = texts[n]
  BY <1>2, VersionFacts
<1>4. CASE q.kind = "plain"
  <2> DEFINE words == q.words
  <2>1. /\ words \in Seq(Seq(Chars) \ {<<>>}) /\ words # <<>>
        /\ \A k \in DOMAIN words : Len(words[k]) >= 3 /\ words[k] \in Seq(Chars)
    <3>1. words \in Seq(Seq(Chars) \ {<<>>})
      BY <1>2, <1>4, QueryFacts
    <3> QED BY <1>4, <3>1 DEF Precise, LongWords
  <2>2. ASSUME NEW k \in DOMAIN words, NEW w \in TrigramsOf(words[k])
        PROVE  c \in Bits(f, w)
    <3>1. k \in 1..Len(words)
      BY <2>1
    <3>2. PICK n \in DOMAIN lines : Bears(f, c, texts[n]) /\ PlacesOf(words[k], lines[n]) # {}
      BY <1>4, <3>1 DEF Finds
    <3> HIDE DEF words, lines, texts
    <3>3. /\ words[k] \in Seq(Chars) /\ Len(words[k]) >= 3
          /\ lines[n] \in Seq(Chars) /\ TrigramsOf(lines[n]) = texts[n]
      BY <1>3, <2>1, <3>2
    <3>4. TrigramsOf(words[k]) \subseteq TrigramsOf(lines[n])
      BY <3>2, <3>3, PlaceTrigrams
    <3>5. w \in texts[n]
      BY <2>2, <3>3, <3>4
    <3> QED BY <3>2, <3>5 DEF Bears
  <2>3. \E r \in RawWordSearch(View, words).results : r.file = f /\ c \in r.commits
    <3> HIDE DEF words
    <3> QED BY <1>2, <2>1, <2>2, WordsFound
  <2> QED BY <1>4, <2>3 DEF Search
<1>5. CASE q.kind = "regex"
  <2> DEFINE e == q.expression
             candidates == Demanding(BuildCandidates(View, e).candidates)
  <2>1. PICK n \in DOMAIN lines : Bears(f, c, texts[n]) /\ IsMatch(e, lines[n])
    BY <1>5 DEF Finds
  <2>2. lines[n] \in Range(lines)
    BY DEF Range
  <2>3. PICK cand \in candidates : \A i \in DOMAIN cand :
          \E w \in TrigramsOf(lines[n]) : w \in MatchingWords(cand[i], TrigramsOf(lines[n]))
    BY <1>5, <2>1, <2>2, InvCover DEF CandidatesCover
  <2>4. TrigramsOf(lines[n]) = texts[n]
    BY <1>3
  <2>5. RegexSearch(View, e).outcome = "ok"
    BY <1>2, <1>5 DEF Search
  <2> HIDE DEF lines, texts, e
  <2>6. \E r \in RegexSearch(View, e).results : r.file = f /\ c \in r.commits
    BY <1>2, <2>1, <2>3, <2>4, <2>5, CandidateFound
  <2> QED BY <1>5, <2>6 DEF Search, e
<1> QED BY <1>4, <1>5 DEF Precise

\* Where all lines of a version have their bits, a match is found.
LEMMA MatchFinds ==
  ASSUME SearchInv, Searching, NEW q \in Queries, q.kind \in {"plain", "regex"},
         NEW f \in Files, NEW c \in 0..(commits - 1),
         MatchesIn(q, Version(f, c).lines) # {},
         \A n \in DOMAIN repo[c + 1][f].lines : Bears(f, c, repo[c + 1][f].lines[n])
  PROVE  Finds(q, f, c)
<1> DEFINE lines == Version(f, c).lines
<1>1. lines \in Seq(Seq(Chars)) /\ DOMAIN lines = DOMAIN repo[c + 1][f].lines
  BY VersionFacts
<1>2. ASSUME q.kind = "plain", NEW k \in 1..Len(q.words)
      PROVE  \E n \in DOMAIN lines : PlacesOf(q.words[k], lines[n]) # {}
  <2>1. q.words \in Seq(Seq(Chars) \ {<<>>})
    BY <1>2, QueryFacts
  <2>2. VersionArguments(q.words, lines)
    BY <1>1, <2>1 DEF VersionArguments
  <2>3. MatchesIn(q, lines) # {}
    OBVIOUS
  <2> HIDE DEF lines
  <2> QED BY <1>2, <2>2, <2>3, EveryWordIsThere
<1>3. ASSUME q.kind = "regex"
      PROVE  \E n \in DOMAIN lines : IsMatch(q.expression, lines[n])
  BY <1>1, <1>3, RegexMatch
<1> QED BY <1>1, <1>2, <1>3 DEF Finds

\* At the head of a completed run every word of the file has its bit.
LEMMA HeadBears ==
  ASSUME SearchInv, Searching, finalized = commits, NEW f \in Searchable,
         NEW n \in DOMAIN repo[commits][f].lines
  PROVE  Bears(f, commits - 1, repo[commits][f].lines[n])
<1>1. /\ f \in Files /\ Shapes /\ commits \in Nat /\ commits > 0 /\ commits <= Len(repo) /\ Len(repo) \in Nat
      /\ FileSettled(index[f], Past(f), commits, finalized)
  BY SearchFacts
<1>2. commits \in 1..Len(repo) /\ commits # 0
  BY <1>1
<1>3. /\ LinesAt(Past(f), commits) = repo[commits][f].lines
      /\ repo[commits][f].lines \in Seq(LineTexts)
  BY <1>1, <1>2, PastFacts DEF LinesAt
<1>4. ASSUME NEW w \in repo[commits][f].lines[n] PROVE commits - 1 \in Bits(f, w)
  <2>1. w \in WordsIn(LinesAt(Past(f), commits))
    BY <1>3 DEF WordsIn
  <2>2. w \in Words
    BY <1>3, <2>1, WordsOfLines
  <2> DEFINE B == Bitmap(index[f].document, w)
  <2>3. B \subseteq 0..(commits - 1) /\ BitsFit(B, TRUE, Past(f), w, commits, finalized)
    BY <1>1, <2>1, <2>2 DEF FileSettled, Settled
  <2> HIDE DEF B
  <2>4. PICK m \in B : m >= finalized - 1
    BY <2>3 DEF BitsFit
  <2>5. m = commits - 1
    BY <1>1, <2>3, <2>4
  <2> QED BY <2>4, <2>5 DEF B, Bits, Bitmap
<1> QED BY <1>4 DEF Bears

LEMMA InvHead ==
  ASSUME SearchInv
  PROVE  HeadMatchIsShown
<1> DEFINE q == answer.query
           c == commits - 1
<1>1. SUFFICES ASSUME answer.outcome = "ok", Precise(q), finalized = commits,
                      NEW f \in Searchable, ~ index[f].document.is_deleted,
                      MatchesIn(q, Version(f, commits - 1).lines) # {}
               PROVE  \E result \in answer.results :
                        /\ result.raw.file = f
                        /\ result.shown.first.is_head \/ result.shown.last.is_head
  BY DEF HeadMatchIsShown
<1>2. answer # NoAnswer
  BY <1>1 DEF NoAnswer
<1>3. /\ Searching /\ q \in Queries /\ f \in Files /\ c \in 0..(commits - 1) /\ c + 1 = commits
      /\ q.kind \in {"plain", "regex"}
  BY <1>1, <1>2, AnswerFacts, SearchFacts DEF Precise
<1>4. c \in CommitsToSearch(View, index[f].document)
  BY <1>1, ViewFacts DEF CommitsToSearch
<1>5. \A n \in DOMAIN repo[c + 1][f].lines : Bears(f, c, repo[c + 1][f].lines[n])
  BY <1>1, <1>3, HeadBears
<1>6. Finds(q, f, c)
  <2> HIDE DEF c, q
  <2> QED BY <1>1, <1>3, <1>5, MatchFinds DEF c
<1>7. PICK r \in Search(View, q).results : r.file = f /\ c \in r.commits
  <2> HIDE DEF c
  <2> QED BY <1>1, <1>3, <1>4, <1>6, FoundFor
<1> QED BY <1>1, <1>2, <1>7, ResultShown

\* What the head of a completed run matches is shown as a match at the head
\* (Finalize fills the bits up to the head, SearchResult::new looks at it last).
THEOREM HeadMatchesAreShown == SearchSpec => []HeadMatchIsShown
BY SearchInvariant, InvHead, PTL

-----------------------------------------------------------------------------
(* The first match.                                                        *)

\* A line that matches a query of one word, or an expression.
Hits(q, line) ==
  IF q.kind = "regex" THEN IsMatch(q.expression, line) ELSE PlacesOf(q.words[1], line) # {}

\* Queries that one line decides.
OneLine(q) == q.kind = "regex" \/ (q.kind = "plain" /\ Len(q.words) = 1)

LEMMA OneLineMatches ==
  ASSUME NEW q \in Queries, OneLine(q), NEW lines \in Seq(Seq(Chars))
  PROVE  MatchesIn(q, lines) # {} <=> \E n \in DOMAIN lines : Hits(q, lines[n])
<1>1. CASE q.kind = "regex"
  BY <1>1, RegexMatch DEF Hits
<1>2. CASE q.kind # "regex"
  <2>1. q.kind = "plain" /\ Len(q.words) = 1 /\ VersionArguments(q.words, lines)
    BY <1>2, QueryFacts DEF OneLine, VersionArguments
  <2>2. 1 \in 1..Len(q.words)
    BY <2>1
  <2>3. ASSUME MatchesIn(q, lines) # {} PROVE \E n \in DOMAIN lines : PlacesOf(q.words[1], lines[n]) # {}
    BY <2>1, <2>2, <2>3, EveryWordIsThere
  <2>4. ASSUME NEW n \in DOMAIN lines, PlacesOf(q.words[1], lines[n]) # {} PROVE MatchesIn(q, lines) # {}
    BY <2>1, <2>4, SingleWord
  <2> QED BY <1>2, <2>3, <2>4 DEF Hits
<1> QED BY <1>1, <1>2

\* Where one line with its bits decides, a match is found.
LEMMA LineFinds ==
  ASSUME NEW q \in Queries, OneLine(q), NEW f, NEW c,
         NEW n \in DOMAIN Version(f, c).lines, Hits(q, Version(f, c).lines[n]),
         Bears(f, c, repo[c + 1][f].lines[n])
  PROVE  Finds(q, f, c)
<1> DEFINE lines == Version(f, c).lines
           bearing == {m \in DOMAIN lines : Bears(f, c, repo[c + 1][f].lines[m])}
<1>1. n \in bearing
  OBVIOUS
<1> HIDE DEF bearing
<1>2. ASSUME q.kind = "plain", NEW k \in 1..Len(q.words)
      PROVE  \E m \in bearing : PlacesOf(q.words[k], lines[m]) # {}
  <2>1. Len(q.words) = 1
    BY <1>2 DEF OneLine
  <2>2. k = 1
    BY <1>2, <2>1
  <2> QED BY <1>1, <1>2, <2>2 DEF Hits
<1>3. ASSUME q.kind = "regex" PROVE \E m \in bearing : IsMatch(q.expression, lines[m])
  BY <1>1, <1>3 DEF Hits
<1> QED BY <1>2, <1>3 DEF Finds, bearing

\* The oldest version that matches is one that a line came into.
LEMMA OldestIsNew ==
  ASSUME SearchInv, Searching, NEW q \in Queries, OneLine(q), NEW f \in Searchable,
         NEW c \in 0..(finalized - 1), MatchesIn(q, Version(f, c).lines) # {},
         \A b \in 0..(finalized - 1) : b < c => MatchesIn(q, Version(f, b).lines) = {}
  PROVE  /\ c \in index[f].document.doc_modified_commits
         /\ Finds(q, f, c)
<1> DEFINE texts == repo[c + 1][f].lines
           lines == Version(f, c).lines
<1>1. /\ f \in Files /\ LinesInv /\ Applied(f) = commits /\ commits \in Nat /\ finalized \in Nat
      /\ finalized <= commits
  BY SearchFacts
<1>2. c \in 0..(commits - 1) /\ c \in Nat
  BY <1>1
<1>3. /\ texts \in Seq(LineTexts) /\ lines \in Seq(Seq(Chars)) /\ DOMAIN lines = DOMAIN texts
      /\ \A n \in DOMAIN texts : lines[n] = LineOf[texts[n]]
  BY <1>1, <1>2, VersionFacts
<1>4. PICK n \in DOMAIN lines : Hits(q, lines[n])
  BY <1>3, OneLineMatches
<1>5. ASSUME c # 0, texts[n] \in Range(repo[c][f].lines) PROVE FALSE
  <2> DEFINE b == c - 1
             before == Version(f, b).lines
  <2>1. b \in 0..(finalized - 1) /\ b \in 0..(commits - 1) /\ b < c /\ b + 1 = c
    BY <1>1, <1>2, <1>5
  <2> HIDE DEF b
  <2>2. /\ before \in Seq(Seq(Chars)) /\ DOMAIN before = DOMAIN repo[c][f].lines
        /\ \A m \in DOMAIN repo[c][f].lines : before[m] = LineOf[repo[c][f].lines[m]]
    BY <1>1, <2>1, VersionFacts, SMTT(30)
  <2>3. PICK m \in DOMAIN repo[c][f].lines : repo[c][f].lines[m] = texts[n]
    BY <1>5 DEF Range
  <2>4. m \in DOMAIN before /\ before[m] = lines[n]
    <3>1. m \in DOMAIN before /\ before[m] = LineOf[repo[c][f].lines[m]]
      BY <2>2, <2>3
    <3>2. lines[n] = LineOf[texts[n]]
      BY <1>3, <1>4
    <3> QED BY <2>3, <3>1, <3>2
  <2>5. MatchesIn(q, before) # {}
    BY <1>4, <2>2, <2>4, OneLineMatches
  <2> QED BY <2>1, <2>5
<1>6. NewLinesAreFound
  BY <1>1, LinesAreFound
<1>7. /\ c \in index[f].document.doc_modified_commits
      /\ \A w \in texts[n] : c \in Bits(f, w)
  <2>1. c \in 0..(Applied(f) - 1)
    BY <1>1, <1>2
  <2>2. texts[n] \in Range(texts)
    BY <1>3, <1>4 DEF Range
  <2>3. c = 0 \/ texts[n] \notin Range(repo[c][f].lines)
    BY <1>5
  <2> QED BY <1>6, <2>1, <2>2, <2>3 DEF NewLinesAreFound
<1> QED BY <1>4, <1>7, LineFinds DEF Bears

LEMMA InvFirst ==
  ASSUME SearchInv
  PROVE  FirstMatchIsExact
<1> DEFINE q == answer.query
           matching(f) == {c \in 0..(finalized - 1) : MatchesIn(q, Version(f, c).lines) # {}}
<1>1. SUFFICES ASSUME answer.outcome = "ok", Precise(q),
                      q.kind = "plain" => Len(q.words) = 1,
                      NEW f \in Searchable, matching(f) # {}
               PROVE  \E result \in answer.results :
                        result.raw.file = f /\ result.shown.first.commit = Min(matching(f))
  BY DEF FirstMatchIsExact
<1> DEFINE M == matching(f)
           c == Min(M)
<1>2. answer # NoAnswer
  BY <1>1 DEF NoAnswer
<1>3. Searching /\ q \in Queries /\ OneLine(q) /\ finalized \in Nat /\ commits \in Nat /\ finalized <= commits
  BY <1>1, <1>2, AnswerFacts, SearchFacts DEF Precise, OneLine
<1>4. c \in M /\ \A b \in M : c <= b
  <2>1. M \in SUBSET Nat
    BY <1>3
  <2> HIDE DEF M
  <2> QED BY <1>1, <2>1, MinOf DEF M
<1> HIDE DEF c
<1>5. c \in 0..(finalized - 1) /\ MatchesIn(q, Version(f, c).lines) # {}
  BY <1>4
<1>6. \A b \in 0..(finalized - 1) : b < c => MatchesIn(q, Version(f, b).lines) = {}
  <2>1. ASSUME NEW b \in 0..(finalized - 1), b < c, MatchesIn(q, Version(f, b).lines) # {} PROVE FALSE
    <3>1. b \in M /\ b \in Nat /\ c \in Nat
      BY <1>3, <1>5, <2>1
    <3>2. c <= b
      BY <1>4, <3>1
    <3> QED BY <2>1, <3>1, <3>2
  <2> QED BY <2>1
<1> HIDE DEF q, M
<1>7. c \in index[f].document.doc_modified_commits /\ Finds(q, f, c)
  BY <1>3, <1>5, <1>6, OldestIsNew
<1>8. c \in CommitsToSearch(View, index[f].document)
  BY <1>7 DEF CommitsToSearch
<1>9. PICK r \in Search(View, q).results : r.file = f /\ c \in r.commits
  BY <1>1, <1>3, <1>5, <1>7, <1>8, FoundFor DEF q
<1> DEFINE S == MatchingCommits(q, r)
<1>10. PICK result \in answer.results :
         result.raw.file = f /\ result.shown.first.commit = Min(S) /\ r.commits \subseteq 0..(commits - 1)
  <2>1. r.file \in Searchable /\ c \in r.commits /\ MatchesIn(q, Version(r.file, c).lines) # {}
    BY <1>1, <1>5, <1>9
  <2>2. q = answer.query
    BY DEF q
  <2>3. \E result \in answer.results :
          /\ result.raw.file = r.file /\ result.shown.first.commit = Min(S)
          /\ r.commits \subseteq 0..(commits - 1)
    BY <1>2, <2>1, <2>2, ResultShown
  <2> HIDE DEF S
  <2> QED BY <1>9, <2>3
<1>11. Min(S) = c
  <2>1. S \in SUBSET Nat /\ c \in S
    BY <1>3, <1>5, <1>9, <1>10 DEF MatchingCommits
  <2>2. Min(S) \in S /\ Min(S) <= c
    <3> HIDE DEF S
    <3> QED BY <2>1, MinOf
  <2>3. Min(S) \in Nat /\ MatchesIn(q, Version(f, Min(S)).lines) # {} /\ c \in Nat
    BY <1>9, <2>1, <2>2 DEF MatchingCommits
  <2> HIDE DEF S
  <2>4. ASSUME Min(S) # c PROVE FALSE
    <3>1. Min(S) < c /\ Min(S) \in 0..(finalized - 1)
      BY <1>3, <1>5, <2>2, <2>3, <2>4
    <3> QED BY <1>6, <2>3, <3>1
  <2> QED BY <2>4
<1> QED BY <1>10, <1>11 DEF c, M, q

\* The oldest commit shown of a file is the one that introduced the match
\* (FileDiffTracker, Document::add_words, CommitsToSearch, SearchResult::new).
THEOREM FirstMatchesAreExact == SearchSpec => []FirstMatchIsExact
BY SearchInvariant, InvFirst, PTL
=============================================================================
