----------------------------- MODULE GitIndexer -----------------------------
(***************************************************************************)
(* Indexing a git history, at once or in increments                        *)
(* (crep-indexer/src/index/git_indexer.rs).                                *)
(*                                                                         *)
(* repo is the first-parent history in the order the walk visits it: one   *)
(* tree per commit, a tree giving the content of every file.  A run of     *)
(* index_history records each commit as indexed, then applies the diff of  *)
(* each file to its tracker and document, and finalizes every document     *)
(* once the walk reaches the head it started from.                         *)
(*                                                                         *)
(* A line is the set of the words (trigrams) it contains; two lines with   *)
(* the same words may still differ in text, so a diff may replace a line   *)
(* by an equal one.  A file's path stands for its id.                      *)
(***************************************************************************)
EXTENDS FileDiffTracker, Document, SequencesExt

CONSTANTS
  Files,       \* paths
  Words,       \* trigrams
  LineTexts,   \* lines that occur: each a set of words
  Binaries,    \* whether binary files occur
  MaxLines,    \* bound: lines of a file
  MaxBomLines, \* bound: lines of a file that begins with a byte order mark
  MaxCommits,  \* bound: commits of the repository
  MayFail      \* whether a run may end early with an error

ASSUME IndexerAssumption ==
  /\ LineTexts \subseteq SUBSET Words
  /\ Binaries \in BOOLEAN /\ MayFail \in BOOLEAN
  /\ MaxLines \in Nat /\ MaxCommits \in Nat /\ MaxBomLines \in 0..MaxLines

VARIABLES
  repo,       \* sequence of trees; commit index c is repo[c + 1]
  commits,    \* length of commit_index_to_commit_id
  phase,      \* "idle", "walking" the history, or "panicked"
  target,     \* length of the history when the walk started
  todo,       \* files whose part of the current commit's diff is not applied yet
  patching,   \* the file, if any, of which some hunks are applied and some not
  left,       \* and the boundary before which they are not
  index,      \* per file: its tracker and document, if it has them
  ever,       \* word_to_file_id_ever_contained
  ignored,    \* ignored_non_utf8_file_path_set
  finalized,  \* number of commits covered by the last completed run
  lost        \* files the index does not hold as git shows them (not in the code)

indexerVars == <<commits, phase, target, todo, patching, left, index, ever, ignored,
                 finalized, lost>>
vars == <<repo, indexerVars>>

-----------------------------------------------------------------------------
(* File contents and the diffs git reports between them.                   *)

Absent == [kind |-> "absent", lines |-> <<>>]
Binary == [kind |-> "binary", lines |-> <<>>]
Text(lines) == [kind |-> "text", lines |-> lines]
Bom(lines) == [kind |-> "bom", lines |-> lines]

\* A "bom" file is text to git, but is_utf8_document rejects it.
IsText(content) == content.kind \in {"text", "bom"}

Contents ==
  {Absent} \cup (IF Binaries THEN {Binary} ELSE {})
    \cup {Text(s) : s \in BoundedSeq(LineTexts, MaxLines)}
    \cup {Bom(s) : s \in BoundedSeq(LineTexts, MaxBomLines) \ {<<>>}}

(***************************************************************************)
(* A diff keeps some lines of old that are equal in text to lines of new,  *)
(* in order; a hunk is what lies between two stretches of kept lines.  The *)
(* boundary <<i, j>> is the place after line i of old and line j of new.   *)
(***************************************************************************)
Boundaries(old, new) == (0..Len(old)) \X (0..Len(new))
Start == <<0, 0>>
End(old, new) == <<Len(old), Len(new)>>

\* The lines from boundary p to boundary q may be kept.
MayKeep(old, new, p, q) ==
  /\ p[1] <= q[1] /\ q[1] - p[1] = q[2] - p[2]
  /\ \A i \in 1..(q[1] - p[1]) : old[p[1] + i] = new[p[2] + i]

\* A hunk may still come before boundary p: a kept line, and more before it.
MoreHunks(old, new, p) ==
  /\ p[1] > 0 /\ p[2] > 0 /\ p # <<1, 1>>
  /\ old[p[1]] = new[p[2]]

\* Hunk numbers as git gives them: 1-based, or the line before when it is empty.
HunkBetween(old, new, p, q) ==
  [prev_start |-> IF p[1] < q[1] THEN p[1] + 1 ELSE p[1],
   new_start  |-> IF p[2] < q[2] THEN p[2] + 1 ELSE p[2],
   deleted    |-> SubSeq(old, p[1] + 1, q[1]),
   added      |-> SubSeq(new, p[2] + 1, q[2])]

-----------------------------------------------------------------------------
(* The state of one file's index while hunks are applied to it.            *)

Untracked == [tracked |-> FALSE, tracker |-> DeleteAll, document |-> EmptyDocument]

WordsIn(lines) == UNION {lines[i] : i \in DOMAIN lines}

\* split_lines_to_tokens, with the key of each line in place of its number.
Tokens(lines, keys) ==
  [w \in WordsIn(lines) |-> {keys[i] : i \in {j \in DOMAIN lines : w \in lines[j]}}]

\* A variant that numbers the lines of every hunk from 0.
AddNewLinesFromZero(state, c, prev_line_start, new_line_start, lines) ==
  LET keys == [i \in DOMAIN lines |-> LineKey(c, i - 1)]
  IN  [tracked  |-> TRUE,
       tracker  |-> IF state.tracked
                      THEN AddLines(state.tracker, prev_line_start, Len(lines), LineKey(c, 0))
                      ELSE NewTracker(c, Len(lines)),
       document |-> AddWords(state.document, c, Tokens(lines, keys))]

AddNewLines(state, c, prev_line_start, new_line_start, lines) ==
  LET keys == [i \in DOMAIN lines |-> LineKey(c, new_line_start + i - 1)]
  IN  [tracked  |-> TRUE,
       tracker  |-> IF state.tracked
                      THEN AddLines(state.tracker, prev_line_start, Len(lines),
                                    LineKey(c, new_line_start))
                      ELSE NewTracker(c, Len(lines)),
       document |-> AddWords(state.document, c, Tokens(lines, keys))]

\* flatten_delete_result: the keys of the deleted lines, in file order.
FlattenDeleteResult(ranges) ==
  FlattenSeq([j \in DOMAIN ranges |->
                [i \in 1..(ranges[j].stop - ranges[j].start) |->
                   LineKey(ranges[j].commit, ranges[j].start + i - 1)]])

\* assert!(diff_tracker.is_some()), and the bounds of the tracker's vectors.
CanDelete(state, start, n) ==
  state.tracked /\ start + n <= TotalLines(state.tracker)

RemoveLines(state, c, start, lines) ==
  LET keys == FlattenDeleteResult(DeletedRanges(state.tracker, start, Len(lines)))
  IN  [state EXCEPT !.tracker = DeleteLines(@, start, Len(lines)),
                    !.document = RemoveWords(@, c, Tokens(lines, keys))]

DeleteEntireFile(state, c) ==
  [state EXCEPT !.tracker = DeleteAll, !.document = RemoveDocument(@, c)]

\* One hunk of a Modified delta: delete, then add in the same place.
ApplyHunk(c, hunk, state) ==
  LET at       == hunk.prev_start - 1
      replaced == RemoveLines(state, c, at, hunk.deleted)
  IN  IF hunk.deleted = <<>>
        THEN AddNewLines(state, c, hunk.prev_start, hunk.new_start - 1, hunk.added)
      ELSE IF hunk.added = <<>> THEN replaced
      ELSE AddNewLines(replaced, c, at, hunk.new_start - 1, hunk.added)

-----------------------------------------------------------------------------
Init ==
  /\ repo = <<>>
  /\ commits = 0
  /\ phase = "idle"
  /\ target = 0
  /\ todo = {}
  /\ patching = {} /\ left = Start
  /\ index = [f \in Files |-> Untracked]
  /\ ever = [w \in Words |-> {}]
  /\ ignored = {}
  /\ finalized = 0
  /\ lost = {}

\* Someone commits.  A walk sees only the history it started from, so commits
\* made during a walk are the same as commits made after it.
Commit(tree) ==
  /\ phase = "idle"
  /\ Len(repo) < MaxCommits
  /\ repo' = Append(repo, tree)
  /\ UNCHANGED indexerVars

\* index_history resolves HEAD (an empty repository has none) and starts walking.
StartRun ==
  /\ phase = "idle"
  /\ repo # <<>>
  /\ phase' = "walking"
  /\ target' = Len(repo)
  /\ UNCHANGED <<repo, commits, todo, patching, left, index, ever, ignored, finalized, lost>>

\* The commit is recorded before any of its diff is applied.
RecordCommit ==
  /\ phase = "walking"
  /\ todo = {}
  /\ commits < target
  /\ commits' = commits + 1
  /\ todo' = Files
  /\ UNCHANGED <<repo, phase, target, patching, left, index, ever, ignored, finalized, lost>>

CommitIndex == commits - 1
Tree == repo[commits]
PrevTree == repo[commits - 1]

\* A variant that marks the words of a file only when it is first tracked.
UpdateLookupOnce(f, state, words) ==
  /\ index' = [index EXCEPT ![f] = state]
  /\ ever' = [w \in Words |-> IF w \in words /\ ~index[f].tracked
                                THEN ever[w] \cup {f} ELSE ever[w]]

\* The file takes its new state, and its words are marked as ever contained.
Update(f, state, words) ==
  /\ index' = [index EXCEPT ![f] = state]
  /\ ever' = [w \in Words |-> IF w \in words THEN ever[w] \cup {f} ELSE ever[w]]

\* index_tree: every file of the first commit.  If is_utf8_document finds what looks
\* like a byte order mark, the file, text to git or not, is only left out of this
\* commit.  Of the others, a file that is not UTF-8 is ignored from then on, and one
\* that is UTF-8 is indexed, even if git calls it binary for a NUL byte.
IndexTree(f) ==
  /\ commits = 1
  /\ \/ /\ Tree[f].kind = "text"
        /\ Update(f, AddNewLines(index[f], 0, 0, 0, Tree[f].lines), WordsIn(Tree[f].lines))
        /\ UNCHANGED <<ignored, lost>>
     \/ /\ Tree[f].kind = "binary"
        /\ ignored' = ignored \cup {f}
        /\ UNCHANGED <<index, ever, lost>>
     \/ /\ Tree[f].kind = "binary"
        /\ \E lines \in BoundedSeq(LineTexts, MaxLines) :
             Update(f, AddNewLines(index[f], 0, 0, 0, lines), WordsIn(lines))
        /\ lost' = lost \cup {f}
        /\ UNCHANGED ignored
     \/ /\ Tree[f].kind # "text"
        /\ lost' = IF IsText(Tree[f]) THEN lost \cup {f} ELSE lost
        /\ UNCHANGED <<index, ever, ignored>>
  /\ UNCHANGED phase

\* index_diff's file callback when git flags the delta as binary.
BinaryDelta(f) ==
  /\ commits > 1
  /\ "binary" \in {PrevTree[f].kind, Tree[f].kind}
  /\ ignored' = ignored \cup {f}
  /\ UNCHANGED <<index, ever, phase, lost>>

\* Both sides text or absent, and the path not on the ignore list.
TextDelta(f) ==
  /\ commits > 1
  /\ "binary" \notin {PrevTree[f].kind, Tree[f].kind}
  /\ f \notin ignored
  /\ UNCHANGED ignored

\* Nothing for the walk to do: no delta, one without hunks, an ignored path.
SkipDelta(f) ==
  /\ commits > 1
  /\ \/ f \in ignored /\ "binary" \notin {PrevTree[f].kind, Tree[f].kind}
     \/ PrevTree[f] = Tree[f]
     \/ PrevTree[f].lines = <<>> /\ Tree[f].lines = <<>>
           /\ "binary" \notin {PrevTree[f].kind, Tree[f].kind}
  /\ UNCHANGED <<index, ever, ignored, phase, lost>>

AddedDelta(f) ==
  /\ TextDelta(f)
  /\ PrevTree[f].kind = "absent" /\ Tree[f].lines # <<>>
  /\ Update(f, AddNewLines(index[f], CommitIndex, 0, 0, Tree[f].lines), WordsIn(Tree[f].lines))
  /\ UNCHANGED <<phase, lost>>

\* delete_entire_file, which asserts that the file has a tracker.
DeletedDelta(f) ==
  /\ TextDelta(f)
  /\ PrevTree[f].lines # <<>> /\ Tree[f].kind = "absent"
  /\ IF index[f].tracked
       THEN /\ index' = [index EXCEPT ![f] = DeleteEntireFile(@, CommitIndex)]
            /\ UNCHANGED <<phase, lost>>
       ELSE /\ phase' = "panicked"
            /\ lost' = lost \cup {f}
            /\ UNCHANGED index
  /\ UNCHANGED ever

\* The walk is through with f for this commit.
DoneWith(f) ==
  /\ todo' = todo \ {f}
  /\ patching' = {} /\ left' = Start

CanApply(f, hunk) ==
  hunk.deleted = <<>> \/ CanDelete(index[f], hunk.prev_start - 1, Len(hunk.deleted))

PatchWith(f, hunk) ==
  /\ CanApply(f, hunk)
  /\ Update(f, ApplyHunk(CommitIndex, hunk, index[f]), WordsIn(hunk.added))
  /\ UNCHANGED <<phase, lost>>

\* A failed assertion abandons the hunks that are left, and keeps what was done.
PanicOver(f, hunk) ==
  /\ ~CanApply(f, hunk)
  /\ phase' = "panicked"
  /\ lost' = lost \cup {f}
  /\ UNCHANGED <<index, ever>>

(***************************************************************************)
(* One turn of the loop over a file's hunks, which goes from the last to   *)
(* the first so that the old line numbers of those to come stay valid.  It *)
(* takes the hunk between at and to, the lines after to being kept, and    *)
(* there is at least one kept line between two hunks.  Which hunks they    *)
(* are is git's choice.                                                    *)
(***************************************************************************)
ModifiedDelta(f) ==
  LET old == PrevTree[f].lines
      new == Tree[f].lines
      top == IF f \in patching THEN left ELSE End(old, new)
  IN  /\ TextDelta(f)
      /\ IsText(PrevTree[f]) /\ IsText(Tree[f])
      /\ \E at, to \in Boundaries(old, new) :
           /\ MayKeep(old, new, to, top)
           /\ f \in patching => to # top
           /\ at[1] <= to[1] /\ at[2] <= to[2] /\ at # to
           /\ \/ /\ MoreHunks(old, new, at)
                 /\ PatchWith(f, HunkBetween(old, new, at, to))
                 /\ patching' = {f} /\ left' = at
                 /\ UNCHANGED todo
              \/ /\ MayKeep(old, new, Start, at)
                 /\ PatchWith(f, HunkBetween(old, new, at, to))
                 /\ DoneWith(f)
              \/ /\ MoreHunks(old, new, at) \/ MayKeep(old, new, Start, at)
                 /\ PanicOver(f, HunkBetween(old, new, at, to))
                 /\ DoneWith(f)

\* A file is done before the next one is begun.
IndexFile(f) ==
  /\ phase = "walking"
  /\ f \in todo
  /\ \/ /\ patching = {}
        /\ \/ IndexTree(f)
           \/ BinaryDelta(f)
           \/ SkipDelta(f)
           \/ AddedDelta(f)
           \/ DeletedDelta(f)
        /\ DoneWith(f)
     \/ patching \subseteq {f} /\ ModifiedDelta(f)
  /\ UNCHANGED <<repo, commits, target, finalized>>

\* A variant that finalizes the documents the last commit changed.
FinishRunOfChanged ==
  /\ phase = "walking"
  /\ todo = {}
  /\ commits = target
  /\ phase' = "idle"
  /\ index' = [f \in Files |->
                IF index[f].tracked /\ CommitIndex \in index[f].document.doc_modified_commits
                  THEN [index[f] EXCEPT !.document = Finalize(@, CommitIndex)]
                  ELSE index[f]]
  /\ finalized' = commits
  /\ UNCHANGED <<repo, commits, target, todo, patching, left, ever, ignored, lost>>

\* The end of index_history: every document is finalized at the head.
FinishRun ==
  /\ phase = "walking"
  /\ todo = {}
  /\ commits = target
  /\ phase' = "idle"
  /\ index' = [f \in Files |->
                IF index[f].tracked
                  THEN [index[f] EXCEPT !.document = Finalize(@, CommitIndex)]
                  ELSE index[f]]
  /\ finalized' = commits
  /\ UNCHANGED <<repo, commits, target, todo, patching, left, ever, ignored, lost>>

(***************************************************************************)
(* An error of git2 leaves index_history early; a caught panic leaves the  *)
(* same way.  In the first run either ends the process, which starts again *)
(* with nothing; later the commits recorded so far stay recorded.          *)
(***************************************************************************)
AbandonRun ==
  /\ MayFail
  /\ phase \in {"walking", "panicked"}
  /\ patching = {}
  /\ phase' = "idle"
  /\ todo' = {}
  /\ IF finalized = 0
       THEN /\ commits' = 0
            /\ index' = [f \in Files |-> Untracked]
            /\ ever' = [w \in Words |-> {}]
            /\ ignored' = {}
            /\ lost' = {}
       ELSE /\ lost' = lost \cup todo
            /\ UNCHANGED <<commits, index, ever, ignored>>
  /\ UNCHANGED <<repo, target, patching, left, finalized>>

Next ==
  \/ \E tree \in [Files -> Contents] : Commit(tree)
  \/ StartRun
  \/ RecordCommit
  \/ \E f \in Files : IndexFile(f)
  \/ FinishRun
  \/ AbandonRun

Spec == Init /\ [][Next]_vars

-----------------------------------------------------------------------------
(* Properties.                                                             *)

\* The lines of f that the index has caught up with: amid a delta, the old ones
\* before the boundary and the new ones after it.
Applied(f) == IF f \in todo THEN commits - 1 ELSE commits

CurrentLines(f) ==
  IF f \in patching
    THEN SubSeq(PrevTree[f].lines, 1, left[1])
           \o SubSeq(Tree[f].lines, left[2] + 1, Len(Tree[f].lines))
  ELSE IF Applied(f) = 0 THEN <<>> ELSE repo[Applied(f)][f].lines

\* Files that are not ignored, and that the index holds as git shows them.
Searchable == Files \ (ignored \cup lost)

HasWord(f, w, c) == w \in WordsIn(repo[c + 1][f].lines)

Bits(f, w) == IndexOf(index[f].document, w).commit_inclutivity

TypeOK ==
  /\ Len(repo) <= MaxCommits /\ \A c \in DOMAIN repo : repo[c] \in [Files -> Contents]
  /\ commits \in 0..Len(repo) /\ target \in 0..Len(repo)
  /\ finalized \in 0..commits
  /\ phase \in {"idle", "walking", "panicked"}
  /\ patching = {} \/ \E f \in todo : patching = {f}
  /\ left \in Nat \X Nat
  /\ todo \subseteq Files /\ ignored \subseteq Files /\ lost \subseteq Files
  /\ ever \in [Words -> SUBSET Files]
  /\ \A f \in Files :
       /\ TrackerShape(index[f].tracker, 0..(MaxCommits - 1))
       /\ DOMAIN index[f].document.words \subseteq Words
       /\ index[f].document.doc_modified_commits \subseteq 0..(commits - 1)

(***************************************************************************)
(* Hunk by hunk, the tracker follows the file and each word's history      *)
(* holds exactly the keys of the lines that now contain it, whatever mix   *)
(* of additions, deletions, removals of the file and re-additions led      *)
(* there (index_git_delta, add_lines, delete_lines, add/remove_words).     *)
(***************************************************************************)
HistoryIsBlame ==
  \A f \in Searchable :
    LET lines == CurrentLines(f)
        blame == Blame(index[f].tracker)
    IN  /\ Len(blame) = Len(lines)
        /\ \A w \in Words :
             IndexOf(index[f].document, w).word_history =
               {blame[i] : i \in {j \in DOMAIN lines : w \in lines[j]}}

(***************************************************************************)
(* No two lines of a file share a key, so that removing the keys of a      *)
(* deleted line never removes a word from another line (remove_words).     *)
(***************************************************************************)
KeysAreUnique ==
  \A f \in Searchable : IsInjective(Blame(index[f].tracker))

(***************************************************************************)
(* The word lookup never skips a file and never sends a search to a file   *)
(* without the word in its document: word_to_file_id_ever_contained and    *)
(* the documents' word maps are updated apart but say the same.            *)
(***************************************************************************)
LookupMatchesDocuments ==
  \A f \in Files, w \in Words :
    f \in ever[w] <=> w \in DOMAIN index[f].document.words

(***************************************************************************)
(* remove_document unwraps the last bit of every live word: a word with    *)
(* history always has one.                                                 *)
(***************************************************************************)
LiveWordsHaveBits ==
  \A f \in Files, w \in Words :
    IndexOf(index[f].document, w).word_history # {} => Bits(f, w) # {}

(***************************************************************************)
(* A search only looks at commits in doc_modified_commits: every commit at *)
(* which a file's words changed is there.                                  *)
(***************************************************************************)
ChangesAreMarked ==
  \A f \in Searchable : \A c \in 1..(Applied(f) - 1) :
    repo[c + 1][f].lines # repo[c][f].lines
      => c \in index[f].document.doc_modified_commits

(***************************************************************************)
(* A commit that brings a line into a file is one that searches look at,   *)
(* and has the bit of each word of the line, also of words the file had in *)
(* other lines: searches for the line need no bit that is filled in later  *)
(* (add_new_lines, add_words).                                             *)
(***************************************************************************)
NewLinesAreFound ==
  \A f \in Searchable : \A c \in 0..(Applied(f) - 1) :
    \A line \in Range(repo[c + 1][f].lines) :
      c = 0 \/ line \notin Range(repo[c][f].lines) =>
        /\ c \in index[f].document.doc_modified_commits
        /\ \A w \in line : c \in Bits(f, w)

(***************************************************************************)
(* document.rs:124, of a word that has just left the document: commit_index*)
(* - 1 is the last time that the document contained it.  So the commit     *)
(* before a word disappears is in the word's bitmap.                       *)
(***************************************************************************)
LastContainedCommitRecorded ==
  phase = "idle" =>
    \A f \in Searchable, w \in Words : \A c \in 1..(finalized - 1) :
      HasWord(f, w, c - 1) /\ ~HasWord(f, w, c) => c - 1 \in Bits(f, w)

(***************************************************************************)
(* The index keeps the promise of HistoryIndex: commits appear all at once *)
(* when a run completes, and what was searchable before stays as it was.   *)
(***************************************************************************)
Promise ==
  INSTANCE HistoryIndex WITH
    contents <- [c \in DOMAIN repo |-> [f \in Files |-> WordsIn(repo[c][f].lines)]],
    head     <- finalized,
    found    <- [f \in Files |-> [w \in Words |-> Bits(f, w) \cap 0..(finalized - 1)]],
    opaque   <- ignored \cup lost

KeepsPromise == Promise!Spec
=============================================================================
