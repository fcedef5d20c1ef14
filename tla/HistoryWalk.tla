---------------------------- MODULE HistoryWalk ----------------------------
(***************************************************************************)
(* Which commits and files a run of the indexer visits, and what survives  *)
(* the process (index_history and the callbacks of index_diff in           *)
(* crep-indexer/src/index/git_indexer.rs, git_index_serialization.rs, and  *)
(* how the command line and the server use them).                          *)
(*                                                                         *)
(* HEAD may be moved to any commit, and a commit may merge others, so that *)
(* history branches and joins.  The content of a file is one value, and so *)
(* are the hunks that change it: what they do to its lines is GitIndexer's.*)
(* One process is up at a time; the command line indexes and saves, the    *)
(* server loads, indexes on request and never saves.                       *)
(***************************************************************************)
EXTENDS Integers, Sequences, SequencesExt, FiniteSets

CONSTANTS
  Paths,       \* the paths that occur
  Texts,       \* contents of text files that have lines
  Marked,      \* those of them with what looks like a byte order mark
  Trees,       \* the trees that occur, of [path -> content]
  MaxCommits,  \* bound: commits made
  MaxRecorded, \* bound: commits recorded in one index
  MayFail      \* whether a run may end early with an error

Absent == "absent"
Empty == "empty"       \* a file without lines
Binary == "binary"
Garbled == "garbled"   \* hunks were applied to lines they were not made for

ASSUME WalkAssumption ==
  /\ IsFiniteSet(Paths)
  /\ {Absent, Empty, Binary, Garbled} \cap Texts = {}
  /\ Marked \subseteq Texts
  /\ Trees \subseteq [Paths -> Texts \cup {Absent, Empty, Binary}]
  /\ MaxCommits \in Nat /\ MaxRecorded \in Nat /\ MayFail \in BOOLEAN

VARIABLES
  graph,    \* commits as [tree, line, past]: line is the commit and its first
            \* parents, past the commit and all its ancestors
  head,     \* the commit HEAD names
  process,  \* "down", "walking", "diffing", "ready", "saving" or "done"
  server,   \* whether the process is the server
  memory,   \* the GitIndexer of the process
  walk,     \* commits the run has not visited yet
  diff,     \* the state of the callbacks of one index_diff
  target,   \* HEAD when the last run started
  saved     \* the index file: [state |-> "none", "torn" or "whole", index]

walkVars == <<graph, head, process, server, memory, walk, diff, target, saved>>

-----------------------------------------------------------------------------
(* The indexer's tables.                                                   *)

EmptyMap == [x \in {} |-> x]

MapTo(f, k, v) == [x \in DOMAIN f \cup {k} |-> IF x = k THEN v ELSE f[x]]

\* GitIndexer::new.  `lost` holds paths of changes never applied (not in the code).
NewMemory ==
  [commit_index_to_commit_id |-> <<>>,
   commit_id_to_commit_index |-> EmptyMap,
   file_id_to_path           |-> <<>>,
   file_name_to_id           |-> EmptyMap,
   contents                  |-> EmptyMap,
   ignored                   |-> {},
   lost                      |-> {}]

\* What the index file holds: not the tables that can be rebuilt.
ToSaved(m) ==
  [commit_index_to_commit_id |-> m.commit_index_to_commit_id,
   file_id_to_path           |-> m.file_id_to_path,
   contents                  |-> m.contents,
   ignored                   |-> m.ignored]

\* A variant that keeps the first of several places.
FirstPlace(s, x) == (CHOOSE i \in DOMAIN s : s[i] = x /\ \A j \in DOMAIN s : s[j] = x => i <= j) - 1

\* Where x is in s, counted from 0; the last place if there are several, as when
\* pairs are collected into a map.
LastPlace(s, x) == (CHOOSE i \in DOMAIN s : s[i] = x /\ \A j \in DOMAIN s : s[j] = x => j <= i) - 1

PlacesIn(s) == [x \in {s[i] : i \in DOMAIN s} |-> LastPlace(s, x)]

\* from_saved
FromSaved(s) ==
  [commit_index_to_commit_id |-> s.commit_index_to_commit_id,
   commit_id_to_commit_index |-> PlacesIn(s.commit_index_to_commit_id),
   file_id_to_path           |-> s.file_id_to_path,
   file_name_to_id           |-> PlacesIn(s.file_id_to_path),
   contents                  |-> s.contents,
   ignored                   |-> s.ignored,
   lost                      |-> {}]

RecordIn(m, c) ==
  [m EXCEPT !.commit_index_to_commit_id = Append(@, c),
            !.commit_id_to_commit_index = MapTo(@, c, Len(m.commit_index_to_commit_id))]

\* get_file_id_insert_if_missing: a new file's id is the number of files with one.
WithId(m, p) ==
  IF p \in DOMAIN m.file_name_to_id THEN m
  ELSE [m EXCEPT !.file_name_to_id = MapTo(@, p, Cardinality(DOMAIN @)),
                 !.file_id_to_path = Append(@, p)]

ContentOf(m, id) == IF id \in DOMAIN m.contents THEN m.contents[id] ELSE Absent

IndexedContent(m, p) ==
  IF p \in DOMAIN m.file_name_to_id THEN ContentOf(m, m.file_name_to_id[p]) ELSE Absent

\* All the index can know of a file: its lines.
LinesOf(content) == IF content = Empty THEN Absent ELSE content

LastRecorded(m) == m.commit_index_to_commit_id[Len(m.commit_index_to_commit_id)]

-----------------------------------------------------------------------------
(* One commit: index_tree for the first, index_diff for the others.        *)

\* index_tree: a file that seems to have a byte order mark is left out, text or not.
\* Of the binary files without one, `decoded` are valid UTF-8 and indexed as text, and
\* `opaque` are not, and ignored.  Files get ids in the order of the tree.
IndexTree(m, tree, opaque, decoded) ==
  LET texts == SetToSeq({p \in Paths : tree[p] \in (Texts \ Marked) \cup {Empty}} \cup decoded)
  IN  [m EXCEPT !.file_id_to_path = texts,
                !.file_name_to_id = PlacesIn(texts),
                !.contents = [id \in {i - 1 : i \in DOMAIN texts} |-> LinesOf(tree[texts[id + 1]])],
                !.ignored = opaque]

\* No callback has been called.  The current file, the hunks git has yet to report
\* for it and those gathered are each nothing, <<>>, or something, <<x>>.
NewDiff(old, new) ==
  [old |-> old, new |-> new, rest |-> {p \in Paths : old[p] # new[p]},
   current |-> <<>>, due |-> <<>>, pending |-> <<>>]

NoDiff == [old |-> EmptyMap, new |-> EmptyMap, rest |-> {}, current |-> <<>>, due |-> <<>>, pending |-> <<>>]

Status(old, new) == IF old = Absent THEN "added" ELSE IF new = Absent THEN "deleted" ELSE "modified"

\* The hunks that git reports between two contents.
HunksBetween(old, new) ==
  IF LinesOf(old) = LinesOf(new) THEN <<>> ELSE << [old |-> LinesOf(old), new |-> LinesOf(new)] >>

\* What applying the hunk makes of lines; only the deletion of a file ignores them.
\* (Where it garbles them, an assertion may fail instead: see GitIndexer.)
Applied(hunk, status, content) ==
  IF status = "deleted" THEN Absent ELSE IF content = hunk.old THEN hunk.new ELSE Garbled

\* index_git_delta: the gathered hunks are applied to the current file.
Flush(m, d) ==
  IF d.pending = <<>> THEN m
  ELSE LET file == d.current[1]
       IN  [m EXCEPT !.contents =
              MapTo(@, file.id, Applied(d.pending[1], file.status, ContentOf(m, file.id)))]

\* The current file from p's file callback on: none if p is ignored.
Current(m, d, p) ==
  IF p \in m.ignored THEN <<>>
  ELSE << [id |-> WithId(m, p).file_name_to_id[p], status |-> Status(d.old[p], d.new[p])] >>

Named(m, p) == IF p \in m.ignored THEN m ELSE WithId(m, p)

\* A variant that makes p the current file before it applies the gathered hunks.
TextFileFirst(m, d, p) ==
  IF p \in m.ignored THEN m ELSE Flush(Named(m, p), [d EXCEPT !.current = Current(m, d, p)])

\* The file callback for a file that is not binary, as the tables after it: first the
\* hunks gathered for the file before it are applied.
TextFile(m, d, p) == Named(Flush(m, d), p)

-----------------------------------------------------------------------------
(* The repository.                                                         *)

\* A commit on top of HEAD, which may merge commits that are not in its past.
CommitTo(tree, merged) ==
  LET c == Len(graph) + 1
  IN  /\ c <= MaxCommits
      /\ tree # graph[head].tree \/ merged # {}
      /\ graph' = Append(graph,
           [tree |-> tree,
            line |-> graph[head].line \cup {c},
            past |-> graph[head].past \cup {c} \cup UNION {graph[d].past : d \in merged}])
      /\ head' = c
      /\ UNCHANGED <<process, server, memory, walk, diff, target, saved>>

\* git reset, git checkout: HEAD names another commit.
MoveHead(c) ==
  /\ head' = c
  /\ UNCHANGED <<graph, process, server, memory, walk, diff, target, saved>>

-----------------------------------------------------------------------------
(* Processes and runs.                                                     *)

\* The head of index_history: the walk goes from HEAD down its first parents, and
\* hides the last commit indexed with all its ancestors, those it merged included.
Unvisited(m) ==
  graph[head].line \ (IF m.commit_index_to_commit_id = <<>> THEN {} ELSE graph[LastRecorded(m)].past)

StartRun(m) ==
  /\ Len(m.commit_index_to_commit_id) + Cardinality(Unvisited(m)) <= MaxRecorded
  /\ walk' = Unvisited(m)
  /\ target' = head
  /\ process' = "walking"
  /\ UNCHANGED <<graph, head, diff, saved>>

\* build_index without a saved index.
IndexAfresh ==
  /\ process = "down"
  /\ memory' = NewMemory
  /\ server' = FALSE
  /\ StartRun(memory')

\* GitIndexSerialization::load: a file that was not written to its end does not decode.
Loadable == saved.state = "whole"

\* build_index with a saved index and -c.
LoadAndContinue ==
  /\ process = "down"
  /\ Loadable
  /\ memory' = FromSaved(saved.index)
  /\ server' = FALSE
  /\ StartRun(memory')

\* build_index with a saved index, without -c; the start of the server.
Load ==
  /\ process = "down"
  /\ Loadable
  /\ memory' = FromSaved(saved.index)
  /\ server' \in BOOLEAN
  /\ target' = 0
  /\ process' = "ready"
  /\ UNCHANGED <<graph, head, walk, diff, saved>>

\* do_incremental_index, for a signal that names any commit HEAD has been at.
Reindex(signal) ==
  /\ process = "ready"
  /\ server
  /\ signal \notin DOMAIN memory.commit_id_to_commit_index
  /\ StartRun(memory)
  /\ UNCHANGED <<server, memory>>

\* A variant without REVERSE.
IsNewest(c) == \A d \in walk : d <= c

\* TOPOLOGICAL and REVERSE: parents come before their children, and numbers grow with them.
IsNext(c) == \A d \in walk : c <= d

\* One turn of the loop of index_history, up to the callbacks of index_diff.
RecordCommit ==
  /\ process = "walking"
  /\ \E c \in walk :
       /\ IsNext(c)
       /\ walk' = walk \ {c}
       /\ LET recorded == RecordIn(memory, c)
              binary   == {p \in Paths : graph[c].tree[p] = Binary}
          IN  IF memory.commit_index_to_commit_id = <<>>
              THEN /\ \E opaque \in SUBSET binary : \E decoded \in SUBSET (binary \ opaque) :
                        memory' = IndexTree(recorded, graph[c].tree, opaque, decoded)
                   /\ UNCHANGED <<process, diff>>
              ELSE /\ memory' = recorded
                   /\ diff' = NewDiff(graph[LastRecorded(memory)].tree, graph[c].tree)
                   /\ process' = "diffing"
  /\ UNCHANGED <<graph, head, server, target, saved>>

\* The file callback.  A binary file is ignored from now on and leaves everything
\* else as it is, the current file and its hunks included.
FileCallback(p) ==
  /\ process = "diffing"
  /\ p \in diff.rest
  /\ diff.due = <<>>
  /\ IF Binary \in {diff.old[p], diff.new[p]}
     THEN /\ memory' = [memory EXCEPT !.ignored = @ \cup {p}]
          /\ diff' = [diff EXCEPT !.rest = @ \ {p}]
     ELSE /\ memory' = TextFile(memory, diff, p)
          /\ diff' = [diff EXCEPT !.rest = @ \ {p}, !.pending = <<>>,
                                  !.due = HunksBetween(diff.old[p], diff.new[p]),
                                  !.current = Current(memory, diff, p)]
  /\ UNCHANGED <<graph, head, process, server, walk, target, saved>>

\* The hunk and line callbacks of one file.
HunkCallback ==
  /\ process = "diffing"
  /\ diff.due # <<>>
  /\ diff' = [diff EXCEPT !.due = <<>>, !.pending = IF diff.current = <<>> THEN @ ELSE diff.due]
  /\ UNCHANGED <<graph, head, process, server, memory, walk, target, saved>>

\* The end of index_diff.
EndDiff ==
  /\ process = "diffing"
  /\ diff.rest = {} /\ diff.due = <<>>
  /\ memory' = Flush(memory, diff)
  /\ diff' = NoDiff
  /\ process' = "walking"
  /\ UNCHANGED <<graph, head, server, walk, target, saved>>

\* The end of index_history.
FinishRun ==
  /\ process = "walking"
  /\ walk = {}
  /\ process' = "ready"
  /\ UNCHANGED <<graph, head, server, memory, walk, diff, target, saved>>

\* The paths whose change the callbacks have not applied yet.
Unapplied ==
  diff.rest \cup
  {p \in DOMAIN memory.file_name_to_id :
     /\ diff.current # <<>>
     /\ diff.due # <<>> \/ diff.pending # <<>>
     /\ memory.file_name_to_id[p] = diff.current[1].id}

Forget ==
  /\ process' = "down"
  /\ memory' = NewMemory
  /\ server' = FALSE
  /\ walk' = {}
  /\ diff' = NoDiff
  /\ target' = 0

\* The process ends, whatever it is doing: it was done, or it was killed.  Only the
\* command line gets to an error it does not handle, by unwrap (Fail).
Exit == process # "down" /\ Forget /\ UNCHANGED <<graph, head, saved>>

\* A variant in which the command line, too, goes on with what it has.
FailAndGoOn ==
  /\ MayFail
  /\ process \in {"walking", "diffing"}
  /\ process' = "ready"
  /\ memory' = [memory EXCEPT !.lost = @ \cup Unapplied]
  /\ walk' = {}
  /\ diff' = NoDiff
  /\ target' = 0
  /\ UNCHANGED <<graph, head, server, saved>>

\* An error of git, passed on by ?: the command line ends by an unwrap; the server
\* goes on with what it has.
Fail ==
  /\ MayFail
  /\ process \in {"walking", "diffing"}
  /\ \/ ~server /\ Forget
     \/ /\ server
        /\ process' = "ready"
        /\ memory' = [memory EXCEPT !.lost = @ \cup Unapplied]
        /\ walk' = {}
        /\ diff' = NoDiff
        /\ target' = 0
        /\ UNCHANGED server
  /\ UNCHANGED <<graph, head, saved>>

-----------------------------------------------------------------------------
(* The index file (encode_to_file).                                        *)

\* File::create empties the file.
BeginSave ==
  /\ process = "ready" /\ ~server
  /\ process' = "saving"
  /\ saved' = [state |-> "torn"]
  /\ UNCHANGED <<graph, head, server, memory, walk, diff, target>>

\* The file is written; or the last writes fail when the BufWriter is dropped, which
\* no one hears of; or there is no file to save to.
EndSave ==
  /\ process' = "done"
  /\ \/ process = "saving" /\ saved' \in {[state |-> "whole", index |-> ToSaved(memory)], saved}
     \/ process = "ready" /\ ~server /\ saved' = saved
  /\ UNCHANGED <<graph, head, server, memory, walk, diff, target>>

-----------------------------------------------------------------------------
(* The specification.                                                      *)

Init ==
  /\ graph \in {<<[tree |-> t, line |-> {1}, past |-> {1}]>> : t \in Trees}
  /\ head = 1
  /\ process = "down" /\ server = FALSE /\ memory = NewMemory
  /\ walk = {} /\ diff = NoDiff /\ target = 0
  /\ saved = [state |-> "none"]

RepositoryStep ==
  \/ \E t \in Trees : \E merged \in SUBSET (DOMAIN graph \ graph[head].past) : CommitTo(t, merged)
  \/ \E c \in DOMAIN graph : MoveHead(c)

RunStep ==
  \/ IndexAfresh \/ LoadAndContinue \/ Load \/ (\E c \in DOMAIN graph : Reindex(c))
  \/ RecordCommit \/ (\E p \in Paths : FileCallback(p)) \/ HunkCallback \/ EndDiff \/ FinishRun
  \/ Fail \/ BeginSave \/ EndSave

WalkNext == RepositoryStep \/ RunStep \/ Exit

WalkSpec == Init /\ [][WalkNext]_walkVars

-----------------------------------------------------------------------------
(* Properties.                                                             *)

\* A commit leads to the place of its last record.
CommitsAgree(places, index) ==
  /\ DOMAIN index = {places[i] : i \in DOMAIN places}
  /\ \A c \in DOMAIN index :
       /\ index[c] + 1 \in DOMAIN places
       /\ places[index[c] + 1] = c
       /\ \A j \in DOMAIN places : places[j] = c => j <= index[c] + 1

\* Paths and ids are each other's inverses.
FilesAgree(paths, ids) ==
  /\ DOMAIN ids = {paths[i] : i \in DOMAIN paths}
  /\ \A p \in DOMAIN ids :
       /\ ids[p] + 1 \in DOMAIN paths
       /\ \A j \in DOMAIN paths : paths[j] = p <=> j = ids[p] + 1

Tables(m) ==
  /\ CommitsAgree(m.commit_index_to_commit_id, m.commit_id_to_commit_index)
  /\ FilesAgree(m.file_id_to_path, m.file_name_to_id)

\* The recorded tables and the rebuilt ones agree, after a load too: a commit leads
\* to the place of its last record, and paths and ids are each other's inverses
\* (the two tables of commits and the two of files, git_indexer.rs 35-53).
TablesAgree == Tables(memory)

\* The commits that m's commits brought in by merges: hide() took them for indexed.
MergedIn(g, m) == UNION {g[c].past \ g[c].line : c \in DOMAIN m.commit_id_to_commit_index}

\* The files that the first commit of m's index had with a byte order mark.
LeftOut(g, m) ==
  {p \in Paths : /\ m.commit_index_to_commit_id # <<>>
                 /\ g[m.commit_index_to_commit_id[1]].tree[p] \in Marked}

\* The files m vouches for: neither ignored, nor of a failed run, nor left out at first.
Known(g, m) == Paths \ (m.ignored \cup m.lost \cup LeftOut(g, m))

\* What the index may hold of a file.  A binary file is in it if it was in the first
\* commit and seemed to be text.
Held(content) == IF content = Binary THEN {Absent, Binary} ELSE {LinesOf(content)}

\* After a run that came to its end, HEAD as it was when the run started is indexed
\* with all its first parents, wherever HEAD was moved between runs, whatever runs
\* failed and whatever the process was restarted from; except for commits that an
\* indexed commit merged, which are never indexed, were HEAD moved to them or not
\* (index_history 134-172).
HeadIsIndexed ==
  process \in {"ready", "saving", "done"} /\ target # 0 =>
    graph[target].line \subseteq DOMAIN memory.commit_id_to_commit_index \cup MergedIn(graph, memory)

\* Between commits, the index holds for each file what it is in the commit recorded
\* last, even if history was rewritten or merged below it; ignored files aside, those
\* of a failed run, and those with a byte order mark in the first commit, which
\* index_tree leaves out without ignoring them.  (The hunks gathered in one callback
\* are applied in a later one, with binary and ignored files in between: index_diff
\* 268-416, index_tree 458-491.)
ContentFollowsWalk ==
  process \in {"walking", "ready", "saving", "done"} /\ memory.commit_index_to_commit_id # <<>> =>
    \A p \in Known(graph, memory) :
      IndexedContent(memory, p) \in Held(graph[LastRecorded(memory)].tree[p])

\* What a whole index file holds is the result of a run without failure: all first
\* parents of each commit in it that none of them merged, and the files of the last
\* one, except those with a byte order mark in the first (build_index in
\* crep-indexer-cli/src/main.rs 82-121).
SavedIndexIsWhole ==
  saved.state = "whole" =>
    LET m == FromSaved(saved.index)
    IN  /\ m.commit_index_to_commit_id # <<>>
        /\ \A c \in DOMAIN m.commit_id_to_commit_index :
             graph[c].line \subseteq DOMAIN m.commit_id_to_commit_index \cup MergedIn(graph, m)
        /\ \A p \in Known(graph, m) :
             IndexedContent(m, p) \in Held(graph[LastRecorded(m)].tree[p])
=============================================================================
