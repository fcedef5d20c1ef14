# A TLA+ model of crep

Crep indexes the whole history of a git repository so that it can be searched
word by word, commit by commit. This directory models it from the diffs of git to
the lines a search shows: the walk over the commits, the bookkeeping that turns
diffs into a searchable history, the searches over it, the server that keeps an
index up to date while it answers requests, and the terminal application. TLC
checks the models on small instances; TLAPS proves, for every size, what the line
tracker, the indexer, the walk, the searches, the application, the debouncer and the
server rely on.

Paths are relative to `src/`; those without a crate are in `crep-indexer/src/`.
Modules are checked with `tlc -config <cfg> <module>`, proofs with
`tlapm <module>Proofs.tla`.

## The system

| Part | State | Operations | What is hard |
|---|---|---|---|
| Line tracker, `git/diff.rs` | chunks of lines, each from one commit | `add_lines`, `delete_lines`, `delete_all` | chunk boundaries, unsigned arithmetic, long edit sequences |
| Document, `index/document.rs` | per word: keys of its lines, bitmap of commits | `add_words`, `remove_words`, `remove_document`, `finalize` | the bitmap is filled lazily, by ranges |
| Git indexer, `index/git_indexer.rs` | indexed commits, trackers, documents, word lookup, file ids, ignored paths | `index_history` and what it calls | callbacks and delayed flushes, rewritten and merged history, increments, errors half-way |
| Index storage, `index/git_index_serialization.rs` | a file | `save`, `load` | a crash while saving, tables that are rebuilt |
| Index view, `index/git_index.rs` | none | references for the searcher | made when a run completes, used after a run that failed |
| Tokenizer, `trigram-hash`, `tokenizer/` | none | lines to trigrams | boundaries of multi-byte characters, short lines |
| Search, `search/git_searcher.rs`, `search/core/search_docs.rs` | none | words or regex to candidate files and commits | bitmaps read as if they had no gaps |
| Regex candidates, `search/regex_search.rs`, `permutation.rs` | none | words a regex requires | soundness: no match without the words |
| Result conversion, `search/result/` | none | candidate to first and last match | candidates for commits without the file |
| Search endpoint, `crep-server/server/src/api/search.rs` | per request: guard, page, results | `search` | shares index and cache with everyone |
| Result cache, `crep-server/server/src/search/search_cache.rs` | LRU of candidates and hits | `find`, `put_raw_result`, `put_search_results`, evict | three separate steps of one request |
| Reindexer, `crep-server/server/src/indexer/` | the index behind a read-write lock, a channel | `request_reindex`, `handle_re_index`, `do_incremental_index` | ordering of unlock and eviction, failures |
| Watcher and debouncer, `crep-server/server/src/reindex_notify/` | a flag, at most one timer task | file system callback, timer | notifications that arrive while a task finishes |
| Ignore checker, `reindex_notify/ignore_checker.rs` | rules | pattern matching | not used by the server at this commit |
| Command line tool, `crep-indexer-cli` | screen state, two threads, two channels | index, save, search, keys | keys that race results, threads that panic |
| Web client, `crep-server/web` | a form | one request | |

The indexer owns trackers and documents: every hunk of a diff goes to the file's
tracker first, which answers which (commit, line) keys are gone, and then to the
document. The command line indexes, saves and goes on to its application, which
searches in a thread of its own. The server owns one indexer behind a `tokio` lock.
Requests read under a read guard; the reindexer, one task, takes the write lock for
each signal it receives from the webhook or the debouncer; the result cache is a
mutex of its own. The debouncer is called back from an operating system thread.

## Modules

| Module | Models | Notes |
|---|---|---|
| `FileDiffTracker` | `diff.rs`, every function, as operators on a tracker | pure, no variables |
| `TrackedFile` | one tracker under every legal sequence of calls | refines `BlamedFile` |
| `BlamedFile` | abstract: a file is a sequence of line keys | insert here, cut there |
| `LineSequences` | inserting and cutting lines, the keys of new lines | pure; what `BlamedFile` and the proofs say of files |
| `Document` | `document.rs`, every operation | pure; `InsertRange` is roaring's, end excluded |
| `GitIndexer` | `index_tree`, `index_diff`, `index_git_delta`, ...: what the hunks of a file do to tracker, document and lookup | refines `HistoryIndex` |
| `HistoryIndex` | abstract: what an incremental index promises | what is published stays, nothing false is found, introductions and the head are found |
| `RegexCandidates` | `regex_search.rs`, `permutation.rs`, `trigram-hash`; what an expression matches | pure; candidates are sets, since their order decides nothing; `Depth` says that expressions are finite trees |
| `GitSearcher` | `git_searcher.rs`, `search_docs.rs` | pure |
| `SearchResult` | `search/result/` | pure |
| `GitSearch` | the indexer and the searches together | extends `GitIndexer` and `SearchResult` |
| `HistoryWalk` | `index_history` over history that branches and merges, the callbacks of `index_diff` one by one, failures, processes, the index file | content of a file is one value |
| `App` | `crep-indexer-cli/src/app.rs`: terminal, loop, search thread | |
| `CommandLine` | `main.rs`: `HistoryWalk` and `App` in one process | refines `HistoryWalk` |
| `LiveIndex` | watcher, debouncer, channel, reindexer | |
| `SearchServer` | search handler, cache, index lock, reindexer | |
| `TrackerProofs`, `IndexerProofs`, `SearchProofs`, `LiveIndexProofs`, `ServerProofs` | theorems about `TrackedFile`, `GitIndexer`, `GitSearch`, `LiveIndex`, `SearchServer` | |
| `CommandLineProofs` | theorems about `HistoryWalk` and `CommandLine` | |
| `TrackerLemmas`, `IndexerLemmas` | what the operators of tracker and document return | for the proofs |
| `MC*` | values of the constants for TLC | |

Operators whose names begin or end like a faulty version of another (`DrainToFirst`,
`EvictUnlessInUse`, `WakeAndClear`, ...) and whose comment says "a variant" are not part
of the model: they are bugs one could make there, and show that the properties notice.

### Tracker

`commit_line_end` and `commit_indexes` are the two vectors; chunk `k` here is index
`k - 1` there. `FindChunk` gives the answer of the binary search (its `Ok` case is
the chunk that ends at the line, so the line starts the next one). The branches of
`add_lines` are `AppendChunk`, `InsertChunk` and `SplitChunk`; of `delete_lines`,
`CutChunk` ("case #2" in the source) and `ShrinkChunks`. `Blame` reads the tracker
line by line.

### Git indexer: the lines of a file

In `GitIndexer`, `repo` is the first-parent history in walk order, one tree per
commit. A run is `StartRun`, then per commit `RecordCommit` (the commit is recorded
before its diff is applied) and one `IndexFile` per file, then `FinishRun`, which
finalizes every document. `IndexFile` is one of `IndexTree` (the first commit),
`BinaryDelta`, `AddedDelta`, `DeletedDelta`, `ModifiedDelta` or `SkipDelta`. The
hunks of a modified file are applied one per step, last to first as in the code:
`patching` is the file amid its hunks, and `left` a pair of places in the old and the
new file, before which everything is still to come. Which hunks these are is up to
git: lines in front of `left` may be kept if they are equal (`MayKeep`), and a hunk
is whatever lies between two kept lines (`HunkBetween`); `MoreHunks` says whether one
is left. A line is the set of words it contains. A hunk that would panic abandons the
file and the rest of its hunks (`PanicOver`).
Failed assertions lead to `phase = "panicked"`, and with `MayFail` a run may end
early; what it did stays, and files whose change was not applied are in `lost`,
which is no state of the code but says where the index may be wrong. A first run that
fails ends the process, which starts again with nothing.

A "bom" file is a text file that starts with a byte order mark: git treats it as
text, and `is_utf8_document` rejects it, so `index_tree` leaves it out.
`MaxBomLines` bounds such files apart from others. Of a file that git calls binary
(`IsText` is git's notion: a NUL byte decides it) the first commit makes one of three
things: left out when it holds the bytes of such a mark, ignored when it is not UTF-8,
and otherwise indexed as text, with any lines.

### Git indexer: the walk, and what survives a process

In `HistoryWalk`, `graph` holds two sets for each commit: `line`, itself and its first
parents, and `past`, itself and all its ancestors. `CommitTo` makes a commit on top of
`head`, which may merge any others, and `head` may be moved to any commit between two
steps, so that history branches, joins and is rewritten. A run (`StartRun`) goes down
the first parents of `head` (`simplify_first_parent`), but leaves out *all* ancestors
of the commit recorded last (`hide`), and visits the rest oldest first (`Unvisited`).
The two do not match: what a merge brought in is hidden after it, though no run has
shown it. HEAD moved to such a commit, or to one on top of it, is then indexed without
it. `MergedIn` names these commits, and `HeadIsIndexed` and `SavedIndexIsWhole` except
them and no others. That the ancestors are all found rests on git2, which looks at
commits in the order of their dates and gives up a few commits after the last that it
could show: the model takes it that dates grow from parent to child.

`RecordCommit` takes the next one and, unless it is the very first,
starts the diff against the tree of the commit recorded before, be that its parent or
not. `diff` is the state of `index_diff` while libgit2 calls back: `FileCallback`
flushes the hunks gathered for the file before and makes its own file the current
one, unless its file is binary or ignored, which leave everything as it is;
`HunkCallback` gathers; `EndDiff` flushes what is left. A hunk is applied to whatever
file is current then: applied to content it was not made for, the result is
`Garbled`. The first commit (`IndexTree`) leaves out, without ignoring them, the files
that seem to have a byte order mark: of text files those in `Marked`, of binary ones
any. Later changes of such a file are then applied to nothing, and the content
properties except it for good (`LeftOut`). A binary file that is valid UTF-8 is
indexed as text there, so that what the index holds of a binary file is its content or
nothing (`Held`).

`memory` is the `GitIndexer` with all its tables, `saved` the index file. Saving is
two steps, since `File::create` empties the file (`BeginSave`) before it is written
(`EndSave`), and the write may be incomplete without anyone hearing of it. A torn
file does not load. `FromSaved` rebuilds the tables that are not in the file.
`process` and `server` say what is up: the command line indexes afresh or continues,
saves and ends, and a failed run ends it; the server loads, indexes on request,
goes on after a failed run and never saves. `Exit` may happen anywhere: a killed
process is one that ended there.

The two models of the indexer share the code but not the question. `GitIndexer` looks
into the lines of one file and takes it as given that the hunks gathered for a file
are its own and are applied to it one after the other; `HistoryWalk` shows that the
callbacks, whatever their order, come to that.

### Search

A candidate of an expression is a list of trigrams that a line must contain to match
by it. `RegexCandidates` says how candidates of parts combine, with the code's panics
and refusals as outcomes of their own, and what the expression matches (`Spans`),
character by character, as the reference. A character is narrow or wide
(`WideChars`), since what counts as short is a matter of bytes. `GitSearcher` builds the
candidates of an expression, for which it asks the index which literals occur at all,
and intersects the bitmaps of the documents; `SearchResult` reads the file at the
commits found and cuts out the lines around the first and the last match.

`GitSearch` puts this on top of `GitIndexer`: `all_words` is rebuilt when a run
completes (`CompleteRun`), a query is asked (`Ask`) of every index that can be reached,
also those a failed run has left while the server goes on.

### Command line application

`App` has the loop, the search thread and the terminal. The loop is `Draw`, `Stop`
(after `State::Terminate`), `Receive` with one alternative per key and state, and
`Join` (the scope waits for the thread). The thread is `TakeRequest`, which drains the
channel to the last request, and `SearchDone`, with an outcome fixed per query:
results, nothing, an error or a panic. A panic leaves the lock under which the loop
draws poisoned. `CommandLine` starts it when indexing is done; the process may still
be killed at any time.

### Live index

Events below `.git` are delivered one by one (`DeliverEvent`); one on a watched
path sets the flag and spawns a task if the flag was clear. The task is `Wake`
(reads the head, or panics if the branch is missing), `Send` and `ClearTimer`, as
three steps, since events are delivered on another thread. The reindexer drops a
signal for a commit it has, and otherwise indexes up to the head of the
repository. A run may fail or panic (`MayFail`): the signal is consumed all the same,
and the commit is not indexed, or recorded without its changes, until another signal
comes. `failed` is that signal in the state after the run, and 0 in all others; it is
no state of the code, and lets `SleepingTimerIndexes` except a failure while the signal
waits rather than all behaviours in which one occurs. The watched branch is the one
checked out, and only moves forward. The lock is left to `SearchServer`, which shows
that the reindexer always gets it.

### Search server

A handler is `Arrive` (queue for a read guard), `AcquireRead`, `Find` (cache),
`Search` (on a miss: search, `put_raw_result`, cut the page) and `Convert`
(conversion in `spawn_blocking`, `put_search_results`, response, release). Each is
one access to shared state; what lies between depends only on the handler's own
data and on the index it has locked. The lock is `tokio`'s: waiters are served in
order, so a waiting writer holds back later readers. `DoIncrementalIndex` is one
step because no one else can see the index meanwhile; `Evict` is a step of its own
because the lock is released before it. `Report` is the branch that prints an error
and evicts nothing. Candidates and hits carry the index version
they come from, so that stale ones can be told apart.

## Runs

| Run | Instance | Shows |
|---|---|---|
| `tracker` | 2 commits, files up to 4 lines, trackers up to 3 chunks before an addition | chunk ends always grow; the tracker implements a plain file |
| `history` | 1 file, 1 word, up to 3 lines, 3 commits, binary files, failing runs | several hunks in one diff: `HistoryIsBlame`, `KeysAreUnique`; `KeepsPromise`: what was published stays, and introductions and the head are found; `ChangesAreMarked` |
| `search` | 1 file of up to 2 lines, 2 words that share a line, byte order marks, 3 commits, failing runs, 12 queries | `FirstMatchIsExact`, `HeadMatchIsShown`, `ResultsAreReadable`, `SearchesDoNotPanic`, and what they rest on: `LookupMatchesDocuments`, `LiveWordsHaveBits`, `NewLinesAreFound`, `CandidatesCover` |
| `walk` | 3 paths, 4 trees, 3 commits, indexes of up to 4 records, a file with a byte order mark, failures and kills anywhere | `TablesAgree`, `ContentFollowsWalk`, `SavedIndexIsWhole` |
| `cli` | 2 paths, 2 trees, 4 commits and records, merges of any of them, failures and kills anywhere; 4 keys, queries with each outcome | `HeadIsIndexed`, `SavedIndexIsWhole`; `ShownIsLatest`, `PanicsOnlyAfterSearch`, `QuitExits` |
| `debounce` | 2 timer slots, 3 commits, 2 pending events, the branch comes and goes, runs fail | one task at a time, heads in order; `SleepingTimerIndexes`, `TimerIsCleared` |
| `cache` | 2 handlers, 1 query, 2 pages, 4 versions | `OneVersionPerRequest`, bounds on staleness |
| `cache_exact` | 3 queries, one rejected, 2 pages of 2 sizes, a false positive, no reindexing | `AnswersAreExact` |
| `server_live` | 2 handlers, 2 versions, 2 waiting signals, failures, a cache of one entry | `RequestsAreAnswered`, `SignalsAreIndexed` |

Why the bounds are enough. A tracker operation looks at the first chunk it
touches, the last one and those between; three chunks and an addition that makes
two more give all three roles and neighbours on both sides, and the proofs cover
the rest. Three lines give two hunks with a kept line between them or at either
end. A word's bitmap depends on the last bit, the current commit and the head: three
commits give a gap or a removal and a return, each in an increment of its own, and
the proofs cover longer histories. Files are independent
of each other but for the lookup, which keeps a set of files per word, and for the
order of the callbacks, which `walk` has three paths for: a binary file between two
that change, one that is emptied, one that goes and comes back. Three commits are
a fork, so that history is rewritten, and four records one commit recorded twice. A
merge that matters takes four: a commit, one on each side of the fork, and the merge;
HEAD is then moved to the side that was merged in, and without the exception for
`MergedIn` the run `cli` ends in a violation there. The proofs cover longer
histories. The application runs beside a repository of one
commit (`MaxCommitsWithApp`): it does not touch the repository, which
`CommandLineImplementsWalk` proves. Four keys are two queries and what comes between.
The queries of `search` are one of each kind that the code treats in its own way: one
and two words, short words, narrow and wide, repetition from zero, one and two on,
alternation, a class, a group (which is refused). Its two lines share one word, so
that the line that matches is not the only one with the word. Staleness in the cache
reaches back two updates, so four versions are one more than needed to see it
exceeded. Two handlers suffice for each race listed: one that acts across the
eviction and one that sees the result; the proofs cover any number.

### What disagrees with the source's own words

Each of these runs is expected to find a violation.

| Run | Statement | What the code does |
|---|---|---|
| `last_contained` | document.rs:124: `commit_index - 1` is the last commit that contained the word | the range inserted excludes it |
| `lost_event` | debouncer.rs:14: every change is followed by a check | one delivered between reading the head and clearing the flag is not |
| `poisoned_cache` | crep-server/README.md:34: a search returns what matches | a request in flight during the eviction leaves an entry that hides every hit |

The window of `lost_event` is short (from reading a reference to a store), and a
commit writes several watched files, so that a later event usually repairs it.
`HistoryIndex` therefore promises less than the comments of `document.rs` do: not
every commit that contains a word is found, only those that introduce it, and the
head. Between them, a search finds the first commits that match; it may miss the
last.

Others were met while modelling and have no run of their own. The models contain
most of them, and the properties say where they make an exception for one.

* `commit_inclutivity` ("whether the specific word is included in a given commit",
  document.rs:24) has gaps: adding a word that is present moves its last bit, and the
  commits before it are never filled.
* A query of several words needs all of them at one commit, so that the last commit
  of `last_contained` can be the only one, and is not found (`FirstMatchIsExact`).
* `is_deleted` is set when a file goes and never reset: a file that came back is not
  looked for at the head (`HeadMatchIsShown`).
* After a merge is indexed, the commits of the merged branch count as indexed: if HEAD
  is moved to one of them, it is never recorded (git_indexer.rs:169). `HeadIsIndexed`
  excepts them.
* A file that seems to have a byte order mark (anywhere in its first 8192 bytes,
  check_binary.rs:39) in the first commit is left out without being ignored
  (git_indexer.rs:458). It has no tracker, and changing it fails the assertion at
  git_indexer.rs:663. `ContentFollowsWalk` excepts it.
* A file with a NUL byte that is valid UTF-8 is indexed as text in the first commit and
  ignored, as binary, from its first change on (git_indexer.rs:465, 272).
* A text file that was binary once is ignored, but its document stays. If it still
  has words at the head, a search may name commits without the file; the command line
  unwraps that, and the server answers with an error (`ResultsAreReadable` excepts
  ignored files).
* Repetition is cut at three copies (regex_search.rs:250), which is wrong for more
  copies of alternatives with something on both sides: `w(abc|def){4}y` does not find
  `wabcdefabcdefy`, which has no three copies that fit between its `w` and its `y`.
  `Covered` excepts those, and literals of two characters in three bytes or more,
  which find nothing.
* An empty alternative has no candidate (git_searcher.rs:215): `(?:|a)bb` is searched
  for as `abb`, and a line with `bb` alone is missed (`Covered` excepts empty parts).
* `a*b*` and `(a*)*` panic because they can leave nothing to merge
  (regex_search.rs:285), and `z*foo` where `z` occurs nowhere because the iterator of
  permutation.rs:13 has nothing to pick from.
* Words of fewer than three bytes stand for all indexed words that contain them, and
  the bitmaps of these are intersected where they should be united (search_docs.rs:92).
  After a failed run such a search may panic, since `all_words` is that of the run
  before (`SearchesDoNotPanic` excepts it).
* Words of a query that overlap, or occur twice in it, are never all found on a line
  (single_commit_search_result.rs:48).
* A query of blanks panics in the command line (git_searcher.rs:317); the server
  refuses it.
* HEAD reset to a commit that is indexed already is not noticed by the server
  (index.rs:49).
* After history was rewritten a commit may be recorded twice (`TablesAgree` says which
  record counts).
* `BufWriter` hides write errors when it is dropped (git_index_serialization.rs:55).
* A timer that finds the branch missing panics and is the last one (`Panicked` in
  `LiveIndex`).
* An I/O error while drawing leaves the loop without telling the search thread, and
  the scope waits for it forever (app.rs:219).
* A request in the form documented in crep-server/README.md:34 has no page size; it
  defaults to 0, which selects nothing.

## Fairness

Safety properties need none. `LiveIndex` assumes that events are delivered, that the
timer task takes its next step, and that the reindexer handles its channel: the
first is the watcher's thread, the others are tasks of a runtime that never blocks
them for good. Nothing is assumed of git. `SearchServer` assumes that each request
takes its next step when it can and so does the reindexer; the lock serves waiters
in order, so weak fairness of each suffices. No one has to send requests or signals.
`CommandLine` assumes that the loop and the search thread, two threads of the
operating system, take their next steps, and that a search comes to its end. No one
has to press a key, and `QuitExits` allows for a process that is killed.

## Proofs

All theorems hold for any values of the constants that satisfy the named assumptions
of the modules; none is about a bound.

`TrackerProofs`, for any set of commits:

* `TypeCorrect`: the vectors run in parallel, the ends strictly increase. Strictness
  is what makes the binary search well defined and the unsigned subtractions safe.
* `TrackerImplementsPlainFile`: `Spec => ImplementsPlainFile`, the refinement of
  `BlamedFile`.

The inductive invariant is `TypeOK` itself. The argument: every branch of both
operations replaces a run of chunks by zero, one or two others and shifts the ones
behind, a *splice*. `SpliceShape` shows once that a splice keeps the shape,
`SpliceKeys` says once what it does to the line at each position, and `AddIsSplice`
and `DeleteIsSplice` show that each branch is one (the latter includes that the
saturating subtractions never saturate on a chunk that is kept). `AddBlame` and
`DeleteBlame` draw the conclusion for whole files and `DeletedKeys` for the ranges
returned.

`IndexerProofs`, for any files, words, lines, histories, diffs, increments and
failures:

* `IndexInvariant`: `Spec => []IndexInv`, the inductive invariant. From it follow
  `TypeCorrect`, `HistoryFollowsFile` (`HistoryIsBlame`), `KeysStayUnique`,
  `LookupIsExact`, `LiveWordsKeepBits` and `ChangesStayMarked`.
* `IndexKeepsPromise`: `Spec => KeepsPromise`, the refinement of `HistoryIndex`.

What the runs check is not inductive: that the keys of a word are those of the lines
that contain it says nothing about a file amid its hunks, and nothing at all about
bitmaps. `IndexInv` says, of every file, that tracker and document have their shapes
and that a word with history has a bit (`DocumentOK`: this holds even of a file of
which a hunk was lost), that the lookup agrees with the documents, and, of every file
that is `Searchable` (never shown as binary, no change lost), `FileOK`:

* between commits (`Settled`) the tracker has one key per line, no key twice, and each
  word the keys of its lines (`Follows`). The bitmap of a word fits its history
  (`BitsFit`): no bit where the word is absent, a bit for each introduction that is
  not yet published, and, while the word is present, a last bit from which on it has
  been present without a gap, which is not before the last published commit. This is
  what makes the lazy filling sound: `finalize` and `remove_words` fill from the last
  bit on, and never over an absence.
* amid the hunks of commit `n` (`Amid`) the same holds of a file whose front, up to the
  boundary `left`, is the old one, and whose rest is the new one (`Halfway`). Lines
  of the new commit are behind the boundary and have the keys of their places in the
  new file, so that the keys of a hunk, whose numbers are smaller, are fresh: this is
  why hunks must be applied last to first. A word has the bit `n` only if a new line
  behind the boundary has it, and must have it by then unless the old file had it.

One lemma per move carries this through a commit: `Begin` (at the end boundary, the
file is the old one), `Keep` (the boundary moves over a line both have), `RemoveStep`
and `AddStep` (a hunk's two halves, `HunkStep`), `Finish` (at the start, the file is
the new one); `FinalStep` is `finalize`. Below them, `DeletedLines` shows that
`flatten_delete_result` lists the keys of the deleted lines in the order of the file,
which the words are then matched with, and `BitsAdded`, `BitsFilled`, `BitsRemoved`,
`BitsFinal` say what each operation does to one bitmap. For the refinement, `Commit`
is `Extend`; `IndexFile` gives up a file when it is ignored or a change is lost, and
stutters otherwise; `FinishRun` publishes, unless the run found nothing new;
`AbandonRun` starts over or gives up what it left behind; the others stutter.

`SearchProofs`, for any files, lines, histories, failures and queries, on what
`IndexerProofs` says of the indexer:

* `NewLinesAreAlwaysFound`: all words of a line have a bit at the commit that brought
  the line. `IndexInv` says of each word alone that its introductions have bits; a
  search needs a commit that has the bits of *all* words of one line. `Fresh` is the
  strengthening: it says, of each version applied so far, that a line which is not among
  those kept from the version before has all its words marked there (`Carries`,
  `Brought`), and amid the hunks it says so of the lines behind the boundary.
* `SearchInvariant`: `SearchSpec => []SearchInv`, the inductive invariant. Besides
  `LinesInv` (`IndexInv`, `Fresh`, and `Begun`: a searchable file that is not tracked has
  no trace) it says that a word of a published commit is in the words of the index and
  of its document (`Listed`), which only a completed run brings up to date; that both are
  exact while no run has failed (`UpToDate`), on which short words depend; and that the
  answer is that of the index as it is (`Answered`), since nothing runs beside a search.
* `SearchesNeverPanic`, since the files that the lookup names for a word are those whose
  documents have it, and `ResultsStayReadable`: a commit of a raw result is one that
  changed the file or the head, and has the bit of a word, and a file that was absent
  there would have no word (`Sound`).
* `CandidatesAlwaysCover`: the candidates of an expression lose no way to match, for
  any expression that `Precise` admits. A candidate *fits* a match (`Fits`) if each of
  its trigrams stands somewhere in the line, the first where the match starts, the last
  where it ends, and all are whole unless there is only one. That is what makes merging
  two lists sound (`MergeFits`): the last trigram of one and the first of the other then
  stand side by side, and so do all windows of the two. Literals and classes fit what
  they match (`LiteralFits`, `ClassFits`); a literal that is in a published line is in
  some file, so it is never left out (`LineKnown`, from `Listed` and the first commit
  that had the line); parts in a row fit when each does (`ConcatReaches`, by the merges
  of `MergeTrigramsFits`); up to three copies are tried as such (`CopiesReach`), and
  three copies of a literal or class stand for more, with the first three and the last
  three at the ends (`ThreeCopies`). `AllServed` is the induction over the depth of an
  expression, and `PieceWord` finds, for a trigram in a line, the word of the line that
  the searcher looks for. An expression that can match an empty text may have a
  candidate without trigrams, which is not searched for: hence `~IsMatch(e, <<>>)`.
* `HeadMatchesAreShown` and `FirstMatchesAreExact`, for words and expressions. The
  oldest commit that matches brought the line that matches (`OldestIsNew`), so that
  `Fresh` gives it all bits; at the head every word of the file has its bit
  (`HeadBears`). So the commit is among those the searcher names (`FoundFor`), and the
  conversion, which reads the commits in order, shows it (`ShownFacts`). That the scan
  of a line finds a word that occurs in it, though matches do not overlap, takes an
  induction along the line (`WordMatchesFacts`).

The recursive functions of the model (`Spans`, `BuildCandidates`, `MergeTrigrams`, the
scan) are defined by `CHOOSE`; that each equals its own unfolding is proved first, by a
least counterexample (`RecursionExists` for recursion over depth, `IterateExists` along
a sequence), from `Depth`, which says no more than that expressions are finite trees.

`CommandLineProofs`, of the walk, for any paths, trees, histories and number of runs,
failures and restarts: `TablesAlwaysAgree`, `HeadIsAlwaysIndexed`, `ContentAlwaysFollows` and
`SavedIndexIsAlwaysWhole`. None of the four invariants is inductive alone; `Inductive`
adds what they rest on:

* the first parents of a commit form a line, and its ancestors are closed (`Linear`), so
  that what is visited after a commit and what it hides fit together;
* no commit is recorded without its first parents, unless a recorded commit merged them
  (`Closed`): a hidden commit is a first parent of the last one recorded or came in by a
  merge, so what `hide` takes away is covered (`Covers`), and what is covered stays so.
  This holds amid a run, and after one that failed, because the smallest commit is
  visited first (`WalksOn` says that what is missing of the target's first parents is
  still to be walked);
* what is claimed of the contents is claimed of the same files throughout: those left
  out depend on the first record alone (`Known`, `LeftOut`);
* what may be saved has lost nothing (`Serves`), so that the file can be trusted
  (`SavedWell`, the invariant of a memory, said of what a load would rebuild);
* amid the callbacks (`Diffing`), each path is as it was before if its callback is yet
  to come; as before, with exactly its hunks gathered, if it owns them (`Owner`: the
  current file, with hunks not yet applied); and as it is after, otherwise. This is
  what makes the delayed flush right whatever lies between.

and of the application, for any keys and outcomes:

* `CommandLineImplementsWalk`: `CommandLineSpec => WalkSpec`, the refinement. With it
  the four theorems above hold of the command line and the server together.
* `ShownIsAlwaysLatest` and `PanicsOnlyAfterASearch`. The invariant (`Stopping`,
  `Answering`) follows the last query from the channel to the thread, to the channel
  back and to the screen, and says that the thread ends only if the loop will not send
  again.

`LiveIndexProofs`: `TypeCorrect` and `SignalsAlwaysInOrder`. What makes signals
ordered is that there is one task at most (`OneTimer`), which `TypeOK` ties to the flag.

`ServerProofs`, for any number of handlers, queries, candidates, pages and updates:

* `TypeCorrect` and `RequestsSeeOneVersion`, from `Shape`: a handler that reads has the
  guard of the current version, so that the reindexer, which needs there to be no
  reader, cannot change it.
* `CacheStaysRecent` and `AnswersStayRecent`, under the assumption that no update
  fails: an update that fails after publishing evicts nothing, and with enough of them
  results may be as old as one likes. `Recent` counts how many updates lie between a
  result and the index (`AtMost`); each update adds one everywhere, and the eviction
  that follows takes the cache, but not what requests in flight hold.
* `AnswersStayExact`, under the assumptions that nobody signals an update and that the
  cache has room for every query that is not refused (`EnoughRoom`). Without either it
  is false, as `poisoned_cache` shows for the first: an entry that goes while a
  request converts comes back without its candidates. `Exact` says that every entry
  has all candidates of its query and the right conversions, and that while a request
  converts a page its query stays in the cache (`NothingIsPushedOut`: the queries in
  the cache are different ones, and there are no more than places) and each result of
  the page says what is so (`Says`). Then it does not matter which request put what.

Every invariant that a run checks is stated by a theorem, and so are all action
properties. Only model-checked is liveness (`QuitExits`, `RequestsAreAnswered`,
`SignalsAreIndexed`, `SleepingTimerIndexes`, `TimerIsCleared`): liveness under fairness
and `ENABLED` are out of the prover's reach. The violations that three runs show are
TLC's as well.

## Not modelled, and not claimed

* Deltas other than added, modified and deleted (the code panics), symbolic links
  and submodules, paths that are not UTF-8.
* Lines that differ only in a carriage return (`lines()` in `index_tree` strips it,
  the diff callback does not), and text git shows that is not UTF-8.
* Histories with several roots, and commits dated before their parents, for which
  hiding may end too early.
* A checked out branch other than the watched one, and in `LiveIndex` one that moves
  back (`HistoryWalk` has that).
* What an abandoned run leaves behind is wrong in ways nobody denies: commits
  whose diff was not applied, documents not finalized; later changes of the same file
  garble it or panic. Only what the code relies on afterwards is claimed (`lost`
  names the files excepted).
* Look-arounds, classes too large to enumerate, the bytes of a trigram, the format of
  the index file.
* The ignore checker, which nothing calls at this commit; `result_viewer.rs`, an older
  copy of the result conversion that nothing uses; line formatting, layout, logging,
  progress bars, debug statistics, configuration, routing, the web client.
* The loop of `--debug` (raw_searcher.rs), which reads a line, searches and prints; at
  the end of its input it spins.
* Page sizes of 0 and products of page and size that overflow.

## Plan

1. Done: tracker, document, indexer, walk, index file, searches, results, live index,
   search server, application; proofs of the tracker, the indexer, the walk, the
   searches, the command line, the debouncer and the server.
2. Two files in `GitIndexer` with more than one line each, when TLC can afford it.
3. Composition of `LiveIndex` with `SearchServer`: a commit becomes searchable.
4. A class of expressions for which candidates cover all matches with fewer exceptions
   than `Covered`, for instance repetitions of parts of one length.
