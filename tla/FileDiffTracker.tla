-------------------------- MODULE FileDiffTracker --------------------------
(***************************************************************************)
(* The line tracker of one file (crep-indexer/src/git/diff.rs).            *)
(*                                                                         *)
(* A tracker says, for every line of the current version of a file, which  *)
(* commit added it and at which line of that commit's version.  It stores  *)
(* the file as a sequence of chunks, in two parallel vectors:              *)
(*   commit_line_end[k]  the line after the last line of chunk k,          *)
(*   commit_indexes[k]   the key (commit, line) of its first line.         *)
(* Lines are numbered from 0 as in the code; chunks from 1 (chunk k here   *)
(* is index k - 1 of the Rust vectors).  Every operator is a pure function *)
(* of a tracker, so that it can be proved about as well as evaluated.      *)
(***************************************************************************)
EXTENDS Integers, Sequences

\* A line of history: added by `commit`, at `line` of that commit's version.
LineKey(c, l) == [commit |-> c, line |-> l]
KeySet(C) == [commit : C, line : Nat]

NewTracker(c, total) ==
  [commit_line_end |-> <<total>>, commit_indexes |-> <<LineKey(c, 0)>>]

ChunkCount(t) == Len(t.commit_line_end)

ChunkStart(t, k) == IF k = 1 THEN 0 ELSE t.commit_line_end[k - 1]

TotalLines(t) ==
  IF ChunkCount(t) = 0 THEN 0 ELSE t.commit_line_end[ChunkCount(t)]

(***************************************************************************)
(* The chunk a line falls in: the first one that ends after it, or one     *)
(* past the last chunk.  (The binary search's Ok(pos) is the chunk that    *)
(* ends exactly at the line, so the line starts the next one.)             *)
(***************************************************************************)
FindChunk(t, line) ==
  CHOOSE k \in 1..(ChunkCount(t) + 1) :
    /\ k <= ChunkCount(t) => line < t.commit_line_end[k]
    /\ \A j \in 1..(k - 1) : t.commit_line_end[j] <= line

\* The key of a line: what the file would be blamed on at that line.
KeyAt(t, line) ==
  LET k == FindChunk(t, line)
  IN  LineKey(t.commit_indexes[k].commit,
              t.commit_indexes[k].line + line - ChunkStart(t, k))

Blame(t) == [i \in 1..TotalLines(t) |-> KeyAt(t, i - 1)]

-----------------------------------------------------------------------------
(* add_lines: past the end, at the start of a chunk, or inside a chunk.    *)

AppendChunk(t, n, key) ==
  [commit_line_end |-> Append(t.commit_line_end, TotalLines(t) + n),
   commit_indexes  |-> Append(t.commit_indexes, key)]

InsertChunk(t, k, n, key) ==
  LET end == t.commit_line_end
      idx == t.commit_indexes
      N   == ChunkCount(t)
  IN  [commit_line_end |-> [j \in 1..(N + 1) |->
                              IF j < k THEN end[j]
                              ELSE IF j = k THEN ChunkStart(t, k) + n
                              ELSE end[j - 1] + n],
       commit_indexes  |-> [j \in 1..(N + 1) |->
                              IF j < k THEN idx[j]
                              ELSE IF j = k THEN key
                              ELSE idx[j - 1]]]

SplitChunk(t, k, at, n, key) ==
  LET end == t.commit_line_end
      idx == t.commit_indexes
      N   == ChunkCount(t)
  IN  [commit_line_end |-> [j \in 1..(N + 2) |->
                              IF j < k THEN end[j]
                              ELSE IF j = k THEN at
                              ELSE IF j = k + 1 THEN at + n
                              ELSE end[j - 2] + n],
       commit_indexes  |-> [j \in 1..(N + 2) |->
                              IF j <= k THEN idx[j]
                              ELSE IF j = k + 1 THEN key
                              ELSE IF j = k + 2
                                THEN LineKey(idx[k].commit,
                                             idx[k].line + (at - ChunkStart(t, k)))
                              ELSE idx[j - 2]]]

\* A variant that never inserts between two chunks.
AddLinesAlwaysSplitting(t, at, n, key) ==
  LET k == FindChunk(t, at)
  IN  IF n = 0 THEN t
      ELSE IF k > ChunkCount(t) THEN AppendChunk(t, n, key)
      ELSE SplitChunk(t, k, at, n, key)

AddLines(t, at, n, key) ==
  LET k == FindChunk(t, at)
  IN  IF n = 0 THEN t
      ELSE IF k > ChunkCount(t) THEN AppendChunk(t, n, key)
      ELSE IF ChunkStart(t, k) = at THEN InsertChunk(t, k, n, key)
      ELSE SplitChunk(t, k, at, n, key)

-----------------------------------------------------------------------------
(* delete_lines: removes lines from .. from + n - 1, which must exist (the *)
(* code panics on an out-of-bounds chunk otherwise).                       *)

SaturatingSub(a, b) == IF a < b THEN 0 ELSE a - b

\* Vec::drain(first..=last), nothing when the range is empty.
Drain(s, first, last) ==
  IF first > last THEN s
  ELSE [j \in 1..(Len(s) - (last - first + 1)) |->
          IF j < first THEN s[j] ELSE s[j + (last - first + 1)]]

\* A variant that also takes a deletion up to the end of the chunk for case #2.
InsideUpToTheEnd(t, from, n) ==
  LET k == FindChunk(t, from)
  IN  /\ k = FindChunk(t, from + n - 1)
      /\ ChunkStart(t, k) < from
      /\ from + n <= t.commit_line_end[k]

\* Case #2: the middle of one chunk goes, which leaves two chunks.
StrictlyInside(t, from, n) ==
  LET k == FindChunk(t, from)
  IN  /\ k = FindChunk(t, from + n - 1)
      /\ ChunkStart(t, k) < from
      /\ from + n < t.commit_line_end[k]

CutChunk(t, k, from, n) ==
  LET end == t.commit_line_end
      idx == t.commit_indexes
      N   == ChunkCount(t)
  IN  [commit_line_end |-> [j \in 1..(N + 1) |->
                              IF j < k THEN end[j]
                              ELSE IF j = k THEN from
                              ELSE SaturatingSub(end[j - 1], n)],
       commit_indexes  |-> [j \in 1..(N + 1) |->
                              IF j <= k THEN idx[j]
                              ELSE IF j = k + 1
                                THEN LineKey(idx[k].commit,
                                             idx[k].line + from + n - ChunkStart(t, k))
                              ELSE idx[j - 1]]]

\* Every other case: chunks first..last lose lines, the emptied ones go.
ShrinkChunks(t, first, last, from, n) ==
  LET end       == t.commit_line_end
      idx       == t.commit_indexes
      lastStart == ChunkStart(t, last)
      dropFirst == /\ end[first] - ChunkStart(t, first) <= n
                   /\ ChunkStart(t, first) = from
      dropLast  == end[last] = from + n
      purgeFrom == IF dropFirst THEN first ELSE first + 1
      purgeTo   == IF dropLast THEN last ELSE SaturatingSub(last - 1, 1) + 1
      fromFirst == (IF end[first] < from + n THEN end[first] ELSE from + n) - from
      shrunk    == [j \in 1..ChunkCount(t) |->
                      IF j < first THEN end[j]
                      ELSE IF j = first THEN end[j] - fromFirst
                      ELSE SaturatingSub(end[j], n)]
      moved     == [j \in 1..ChunkCount(t) |->
                      IF j = last /\ lastStart >= from
                        THEN LineKey(idx[j].commit, idx[j].line + (from + n - lastStart))
                        ELSE idx[j]]
  IN  [commit_line_end |-> Drain(shrunk, purgeFrom, purgeTo),
       commit_indexes  |-> Drain(moved, purgeFrom, purgeTo)]

\* A variant without case #2.
DeleteLinesAtOneEnd(t, from, n) ==
  IF n = 0 THEN t
  ELSE ShrinkChunks(t, FindChunk(t, from), FindChunk(t, from + n - 1), from, n)

DeleteLines(t, from, n) ==
  IF n = 0 THEN t
  ELSE IF StrictlyInside(t, from, n) THEN CutChunk(t, FindChunk(t, from), from, n)
  ELSE ShrinkChunks(t, FindChunk(t, from), FindChunk(t, from + n - 1), from, n)

\* A variant that reports the lines of the chunk before the deletion too.
DeletedRangeFromChunkStart(t, k, from, n) ==
  LET start == ChunkStart(t, k)
      end   == t.commit_line_end[k]
      base  == t.commit_indexes[k].line
  IN  [commit |-> t.commit_indexes[k].commit,
       start  |-> base,
       stop   |-> base + (IF end < from + n THEN end - start ELSE from + n - start)]

\* One LineDeleteResult, [start, stop) in the lines of the commit, per chunk hit.
DeletedRange(t, k, from, n) ==
  LET start == ChunkStart(t, k)
      end   == t.commit_line_end[k]
      base  == t.commit_indexes[k].line
  IN  [commit |-> t.commit_indexes[k].commit,
       start  |-> base + (IF start < from THEN from - start ELSE 0),
       stop   |-> base + (IF end < from + n THEN end - start ELSE from + n - start)]

DeletedRanges(t, from, n) ==
  LET first == FindChunk(t, from)
      last  == FindChunk(t, from + n - 1)
  IN  IF n = 0 THEN <<>>
      ELSE [j \in 1..(last - first + 1) |-> DeletedRange(t, first + j - 1, from, n)]

DeleteAll == [commit_line_end |-> <<>>, commit_indexes |-> <<>>]

-----------------------------------------------------------------------------
(***************************************************************************)
(* A well-formed tracker: the vectors run in parallel and the ends grow.   *)
(* Only the first chunk may be empty (a file that was empty when indexed). *)
(***************************************************************************)
TrackerShape(t, C) ==
  /\ t.commit_line_end \in Seq(Nat)
  /\ t.commit_indexes \in Seq(KeySet(C))
  /\ Len(t.commit_line_end) = Len(t.commit_indexes)
  /\ \A j \in 1..Len(t.commit_line_end) :
       \A k \in (j + 1)..Len(t.commit_line_end) :
         t.commit_line_end[j] < t.commit_line_end[k]
=============================================================================
