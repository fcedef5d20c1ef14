---------------------------- MODULE TrackedFile ----------------------------
(***************************************************************************)
(* One file's tracker under every legal sequence of calls: lines added     *)
(* anywhere in the file or after its end, any existing lines deleted, the  *)
(* whole file deleted and written again.                                   *)
(***************************************************************************)
EXTENDS FileDiffTracker

CONSTANTS
  Commits,    \* commit indexes that may add lines
  MaxTotal,   \* bound: lines of the file
  MaxFrom,    \* bound: line of the commit's version an addition starts at
  MaxChunks   \* bound: chunks of the tracker

ASSUME BoundsAssumption ==
  MaxTotal \in Nat /\ MaxFrom \in Nat /\ MaxChunks \in Nat

VARIABLES
  tracker,  \* the FileDiffTracker
  removed   \* the LineDeleteResults the last call returned

vars == <<tracker, removed>>

Init ==
  /\ \E c \in Commits, total \in 0..MaxTotal : tracker = NewTracker(c, total)
  /\ removed = <<>>

Add(at, n, c, from) ==
  /\ ChunkCount(tracker) < MaxChunks
  /\ tracker' = AddLines(tracker, at, n, LineKey(c, from))
  /\ removed' = <<>>

Delete(from, n) ==
  /\ tracker' = DeleteLines(tracker, from, n)
  /\ removed' = DeletedRanges(tracker, from, n)

DeleteFile ==
  /\ tracker' = DeleteAll
  /\ removed' = <<>>

Next ==
  LET total == TotalLines(tracker)
  IN  \/ \E at \in 0..total, n \in 0..(MaxTotal - total) :
           \E c \in Commits, from \in 0..MaxFrom : Add(at, n, c, from)
      \/ \E from \in 0..total : \E n \in 0..(total - from) : Delete(from, n)
      \/ DeleteFile

Spec == Init /\ [][Next]_vars

-----------------------------------------------------------------------------
TypeOK ==
  /\ TrackerShape(tracker, Commits)
  /\ removed \in Seq([commit : Commits, start : Nat, stop : Nat])

(***************************************************************************)
(* The chunk arithmetic loses nothing: read line by line, the tracker is a *)
(* plain file in which an addition inserts its lines where it says and a   *)
(* deletion removes, and reports, exactly the lines it names.  The         *)
(* splitting, shifting and purging of chunks in add_lines and delete_lines *)
(* never shows.                                                            *)
(***************************************************************************)
KeysIn(ranges) ==
  UNION {{LineKey(ranges[j].commit, l) : l \in ranges[j].start..(ranges[j].stop - 1)} :
           j \in DOMAIN ranges}

Plain == INSTANCE BlamedFile
           WITH lines <- Blame(tracker), removed <- KeysIn(removed)

ImplementsPlainFile == Plain!Spec
=============================================================================
