----------------------------- MODULE BlamedFile -----------------------------
(***************************************************************************)
(* What a line tracker promises: a file is a plain sequence of line keys.  *)
(* Adding lines inserts fresh keys at a place, deleting lines removes      *)
(* exactly those keys and reports them.  There are no chunks here.         *)
(***************************************************************************)
EXTENDS LineSequences

CONSTANTS
  Commits,   \* commit indexes that may add lines
  MaxTotal,  \* lines the file may have
  MaxFrom    \* line of a commit's version an addition may start at

VARIABLES
  lines,    \* the file, one key [commit, line] per line
  removed   \* the keys the last operation reported as removed

Key == [commit : Commits, line : Nat]

Init ==
  /\ \E c \in Commits, n \in 0..MaxTotal : lines = NewKeys(n, c, 0)
  /\ removed = {}

Add(at, n, c, from) ==
  /\ lines' = Insert(lines, at, NewKeys(n, c, from))
  /\ removed' = {}

Delete(at, n) ==
  /\ lines' = Cut(lines, at, n)
  /\ removed' = {lines[i] : i \in (at + 1)..(at + n)}

DeleteAll ==
  /\ lines' = <<>>
  /\ removed' = {}

Next ==
  \/ \E at \in 0..Len(lines), n \in 0..(MaxTotal - Len(lines)) :
       \E c \in Commits, from \in 0..MaxFrom : Add(at, n, c, from)
  \/ \E at \in 0..Len(lines) : \E n \in 0..(Len(lines) - at) : Delete(at, n)
  \/ DeleteAll

Spec == Init /\ [][Next]_<<lines, removed>>
=============================================================================
