---------------------------- MODULE HistoryIndex ----------------------------
(***************************************************************************)
(* What an incremental index of a history promises to those who search it. *)
(*                                                                         *)
(* contents is the history: which words each file has at each commit.  At  *)
(* any time the first `head` commits are published.  found[f][w] is the    *)
(* set of published commits at which the index says that f contains w.     *)
(***************************************************************************)
EXTENDS Integers, Sequences

CONSTANTS Files, Words

VARIABLES
  contents,  \* sequence of [Files -> SUBSET Words]
  head,      \* number of published commits
  found,     \* [Files -> [Words -> set of commit indexes]]
  opaque     \* files the index has given up on: nothing is promised of them

vars == <<contents, head, found, opaque>>

Contains(f, w, c) == w \in contents[c + 1][f]

Init ==
  /\ contents = <<>>
  /\ head = 0
  /\ found = [f \in Files |-> [w \in Words |-> {}]]
  /\ opaque = {}

Extend ==
  /\ Len(contents') = Len(contents) + 1
  /\ \A c \in 1..Len(contents) : contents'[c] = contents[c]
  /\ UNCHANGED <<head, found, opaque>>

\* What is found of a file the index has given up on may change at any time.
GiveUp ==
  /\ opaque \subseteq opaque'
  /\ \A f \in Files \ opaque' : found'[f] = found[f]
  /\ UNCHANGED <<contents, head>>

\* As long as nothing is published, the index may be given a second chance.
StartOver ==
  /\ head = 0
  /\ opaque' = {}
  /\ UNCHANGED <<contents, head, found>>

(***************************************************************************)
(* Publishing more commits: what was published stays as it was, nothing is *)
(* found where it is not, and every commit that introduces a word is found *)
(* as well as the new head.                                                *)
(***************************************************************************)
PastUnchanged(f, w) ==
  found'[f][w] \cap 0..(head - 1) = found[f][w]

FoundWherePresent(f, w) ==
  \A c \in found'[f][w] : c < head' /\ Contains(f, w, c)

IntroductionsFound(f, w) ==
  \A c \in head..(head' - 1) :
    Contains(f, w, c) /\ (c = 0 \/ ~Contains(f, w, c - 1)) => c \in found'[f][w]

HeadFound(f, w) ==
  Contains(f, w, head' - 1) => head' - 1 \in found'[f][w]

Publish ==
  /\ head < head' /\ head' <= Len(contents)
  /\ \A f \in Files \ opaque, w \in Words :
       /\ PastUnchanged(f, w)
       /\ FoundWherePresent(f, w)
       /\ IntroductionsFound(f, w)
       /\ HeadFound(f, w)
  /\ UNCHANGED <<contents, opaque>>

Next == Extend \/ GiveUp \/ StartOver \/ Publish

Spec == Init /\ [][Next]_vars
=============================================================================
