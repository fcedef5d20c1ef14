--------------------------- MODULE LineSequences ---------------------------
(***************************************************************************)
(* Files as sequences: lines put in at a place, lines taken out, and the   *)
(* keys of lines a commit has added.                                       *)
(***************************************************************************)
EXTENDS Integers, Sequences

\* n lines of commit c, whose first one is line `from` of that commit's version.
NewKeys(n, c, from) == [i \in 1..n |-> [commit |-> c, line |-> from + i - 1]]

\* s with the sequence new put after its first `at` elements.
Insert(s, at, new) ==
  [i \in 1..(Len(s) + Len(new)) |->
     IF i <= at THEN s[i]
     ELSE IF i <= at + Len(new) THEN new[i - at]
     ELSE s[i - Len(new)]]

\* s without the n elements that follow its first `at`.
Cut(s, at, n) ==
  [i \in 1..(Len(s) - n) |-> IF i <= at THEN s[i] ELSE s[i + n]]
=============================================================================
