--------------------------- MODULE MCSearchServer ---------------------------
(***************************************************************************)
(* SearchServer with small tables of candidates.  Growing: a query has as  *)
(* many candidates as the index has versions.  Steady: it always has two.  *)
(***************************************************************************)
EXTENDS SearchServer

CONSTANTS r1, r2, q1, q2, q3

MCHandlers == {r1, r2}
OneQuery == {q1}
ThreeQueries == {q1, q2, q3}

Growing == [q \in Queries |-> [v \in 1..MaxVersion |-> v]]
Steady == [q \in Queries |-> [v \in 1..MaxVersion |-> 2]]

\* The second candidate of q1 in the first version.
OneFalsePositive == {<<q1, 1, 1>>}
None == {}
=============================================================================
