--------------------------- MODULE MCCommandLine ---------------------------
(* Three paths, over trees in which a binary file lies between two that    *)
(* change, one is emptied, one goes and comes back and one has a byte      *)
(* order mark.                                                             *)
EXTENDS CommandLine, TLC

CONSTANTS p, q, r, x, y, z

MCPaths == {p, q, r}
Tree(a, b, c) == (p :> a) @@ (q :> b) @@ (r :> c)
MCTrees == {Tree(x, x, Absent), Tree(y, Binary, x), Tree(y, z, Empty), Tree(Absent, x, y)}

\* For histories that branch and join, and for the application.
MCTwoPaths == {p, q}
MCVersions == {(p :> x) @@ (q :> Absent), (p :> y) @@ (q :> x)}

\* One query of each outcome.
MCInputs == {"", "w"}
MCOutcome ==
  (<<"RawString", "">> :> "error") @@ (<<"RawString", "w">> :> "results") @@
  (<<"Regex", "">> :> "nothing") @@ (<<"Regex", "w">> :> "panic")
=============================================================================
