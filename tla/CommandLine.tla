---------------------------- MODULE CommandLine ----------------------------
(***************************************************************************)
(* The processes around one repository and one index file: the indexer of  *)
(* the command line and of the server (HistoryWalk), and the application   *)
(* the command line goes on to (App, main in crep-indexer-cli/src/main.rs).*)
(***************************************************************************)
EXTENDS HistoryWalk, App

CONSTANT MaxCommitsWithApp   \* bound: commits in the repository when the application is started

ASSUME CommandLineAssumption == MaxCommitsWithApp \in Nat

commandLineVars == <<walkVars, appVars>>

CommandLineInit == Init /\ AppOff

\* Commits do not change, so that the repository may stand still while the
\* application runs: all it reads of it are the commits in its index.
Repository == ui = "off" /\ RepositoryStep /\ UNCHANGED appVars

\* build_index, or the server.
Indexing == RunStep /\ UNCHANGED appVars

\* Without --save-only the command line goes on to the application.
OpenApp ==
  /\ process = "done"
  /\ Len(graph) <= MaxCommitsWithApp
  /\ StartApp
  /\ UNCHANGED walkVars

\* The terminal, the loop or the search thread.
Running ==
  /\ (\E e \in Events : Press(e)) \/ SearchStep \/ LoopStep
  /\ UNCHANGED walkVars

\* The process ends: the application came to its end, or there was none, or it was killed.
EndProcess ==
  /\ Exit
  /\ ui' = "off" /\ panicked' = FALSE /\ state' = "RawString" /\ prev' = <<>>
  /\ input' = EmptyInput /\ shown' = NoQuery
  /\ messages' = <<>> /\ requests' = <<>>
  /\ thread' = "ended" /\ searching' = NoQuery /\ asked' = NoQuery /\ keys' = 0

CommandLineNext == Repository \/ Indexing \/ OpenApp \/ Running \/ EndProcess

\* The threads of a running process take their steps, and a search comes to its end.
\* No one has to press a key, to start or to end a process, or to commit.
Fairness ==
  /\ WF_commandLineVars(LoopStep /\ UNCHANGED walkVars)
  /\ WF_commandLineVars(SearchStep /\ UNCHANGED walkVars)

CommandLineSpec == CommandLineInit /\ [][CommandLineNext]_commandLineVars /\ Fairness
=============================================================================
