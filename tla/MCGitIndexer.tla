---------------------------- MODULE MCGitIndexer ----------------------------
(* Small histories of one file for TLC, with one word, which a line        *)
(* contains or not.                                                        *)
EXTENDS GitIndexer

CONSTANTS a, f

MCFiles == {f}
MCWords == {a}
MCLineTexts == {{a}, {}}
=============================================================================
