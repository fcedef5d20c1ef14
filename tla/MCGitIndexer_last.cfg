SPECIFICATION Spec
CONSTANTS
  a = a
  f = f
  Files <- MCFiles
  Words <- MCWords
  LineTexts <- MCLineTexts
  MaxBomLines = 0
  Binaries = FALSE
  MaxLines = 1
  MaxCommits = 3
  MayFail = FALSE
INVARIANT LastContainedCommitRecorded
