SPECIFICATION Spec
CONSTANTS
  a = a
  f = f
  Files <- MCFiles
  Words <- MCWords
  LineTexts <- MCLineTexts
  MaxBomLines = 0
  Binaries = TRUE
  MaxLines = 3
  MaxCommits = 3
  MayFail = TRUE
INVARIANTS TypeOK HistoryIsBlame KeysAreUnique ChangesAreMarked
PROPERTY KeepsPromise
