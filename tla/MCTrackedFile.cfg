SPECIFICATION Spec
CONSTANTS
  Commits = {1, 2}
  MaxTotal = 4
  MaxFrom = 0
  MaxChunks = 3
INVARIANT TypeOK
PROPERTY ImplementsPlainFile
