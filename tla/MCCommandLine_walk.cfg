SPECIFICATION CommandLineSpec
CONSTANTS
  p = p
  q = q
  r = r
  x = x
  y = y
  z = z
  Paths <- MCPaths
  Texts = {x, y, z}
  Marked = {z}
  Trees <- MCTrees
  MaxCommits = 3
  MaxRecorded = 4
  MayFail = TRUE
  Inputs <- MCInputs
  EmptyInput = ""
  Outcome <- MCOutcome
  MaxKeys = 0
  MaxCommitsWithApp = 0
INVARIANTS TablesAgree ContentFollowsWalk SavedIndexIsWhole
