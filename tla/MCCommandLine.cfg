SPECIFICATION CommandLineSpec
CONSTANTS
  p = p
  q = q
  r = r
  x = x
  y = y
  z = z
  Paths <- MCTwoPaths
  Texts = {x, y}
  Marked = {}
  Trees <- MCVersions
  MaxCommits = 4
  MaxRecorded = 4
  MayFail = TRUE
  Inputs <- MCInputs
  EmptyInput = ""
  Outcome <- MCOutcome
  MaxKeys = 4
  MaxCommitsWithApp = 1
INVARIANTS ShownIsLatest PanicsOnlyAfterSearch HeadIsIndexed SavedIndexIsWhole
PROPERTY QuitExits
