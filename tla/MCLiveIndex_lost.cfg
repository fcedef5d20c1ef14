SPECIFICATION Spec
CONSTANTS
  t1 = t1
  t2 = t2
  Timers <- MCTimers
  MaxCommits = 2
  MaxEvents = 2
  MaxSignals = 2
  BranchMayVanish = FALSE
  MayFail = FALSE
PROPERTY NotifiedCommitIsIndexed
