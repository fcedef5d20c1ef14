SPECIFICATION Spec
CONSTANTS
  t1 = t1
  t2 = t2
  Timers <- MCTimers
  MaxCommits = 3
  MaxEvents = 2
  MaxSignals = 2
  BranchMayVanish = TRUE
  MayFail = TRUE
INVARIANTS TypeOK SignalsInOrder
PROPERTIES SleepingTimerIndexes TimerIsCleared
