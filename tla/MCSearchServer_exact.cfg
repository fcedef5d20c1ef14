SPECIFICATION Spec
CONSTANTS
  r1 = r1
  r2 = r2
  q1 = q1
  q2 = q2
  q3 = q3
  Handlers <- MCHandlers
  Queries <- ThreeQueries
  Rejected = {q3}
  RawCount <- Steady
  FalsePositives <- OneFalsePositive
  Pages = {0, 1}
  PageSizes = {1, 2}
  CacheSize = 2
  MaxVersion = 1
  MaxSignals = 0
  MayFail = TRUE
INVARIANT AnswersAreExact
