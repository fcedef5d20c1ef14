SPECIFICATION Spec
CONSTANTS
  r1 = r1
  r2 = r2
  q1 = q1
  q2 = q2
  q3 = q3
  Handlers <- MCHandlers
  Queries <- OneQuery
  Rejected = {}
  RawCount <- Growing
  FalsePositives <- None
  Pages = {0, 1}
  PageSizes = {1}
  CacheSize = 2
  MaxVersion = 4
  MaxSignals = 1
  MayFail = FALSE
INVARIANTS TypeOK OneVersionPerRequest CacheIsRecent AnswersAreRecent
