SPECIFICATION FairSpec
CONSTANTS
  MaxAttempts = 2
  RetryOnDone = FALSE
  MaxGen = 9
  MaxDepth = 3
CHECK_DEADLOCK FALSE
INVARIANT NothingLeaks
INVARIANT ReportedIsTrue
PROPERTY IsLongStream
PROPERTY RetryingEnds
