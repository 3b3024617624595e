SPECIFICATION FairSpec
CONSTANTS
  Profiles = {p1, p2}
  Transports = {t1, t2, t3}
  Jobs = {j1, j2}
  MaxAttempts = 2
  MaxGen = 3
  None = None
CHECK_DEADLOCK FALSE
INVARIANT NoTransportLeaks
INVARIANT AsWanted
INVARIANT AlwaysOnTheWay
INVARIANT LimitedTries
PROPERTY LostForItsOwnReason
PROPERTY AttemptsEnd
PROPERTY SignalReturns
