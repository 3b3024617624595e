SPECIFICATION FairSpec
CONSTANTS
  Commands = {c1, c2}
  c1 = c1
  c2 = c2
  p1 = p1
  p2 = p2
  p3 = p3
  Phones = {p1, p2, p3}
  MaxTries = 2
  None = None
CONSTRAINT SomeOfEither
CHECK_DEADLOCK FALSE
INVARIANT TruthTold
INVARIANT PendingIsAwaited
INVARIANT GuessesAreCounted
PROPERTY IsOneTimeCode
PROPERTY CommandLearns
