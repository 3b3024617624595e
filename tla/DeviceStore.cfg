SPECIFICATION Spec
CONSTANTS
  Ids = {i1, i2}
  Tokens = {t1, t2, t3}
  Absent = Absent
  LastSeenEvery = 2
  MaxTime = 2
  SyncsFolders = TRUE
SYMMETRY Symmetry
CHECK_DEADLOCK FALSE
INVARIANT AnswersAreKept
INVARIANT FileKeepsUp
