SPECIFICATION LogSpec
CONSTANTS
  Sources = {stdout}
  Tails = {0}
  Cap = 3
  MaxLog = 4
  MaxTime = 2
  MaxOpens = 4
CHECK_DEADLOCK FALSE
INVARIANT Seamless
INVARIANT RunsAsWanted
