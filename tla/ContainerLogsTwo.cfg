SPECIFICATION LogSpec
CONSTANTS
  Sources = {stdout, stderr}
  Tails = {0}
  Cap = 4
  MaxLog = 3
  MaxTime = 2
  MaxOpens = 2
CHECK_DEADLOCK FALSE
INVARIANT Seamless
