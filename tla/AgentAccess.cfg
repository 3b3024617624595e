SPECIFICATION FairSpec
CONSTANTS
  Requests = {r1, r2}
  Deaf = {r2}
  Devices = {d1}
  Addresses = {a1}
  Revokes = {v1}
  LegacyToken = LegacyToken
  WrongToken = WrongToken
  NoToken = NoToken
  Nobody = Nobody
  LegacyConfigured = TRUE
  Threshold = 1
CHECK_DEADLOCK FALSE
INVARIANT RevokedIsCutOff
INVARIANT EndedForCause
PROPERTY IsAccessControl
INVARIANT NothingLeaks
INVARIANT StopEndsEverything
 
