CONSTANTS
  a1 = a1
  a2 = a2
  k1 = k1
  k2 = k2
  Agents <- MCAgents
  Keys <- MCKeys
  None = None
  MaxCerts = 2
  MaxWrites = 2
  SyncsFolders = TRUE
SPECIFICATION Spec
SYMMETRY Symmetry
INVARIANT ListIsMine
