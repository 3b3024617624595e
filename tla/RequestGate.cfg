CONSTANT MaxRequests = 2
SPECIFICATION Spec
INVARIANTS
  DaemonHearsOnly
  OnlyStrangersAreTimed
PROPERTIES
  StrangersLetGo
  TerminalsEnd
CHECK_DEADLOCK FALSE
