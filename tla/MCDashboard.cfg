SPECIFICATION Spec
CONSTANTS
  Profiles = {p1}
  Unnamed = unnamed
  Namespaces = {n1, n2}
  Views = {"workflows", "workers", "taskQueues"}
  Reports = {}
  MaxRequest = 3
INVARIANTS TypeOK NoForeignData CapabilitiesOfNamespace SpinnerHasRequest OneSwitchAtATime
PROPERTY WaitingEnds
CHECK_DEADLOCK FALSE
