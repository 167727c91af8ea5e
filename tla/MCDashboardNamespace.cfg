SPECIFICATION Spec
CONSTANTS
  Profiles = {p1}
  Unnamed = unnamed
  Namespaces = {n1, n2}
  Views = {"workflows", "workers"}
  Reports = {}
  MaxRequest = 3
INVARIANT RowsOfNamespace
CHECK_DEADLOCK FALSE
