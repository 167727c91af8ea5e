SPECIFICATION Spec
CONSTANTS
  Targets = {w1}
  NoRow = norow
  Namespaces = {n1}
  Forms = {"confirm", "query"}
  MaxRequest = 4
INVARIANT OneMutationAtATime
CHECK_DEADLOCK FALSE
