SPECIFICATION Spec
CONSTANTS
  Targets = {w1, w2}
  NoRow = norow
  Namespaces = {n1, n2}
  Forms = {"confirm", "reset", "toggle", "attribute", "signal", "update", "query", "batch"}
  MaxRequest = 3
INVARIANTS TypeOK FrozenFormsActAsShown LockHasOwner OneAtATime
PROPERTIES ReadOnlyNeverWrites LocksAreReleased
CHECK_DEADLOCK FALSE
