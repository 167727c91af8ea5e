SPECIFICATION Spec
CONSTANTS
  Targets = {w1, w2}
  NoRow = norow
  Namespaces = {n1, n2}
  Forms = {"confirm", "signal", "update", "batch"}
  MaxRequest = 3
INVARIANT MutationsHitWhatWasShown
CHECK_DEADLOCK FALSE
