SPECIFICATION Spec
CONSTANTS
  Kinds = {"workflows", "workers", "deployments", "schedules", "batches"}
  Namespaces = {n1, n2}
  Queries = {q1, q2}
  MaxPages = 3
INVARIANTS HeaderDescribesRows TokensFitTheList DegradedStaysEmpty
PROPERTIES TransientNeverBlocks KeysStepByOne
SYMMETRY Symmetry
