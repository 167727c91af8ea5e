SPECIFICATION Spec
CONSTANTS
  Workflows = {w1, w2}
  None = none
  Queries = {q1}
  HistoryPages = 2
  ListPages = 1
  MaxRequest = 6
INVARIANT HistoryOfOneRun
CHECK_DEADLOCK FALSE
