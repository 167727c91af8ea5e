SPECIFICATION Spec
CONSTANTS
  Workflows = {w1, w2}
  None = none
  Queries = {q1, q2}
  HistoryPages = 3
  ListPages = 3
  MaxRequest = 6
INVARIANTS DetailsOfSelection ListAnswersCursor HistoryReachesCursor
PROPERTY HistoryLoadEnds
CHECK_DEADLOCK FALSE
