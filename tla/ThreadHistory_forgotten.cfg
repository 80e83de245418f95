SPECIFICATION Spec
CONSTANTS
  MaxRows = 6
  MaxRecords = 2
  Scenes <- MCTrim
INVARIANTS
  SummaryIsComplete
CHECK_DEADLOCK FALSE
