SPECIFICATION Spec
CONSTANTS
  MaxRows = 7
  MaxRecords = 2
  Scenes <- MCAgain
INVARIANTS
  SummaryIsComplete
CHECK_DEADLOCK FALSE
