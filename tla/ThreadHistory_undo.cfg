SPECIFICATION Spec
CONSTANTS
  MaxRows = 8
  MaxRecords = 2
  Scenes <- MCAll
INVARIANTS
  SummaryAnchored
  ForkWorks
PROPERTIES
  LatestUserKept
CHECK_DEADLOCK FALSE
