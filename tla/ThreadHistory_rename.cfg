SPECIFICATION Spec
CONSTANTS
  MaxRows = 2
  MaxRecords = 0
  Scenes <- MCTitle
PROPERTIES
  RenameKept
CHECK_DEADLOCK FALSE
