SPECIFICATION Spec
CONSTANTS
  c1 = c1  c2 = c2  c3 = c3
  p1 = p1  p2 = p2
  Call = {c1}
  Process = {p1}
  ProcessOf <- MCOne
  Scenes <- MCTwice
  Edits <- MCEdits
  MaxEdits = 0
INVARIANTS AnchorsSelect
CHECK_DEADLOCK FALSE
