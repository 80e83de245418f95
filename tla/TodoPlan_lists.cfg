SPECIFICATION TodoSpec
CONSTANTS
  Thread = {t1, t2}
  Actor = {a1, a2}
  Watched = {a1}
  MaxId = 5
  MaxWrites = 4
  MaxItems = 3
  Calls <- MCCalls
  Imports <- MCImports
INVARIANTS
  ListsConsistent
PROPERTIES
  FreshIds
CHECK_DEADLOCK FALSE
