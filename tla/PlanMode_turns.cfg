SPECIFICATION Spec
CONSTANTS
  MaxTurns = 4
  MaxStash = 1
  MaxToggles = 2
  Features = {"stash", "notify", "compress", "busy"}
INVARIANTS
  OneDirective
  DecisionIsFresh
PROPERTIES
  ApprovalKept
CHECK_DEADLOCK FALSE
