SPECIFICATION FairSpec
CONSTANTS
  MaxTurns = 2
  MaxStash = 1
  MaxToggles = 0
  Features = {"stash"}
PROPERTIES
  StashIsSent
CHECK_DEADLOCK FALSE
