SPECIFICATION Spec
CONSTANTS
  Message = {}
  Fingerprint = {f1}
  QueueCap = 1
  WarnAt = 2
  AbortAt = 3
  MaxTurns = 0
  GroupSize = 2
  MaxChats = 2
  MaxGroups = 2
  Faults <- MCCompress
INVARIANTS
  OutputIsShown
CHECK_DEADLOCK FALSE
