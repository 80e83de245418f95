SPECIFICATION FairSpec
CONSTANTS
  Message = {m1, m2, m3}
  Fingerprint = {f1}
  QueueCap = 2
  WarnAt = 2
  AbortAt = 3
  MaxTurns = 0
  GroupSize = 1
  MaxChats = 2
  MaxGroups = 3
  Faults <- MCNoFault
PROPERTIES
  ImplementsMailbox
  SteeringDelivered
CHECK_DEADLOCK FALSE
