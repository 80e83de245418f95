SPECIFICATION Spec
CONSTANTS
  Thread = {t1}
  Script <- MCOne
  MaxConcurrent = 1
  MaxTotal = 1
  MaxTurns = 2
  ResumeTurns = 1
  Faults <- MCNoFault
INVARIANTS
  NotLeftRunning
CHECK_DEADLOCK FALSE
