SPECIFICATION FairSpec
CONSTANTS
  Thread = {t1}
  Script <- MCScript
  MaxConcurrent = 1
  MaxTotal = 1
  MaxTurns = 2
  ResumeTurns = 1
  Faults <- MCAll
INVARIANTS
  LimitsHold
  OneResume
  AnswerIsStored
PROPERTIES
  BackgroundReported
CHECK_DEADLOCK FALSE
