SPECIFICATION CompactionSpec
CONSTANTS
  Settings <- MCSettings
  UserSizes = {500, 45000}
  ResultSizes = {1000, 9000, 30000}
  SummarySizes = {300, 6000, 45000}
  MaxPast = 1
  MaxRounds = 3
PROPERTIES
  WorkNeverLost
CHECK_DEADLOCK FALSE
