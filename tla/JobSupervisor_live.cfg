SPECIFICATION FairSpec
CONSTANTS
  j1 = j1  j2 = j2 
  t1 = t1  t2 = t2
  Job = {j1, j2}
  Thread = {t1}
  Owner <- MCOneOwner
  Command <- MCPlain
  Canceller = {}
  RawConfig <- MCOneConfig
  DefaultMaxJobs = 2
  DefaultMaxRunning = 1
PROPERTIES FinishedIsForgotten PlainJobEnds CloseEnds
