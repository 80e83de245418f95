SPECIFICATION FairSpec
CONSTANTS
  j1 = j1  j2 = j2 
  t1 = t1  t2 = t2
  Job = {j1, j2}
  Thread = {t1, t2}
  Owner <- MCTwoOwners
  Command <- MCMixed
  Canceller = {"w1"}
  RawConfig <- MCTightConfig
  DefaultMaxJobs = 2
  DefaultMaxRunning = 2
INVARIANTS
  NoOrphan
  FinishedIsReaped
  CloseIsComplete
  OutcomeMatchesStop
PROPERTIES
  ImplementsPool
  CloseEnds
