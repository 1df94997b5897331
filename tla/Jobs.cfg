CONSTANTS
  Ids = {j1, j2, j3}
  Ordered = {j1, j2}
  Watched = {j1}
  Entrants = {j1, j2, d1}
  None = None
  Retention = 2
  PollGap = 1
  LockDelay = 1
  Timeout = 3
  MaxTime = 3
SPECIFICATION Spec
INVARIANTS
  TableTellsThread
  ClientKnowsItsJob
  OneHeavyAtATime
  ClientReportsOutcome
PROPERTIES
  ImplementsExecutor
  FinalStatusKept
  EveryJobEnds
