CONSTANTS
  Api = {t1, t2}
  Streams = {st}
  Heavy = {t1, t2, st}
  None = None
  MaxFaults = 2
SPECIFICATION Spec
INVARIANTS
  LeaseFollowsTerminal
  NothingLeftBehind
PROPERTIES
  LeaseComesBack
  EverySessionGetsLease
CHECK_DEADLOCK FALSE
