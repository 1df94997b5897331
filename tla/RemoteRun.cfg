CONSTANTS
  Kinds = {"run", "plain", "upload", "archive", "download"}
  Output <- MCOutput
  Digits <- MCDigits
  Statuses <- MCStatuses
  Keep = 1
  MaxFaults = 2
SPECIFICATION Spec
INVARIANTS
  ZeroMeansDone
  ReportedStatus
  OutputIsTail
  StatusNotMissed
  RepeatedOnlyAfterFailure
  NothingLeftBehind
PROPERTIES
  EveryRequestEnds
  ImplementsCall
CHECK_DEADLOCK FALSE
