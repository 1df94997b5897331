CONSTANTS
  Commands = {c1, c2}
  MaxCommands = 2
  MaxProcs = 3
  MaxChromes = 1
  MaxAttempts = 2
  None = None
SPECIFICATION Spec
INVARIANTS
  QuietStartIsComplete
  LogoutSticks
  ChromeBelongsToDaemon
PROPERTIES
  EveryCommandReturns
CHECK_DEADLOCK FALSE
