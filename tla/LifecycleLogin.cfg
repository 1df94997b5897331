CONSTANTS
  Commands = {c1}
  MaxCommands = 2
  MaxProcs = 2
  MaxChromes = 1
  MaxAttempts = 2
  None = None
SPECIFICATION Spec
INVARIANTS
  LoginOpensVisibleChrome
CHECK_DEADLOCK FALSE
