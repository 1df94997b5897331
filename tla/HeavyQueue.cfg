CONSTANTS
  Entrants = {e1, e2, e3, e4}
  None = None
SPECIFICATION QueueSpec
INVARIANTS
  LeaseConsistent
  NoLostWakeup
PROPERTIES
  ImplementsFifoLock
  EveryEntrantGetsTurn
