CONSTANTS
  work = work
  home = home
  daemonW = daemonW
  clientW = clientW
  daemonH = daemonH
  None = None
  Accounts = {work, home}
  Programs = {daemonW, clientW, daemonH}
  Daemons = {daemonW, daemonH}
  AccountOf <- MCAccountOf
  Offset <- MCOffset
  PortCount = 4
  MaxCrashes = 1
SPECIFICATION Spec
INVARIANTS
  PersistedPairIsUsed
PROPERTIES
  PersistedForGood
