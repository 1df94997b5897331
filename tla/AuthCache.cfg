CONSTANTS
  Clients = {maint, run}
  Browsers = {maint}
  Regular = {maint}
  MaxTokens = 3
  MaxFaults = 2
SPECIFICATION Spec
INVARIANTS
  RejectedAskChrome
PROPERTIES
  CacheUsableAgain
  MaintenanceLetIn
