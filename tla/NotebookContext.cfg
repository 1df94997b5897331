CONSTANTS
  Notebooks = {n1, n2}
  Ensurers = {maint}
  Runners = {run1}
  Resetters = {reset}
  None = None
  MaxFaults = 2
SPECIFICATION Spec
INVARIANTS
  InsertOnlyWithoutRecord
  RecordReadable
  LockHeldWhileDeciding
PROPERTIES
  EveryOperationEnds
  UsableNotebookRecorded
