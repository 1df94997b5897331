CONSTANTS
  Kernels = {k1, k2, k3}
  Resets = {r1}
  None = None
  MaxFaults = 1
SPECIFICATION Spec
INVARIANTS
  SurvivingFlagFails
CHECK_DEADLOCK FALSE
SYMMETRY Symmetry
