CONSTANTS
  Kernels = {k1, k2, k3}
  Resets = {r1, r2}
  None = None
  MaxFaults = 2
SPECIFICATION Spec
INVARIANTS
  ClosedKernelsGone
  QuietSuccessIsClean
  CheckedKernelIsNew
CHECK_DEADLOCK FALSE
SYMMETRY Symmetry
