CONSTANTS
  a1 = a1  a2 = a2  b1 = b1
  A = A  B = B
  r1 = r1  r2 = r2
  None = None
  Threads = {a1, a2, b1}
  Processes = {A, B}
  Runs = {r1, r2}
  ProcOf <- TwoProcesses
  TelemetryMayFail = FALSE
  MaxDepth = 1
  MaxLocks = 2
  MaxCrashes = 1
SPECIFICATION Spec
SYMMETRY RunSymmetry
INVARIANTS
  MutualExclusion
  CountIsHolders
  KernelLockIsUsed
PROPERTY
  ImplementsRunLock
CHECK_DEADLOCK FALSE
