CONSTANTS
  a1 = a1  a2 = a2  b1 = b1
  A = A  B = B
  r1 = r1  r2 = r2
  None = None
  Threads = {a1, a2}
  Processes = {A}
  Runs = {r1, r2}
  ProcOf <- OneProcess
  TelemetryMayFail = TRUE
  MaxDepth = 1
  MaxLocks = 1
  MaxCrashes = 1
SPECIFICATION Spec
PROPERTY
  AcquireReturns
CHECK_DEADLOCK FALSE
