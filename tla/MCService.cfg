CONSTANTS
  c1 = c1
  w1 = w1  w2 = w2
  k1 = k1  none = none
  p = p
  Clients = {c1}
  Keys = {k1}
  NoKey = none
  Payloads = {p}
  Requests <- OneClient
  MaxRestarts = 0
  MaxFaults = 1
  Watchdogs = {w1, w2}
  AutoCancel = TRUE
SPECIFICATION Spec
INVARIANTS
  ReportedOnce
  BusyRunsAreSpared
  FlagIsFollowedUp
PROPERTIES
  FlaggedIsCancelled
CHECK_DEADLOCK FALSE
