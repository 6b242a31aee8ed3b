CONSTANTS
  c1 = c1  c2 = c2
  k1 = k1  none = none
  p = p  q = q
  Clients = {c1, c2}
  Keys = {k1}
  NoKey = none
  Payloads = {p, q}
  Requests <- RetriesAndRivals
  MaxRestarts = 0
  MaxFaults = 0
SPECIFICATION DispatchSpec
PROPERTIES
  PauseSurvivesDrain
CHECK_DEADLOCK FALSE
