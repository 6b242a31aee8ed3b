CONSTANTS
  c1 = c1  c2 = c2
  origin = origin  other = other  foreign = foreign
  main = main  release = release
  Clients = {c1, c2}
  Repos = {origin, other, foreign}
  Bases = {main, release}
  Requests <- RetriesAndStrays
  Origin = origin
  Authorized = {origin, other}
  Declared = origin
  NoRepo = NoRepo
  MaxPRs = 1
  MaxFaults = 1
SPECIFICATION Spec
INVARIANTS
  FaultlessSucceeds
  RecordedAnswers
PROPERTIES
  RetriesOpenNothing
  RetrySucceeds
CHECK_DEADLOCK FALSE
