CONSTANTS
  NoProvider = NoProvider
  Candidates <- SmallCandidates
  MaxRevisions = 3
SPECIFICATION Spec
INVARIANTS
  FallbackIsBounded
  GivesUpForAReason
  ApprovedIsVetted
  SensitiveNeedsSecurity
CHECK_DEADLOCK FALSE
