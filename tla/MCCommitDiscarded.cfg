CONSTANTS
  Starter = starter
  Reviewers = {r1, r2}
  Routings <- CodeRouting
  Decisions <- ApproveOrReject
  MaxRevisions = 1
  MaxCrashes = 0
SPECIFICATION Spec
SYMMETRY ReviewerSymmetry
INVARIANT
  CommittedStatusIsTrue
CHECK_DEADLOCK FALSE
