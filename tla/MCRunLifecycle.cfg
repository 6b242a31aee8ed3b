CONSTANTS
  Starter = starter
  Reviewers = {r1}
  Routings <- CodeRouting
  Decisions <- AllKinds
  MaxRevisions = 1
  MaxCrashes = 1
SPECIFICATION Spec
INVARIANTS
  CommitIsGated
  CommittedStatusIsTrue
  PauseIsReal
PROPERTIES
  ThreadsDescend
  CancelStopsCommit
  ThreadsReturn
CHECK_DEADLOCK FALSE
