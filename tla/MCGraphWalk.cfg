CONSTANTS
  MaxRevisions = 3
  Routings <- AllRoutings
  Decisions <- AllDecisions
SPECIFICATION Spec
INVARIANTS
  CommitIsGated
  RevisionBudget
  RefusedEndsInCleanup
  ReportedStatusIsTrue
PROPERTIES
  WalkDescends
  WalkSettles
CHECK_DEADLOCK FALSE
