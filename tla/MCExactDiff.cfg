CONSTANTS
  r1 = r1
  r2 = r2
  f = f
  g = g
  x = x
  y = y
  none = none
  Runs = {r1, r2}
  Files = {f, g}
  Lines = {x, y}
  NoAnchor = none
  Base <- SmallBase
  Patches <- SmallPatches
  MaxRevisions = 1
SYMMETRY RunSymmetry
SPECIFICATION Spec
PROPERTY
  CommitIsApprovedDiff
CHECK_DEADLOCK FALSE
