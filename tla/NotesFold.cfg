SPECIFICATION ReadSpec
CONSTANTS
  EntityIds = {1, 2}
  Tags = {"t", "u"}
  Universe <- MCUniverse
  CommitIds = {1, 2}
  Limits = {0, 1, 2}
  Moments = {1, 2, 3}
  MaxLines = 3
INVARIANTS FoldIsConvergent NoResurrection AsOfRespectsWindow
CHECK_DEADLOCK FALSE
