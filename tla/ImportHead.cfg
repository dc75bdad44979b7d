SPECIFICATION SoloSpec
CONSTANTS
  r1 = r1
  r2 = r2
  k1 = k1
  Readers = {r1}
  Commits = {k1}
  Base = {}
  Entries = {1}
  Here <- MCNone
  There <- MCEntry
  ImportLimit = 1
INVARIANT ReachableIsVisible
CHECK_DEADLOCK FALSE
