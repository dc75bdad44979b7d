SPECIFICATION FairSpec
CONSTANTS
  r1 = r1
  r2 = r2
  k1 = k1
  Readers = {r1, r2}
  Commits = {k1}
  Base = {}
  Entries = {1}
  Here <- MCArchive
  There <- MCEntry
  ImportLimit = 1
INVARIANT GateHonest
PROPERTIES ArchivedRowStays GateCloses EntriesBecomeVisible
CHECK_DEADLOCK FALSE
