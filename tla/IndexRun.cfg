SPECIFICATION FairSpec
CONSTANTS
  u1 = u1
  u2 = u2
  t = t
  d = d
  Users = {u1, u2}
  Files = {t, d}
  Docs = {d}
  Versions = {1, 2}
  Parts <- MCParts
  Tree <- MCTree
  Ids = {1, 2, 3, 4, 5, 6, 7, 8}
  Large = 1
  Detached <- MCDetached
  Forced = {FALSE, TRUE}
  MaxEdits = 1
  MaxFaults = 1
  NoProc = NoProc
  NoFile = NoFile
  Gone = Gone
  Opaque = Opaque
INVARIANTS  VectorsBelong
PROPERTIES HandoffTruthful WorkIsKept EverythingEmbedded IndexConverges
CHECK_DEADLOCK FALSE
