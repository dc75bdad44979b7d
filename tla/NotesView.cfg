SPECIFICATION CalmSpec
CONSTANTS
  c1 = c1
  c2 = c2
  p1 = p1
  p3 = p3
  k1 = k1
  k2 = k2
  l1 = l1
  l2 = l2
  l3 = l3
  Clones = {c1, c2}
  Procs = {p1, p3}
  Commits = {k1, k2}
  Lines = {l1, l2, l3}
  LockBroken = {}
  MaxAttempts = 1
  MaxVersion = 4
  NoProc = NoProc
  NoLine = NoLine
  NoCommit = NoCommit
  CloneOf <- MCCloneOf
  Original <- MCOriginal
  CommitPos <- MCCommitPos
  LinePos <- MCLinePos
  Record <- MCRecord
  EntityIds = {1}
  Tags = {1}
 
PROPERTY EntriesOnlyGrow
CHECK_DEADLOCK FALSE
