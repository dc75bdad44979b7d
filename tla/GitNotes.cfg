SPECIFICATION Spec
CONSTANTS
  c1 = c1
  c2 = c2
  p1 = p1
  p2 = p2
  p3 = p3
  l1 = l1
  l2 = l2
  l3 = l3
  Clones = {c1, c2}
  Procs = {p1, p2, p3}
  Commits = {k1}
  Lines = {l1, l2}
  LockBroken = {p2}
  MaxAttempts = 2
  MaxVersion = 4
  NoProc = NoProc
  NoLine = NoLine
  NoCommit = NoCommit
  CloneOf <- MCCloneOf
  Original <- MCOriginal
INVARIANTS TypeOK 
PROPERTIES RemoteNeverRewinds 
CHECK_DEADLOCK FALSE
