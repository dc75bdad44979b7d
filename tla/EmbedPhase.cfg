SPECIFICATION FairSpec
CONSTANTS
  ix = ix
  s1 = s1
  t1 = t1
  t2 = t2
  t3 = t3
  t4 = t4
  Callers = {ix, s1}
  Searchers = {s1}
  Indexer = ix
  Question = t1
  Texts = {t1, t2, t3, t4}
  Capacity = 2
  MaxBatch = 3
  SubBatch = 2
  Slots = {1, 2}
  NoTask = NoTask
  Queue <- MCQueue
  Totals = {2, 4}
  Tokens <- MCTokens
  Requested = {0, 1}
  Second = 2
  Growth = 2
  Targets = {1, 9}
  MaxConnects = 1
  MaxSaturation = 1
INVARIANTS SavedInOrder
PROPERTIES  PhaseEnds ImplementsJob
CHECK_DEADLOCK FALSE
