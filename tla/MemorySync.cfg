SPECIFICATION Spec
CONSTANTS
  a = a
  b = b
  e1 = e1
  e2 = e2
  Clients = {a, b}
  Contents = {e1, e2}
  Recorders <- MCRecorders
  Commands <- MCCommands
  ChunkSize = 2
  PageSize = 1
  CloudApi = FALSE
  Include = {FALSE, TRUE}
  MaxServer = 2
INVARIANTS StampsMatch PushedOnce
PROPERTY NeverUnarchived
CHECK_DEADLOCK FALSE
