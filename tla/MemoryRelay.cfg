SPECIFICATION RelayFairSpec
CONSTANTS
  a = a
  b = b
  e1 = e1
  e2 = e2
  Clients = {a, b}
  Contents = {e1, e2}
  Recorders <- MCApart
  Commands <- MCNone
  ChunkSize = 2
  PageSize = 1
  CloudApi = FALSE
  Include = {FALSE}
  MaxServer = 2
  Machine = {a}
  Capacity = 1
  MaxNudge = 1
  Retired = {"archived"}
  Anonymous = TRUE
  MaxPushes = 1
  MaxFaults = 1
INVARIANTS RelayTypeOK PassedIsKept
PROPERTIES ResultsKept OutboxDrains EntriesArrive
CHECK_DEADLOCK FALSE
