SPECIFICATION FairSpec
CONSTANTS
  a = a
  b = b
  e1 = e1
  e2 = e2
  Clients = {a, b}
  Contents = {e1, e2}
  Recorders <- MCApart
  Commands <- MCCommands
  ChunkSize = 1
  PageSize = 1
  CloudApi = TRUE
  Include = {TRUE}
  MaxServer = 2
 
PROPERTIES EntriesSpread 
CHECK_DEADLOCK FALSE
