SPECIFICATION FairSpec
CONSTANTS
  Cmds = {c1, c2}
  Pids = {1, 2, 3, 4}
  Ports = {1, 2, 3, 4}
  Dbs = {d1, d2}
  DefaultDb = d1
  MaxStops = 1
  MaxFaults = 2
  NoCmd = NoCmd
  NoPid = NoPid
  NoPort = NoPort
  NoDb = NoDb
  Free = Free
INVARIANTS OneServer
PROPERTIES   ComesUp
