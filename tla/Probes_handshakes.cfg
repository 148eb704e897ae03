SPECIFICATION ProbesSpec
CONSTANTS
  Tids = {3, 4}
  Procs = {1, 2}
  Uid <- MCUid
  InSession = {1}
  Named = {1}
  Options <- MCHandshakes
  Entries = 1
  RingSize = 1
  Depth = 2
  Deaths = 1
  Owner0 <- MCOwner0
  AnyId = 0
  IoPids = {1, 2, 3}
  IoAlive0 = {1, 3}
  IoSession0 = {1}
  IoOptions <- MCStdio
  IoLevels = 2
  IoEntries = 2
  IoRingSize = 1
  IoEvents = 4
  IoNoPid = 0
  BrProcs = {1, 2, 3}
  BrFds = {1}
  BrOptions <- MCBrowser
  BrRingSize = 1
  BrCacheSize = 2
CHECK_DEADLOCK FALSE
INVARIANT HandshakesReported
