SPECIFICATION CountingSpec
CONSTANTS
  Paths <- MCPaths
  ParentOf <- MCParent
  Root = "r"
  Live0 = {"r", "c", "o"}
  Children = {TRUE, FALSE}
  MapSize = 3
  Changes = 2
  Procs = {1, 2}
  Where0 <- MCWhere
  FilterPids = {TRUE, FALSE}
  CtxSize = 1
  Calls = 2
  Moves = 2
  AgCpus = {c1, c2}
  AgElems = {e1, e2}
  AgKeys = {1, 2, 3}
  AgPidOf <- MCPidOf
  AgDelCap = 2
  AgOps = 4
  AgRounds = 3
  AgNone = AgNone
  OpPids = {1, 2}
  OpPaths = {1, 2}
  OpHash <- MCHash
  OpMaxHashes = 2
  OpMaxLimits = 1
  OpPerSecond = 2
  OpSecond = 2
  OpWindow = 1
  OpWide = 64
  OpSkew = 1
  OpMaxTime = 3
  OpMaxOpens = 5
  OpNone = OpNone
CHECK_DEADLOCK FALSE
INVARIANTS RefreshExact OwnDescriptor SelectedAreCounted NeverOverReported ExactWithoutOverlap FlushIsComplete Accounted
PROPERTY WindowDecides
