SPECIFICATION Spec
CONSTANTS
  Size = 4
  Pids = {1, 2, 3}
  Free = Free
  Options <- MCSafety
  Target = 0
  Seeds = {2}
  Alive0 = {1, 2}
  Named0 = {}
  Threaded = {2}
  RingSize = 2
  NoPid = 0
CHECK_DEADLOCK FALSE
INVARIANTS NoStaleTracking SelectedIsReported NothingIsLeft
