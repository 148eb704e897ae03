SPECIFICATION Spec
CONSTANTS
  Size = 4
  Pids = {1, 2, 3}
  Free = Free
  Options <- MCDuration
  Target = 0
  Seeds = {}
  Alive0 = {1}
  Named0 = {}
  Threaded = {1, 2}
  RingSize = 3
  NoPid = 0
CHECK_DEADLOCK FALSE
INVARIANT LongLivedIsReported
