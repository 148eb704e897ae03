SPECIFICATION MCSpec
CONSTANTS
  Size = 4
  Pids = {1, 2}
  Free = Free
  Options <- MCLive
  Target = 0
  Seeds = {1}
  Alive0 = {1}
  Named0 = {1}
  Threaded = {1, 2}
  RingSize = 3
  NoPid = 0
CHECK_DEADLOCK FALSE
PROPERTIES EventuallyForgottenByTracer EventuallyTracked StopsOnSignal ServiceReturns
