SPECIFICATION ReassemblySpec
CONSTANTS
  s1 = s1
  s2 = s2
  s3 = s3
  Traffics <- MCTraffics
  Timeout = 0
  MaxBuffers = 1
  MaxTime = 1
  H2Conns = {"x", "y"}
  H2Traffics <- MCHttp2
  H2Threads = {1, 2}
  H2Values <- MCValues
  H2MaxStreams = 2
  H2MaxBody = 2
  H2Losses = 1
CHECK_DEADLOCK FALSE
INVARIANTS Accounted ThreadsApart Whole OwnBody OwnHeaders EndedIsEmitted
PROPERTY JoinsFresh
