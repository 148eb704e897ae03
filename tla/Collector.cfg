SPECIFICATION CollectorSpec
CONSTANTS
  s1 = s1
  s2 = s2
  Streams <- MCStreams
  Traffics <- MCTraffics
  MaxPending = 2
  TTL = 1
  MaxTime = 2
  MonPids <- MCPids
  MonBudgets <- MCBudgets
  MonMaxInst = 3
CHECK_DEADLOCK FALSE
INVARIANTS OwnResponse UsageCountedOnce NamedInFile
PROPERTY CompleteIsFinal
