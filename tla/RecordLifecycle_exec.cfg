SPECIFICATION FairSpec
CONSTANTS
  Probes = {1, 2, 3}
  HasTarget = TRUE
  HasSystem = FALSE
  NeedsSudo = TRUE
  MaxLines = 1
CHECK_DEADLOCK FALSE
INVARIANTS TargetStopped ProbesStopped
PROPERTIES StopsWithTarget TargetRuns
