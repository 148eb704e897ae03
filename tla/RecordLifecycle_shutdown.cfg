SPECIFICATION FairSpec
CONSTANTS
  Probes = {1, 2}
  HasTarget = TRUE
  HasSystem = TRUE
  NeedsSudo = FALSE
  MaxLines = 1
CHECK_DEADLOCK FALSE
PROPERTY ShutdownIsObeyed
