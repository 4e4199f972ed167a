SPECIFICATION FeedSpec
CONSTANTS
  PingInterval = 4
  PongTimeout = 2
  StaleTimeout = 7
  InitialDelay = 1
  MaxDelay = 3
  AttemptLimits = {0, 2}
  MaxAge = 7
  AttemptBound = 2
INVARIANTS
  OldThreadGone
PROPERTY NoSilentStall
CHECK_DEADLOCK FALSE
