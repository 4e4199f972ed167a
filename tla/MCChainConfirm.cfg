SPECIFICATION ChainSpec
CONSTANTS
  Fills <- MCFills
  Shapes = {"s", "t"}
  Capacity = 2
  PendingWindow = 1
  ExpireUnmatched = 2
  MaxCandidateMatches = 8
  ChainClock <- MCChainClock
  MaxHints = 3
  MaxLogs = 3
INVARIANTS
  HintConcludedOnce
  StoreFollowsChain
CHECK_DEADLOCK FALSE
