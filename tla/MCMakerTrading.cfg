SPECIFICATION LiveSpec
CONSTANTS
  Assets = {"yes", "no"}
  StartingCash = 10
  ApprovedQuotes <- MCQuotes
  MarketEvents <- MCEvents
  ExecutionFills <- MCExecutionFills
  MakerConfigs <- MCConfigs
  Clock <- MCClock
  MaxActivations = 3
  MaxReports = 2
  LiveConfigs <- MCLiveConfigs
  MaxLiveCalls = 3
INVARIANTS
  QuotesStayWhole
  LedgerFollowsFills
  OneOrderPerSide
  RestingStaysCancellable
CHECK_DEADLOCK FALSE
