SPECIFICATION Spec
CONSTANTS
  One = 3
  MaxEvents = 2
  ShortWindow = 1
  LongWindow = 2
  WsStaleTimeout = 2
  ChainLagTimeout = 1
  MaxSnapshotDepth = 1
  ActiveAssets = {"a", "b"}
  ActiveMarkets = {"m"}
  SourceTimeout = 2
  EntityTimeout = 2
  Payloads <- MCPayloads
  Fills <- MCFills
  MaxInputs = 4
  MaxCrashes = 1
INVARIANTS
  ReadersSeeTheStore
  ChainFillsAddUp
  CacheKnowsTheBook
  ReplayIsFaithful
CHECK_DEADLOCK FALSE
