SPECIFICATION LoopSpec
CONSTANTS
  MaxI64 = 1000000
  LotUnit = 10
  PriceOne = 100
  TteCurve <- MCTteCurve
  Assets = {"yes", "no"}
  StartingCash = 1000
  DriverConfigs <- MCConfigs
  BaseConfig <- MCBase
  Updates <- MCUpdates
  Gaps <- MCGaps
  MaxUpdates = 4
INVARIANTS
  RestingIsTracked
  StrategyQuotesAreSound
  InventoryIsBounded
CHECK_DEADLOCK FALSE
