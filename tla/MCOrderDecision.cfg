CONSTANTS
  MaxI64 = 1000000
  LotUnit = 1
  KernelIntentTtlNs = 1
  AskSides <- MCAskSides
  Plans <- MCPlans
  BundleOf <- MCBundleOf
  Budgets <- MCBudgets
  Margins <- MCMargins
  Configurations <- MCConfigurations
  Ledgers <- MCLedgers
  MaxNow = 3
  MaxUpdates = 2
  MaxCalls = 2
  MaxEvents = 1
  MaxLevels = 3
  Prices = {0, 1, 2, 3, 5}
  Sizes = {0, 1, 2, 5, 9, 13}
  Quantities = {1, 2, 3, 4, 6}
  NarrowMax = 12
  PartsOfLot = 2
SPECIFICATION MCSpec
INVARIANTS
  PricedAtTheCheapest
  CacheIsTransparent
  DecisionsAreBest
  FastPathIsSound
  KernelAgrees
CHECK_DEADLOCK FALSE
