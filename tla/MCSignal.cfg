CONSTANTS
  MaxI64 = 1000000
  LotUnit = 1
  Assets <- MCAssets
  Bundles <- MCBundles
  Setups <- MCSetups
  AskSides <- MCAskSides
  OpeningBooks <- MCOpeningBooks
  Conditions <- MCConditions
  SecondNs = 2
  DedupeTtlNs = 2
  MaxNow = 3
  MaxUpdates = 1
  MaxScans = 3
  MaxResolutions = 1
SPECIFICATION SignalSpec
INVARIANTS
  OpportunitiesAreSound
  NoRepeatWithinTtl
  LimiterIsFair
  ScanPathsAgree
CHECK_DEADLOCK FALSE
