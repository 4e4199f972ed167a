SPECIFICATION PaperSpec
CONSTANTS
  a1 = a1
  a2 = a2
  Envelopes <- MCEnvelopes
  BookViews <- MCBookViews
  Configs <- MCConfigs
  Clock = {1, 2, 3}
  SizeUnit = 2
  MaxChildOrders = 2
  MaxLots = 7
  MaxSubmits = 2
  MaxCancels = 2
  Assets = {a1, a2}
  StartingCash = 20
  AssetIndex <- MCAssetIndex
  MarkPrices <- MCMarkPrices
  MaxMarks = 1
INVARIANTS
  OutcomeMatchesFills
  AtomicAllOrNothing
  AcknowledgedStaysCancellable
  AccountAddsUp
  CompletePlansAreBought
CHECK_DEADLOCK FALSE
