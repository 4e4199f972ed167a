SPECIFICATION RiskSpec
CONSTANTS
  a1 = a1
  a2 = a2
  m1 = m1
  m2 = m2
  Intents <- MCIntents
  Signals <- MCSignals
  Decisions <- MCDecisions
  AskBooks <- MCAskBooks
  Policy <- EdgePolicy
  Inputs <- MCInputs
  IdempotencyKeys <- MCIdempotencyKeys
  NoKey = "none"
  HashString <- MCHashString
  Assets = {a1, a2}
  Markets = {m1, m2}
  Times <- MCTimes
  MaxReservations = 3
  MaxI64 = 1000000
  LotUnit = 1
  NsPerSecond = 2
  MaxIntentLegs = 16
INVARIANT ApprovedEdgeMeetsPolicy
CHECK_DEADLOCK FALSE
