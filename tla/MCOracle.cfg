SPECIFICATION Spec
CONSTANTS
  MaxBruteforceVariables = 4
  PayoutOneTick = 10
  MaxBundleLegs = 3
  GammaLists <- MCGammaLists
  TargetRecords = 3
  GammaPageLimit = 2
  Responses <- MCResponses
  HandWritten <- MCHandWritten
  Earlier <- MCEarlier
  Options <- MCOptions
  Leftovers <- MCLeftovers
  MaxRuns <- MCMaxRuns
  Idle = Idle
INVARIANTS
  OnlyApprovedRulesCompile
  CompilerIsExact
  GuaranteedPayoutHolds
  ArtifactLoadsWhole
CHECK_DEADLOCK FALSE
