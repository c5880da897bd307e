SPECIFICATION ReportsSpec
CONSTANTS
  Outcomes <- MCOutcomes
  Policy <- MCPolicy
  Week = 2
  Month = 5
  MaxSamples = 3
  TopN = 2
  Limit = 2
  LastDay = 3
  MaxEvents = 5
  Listings <- MCListings
  Samples <- MCSamples
  Ages <- MCAges
  Caps = {15, 30}
  RiskBase = 288
  DeadAge = 180
  LowestAsk = 2000
INVARIANTS
  ReportsTypeOK
  WeeksMeet
  NothingHidden
  CutsStopAtMarket
  EngagedPremiumKept
  FairPriceFixedFirst
  AdviceWithinCap
PROPERTIES
  AdviceFollowsEvidence
CHECK_DEADLOCK FALSE
