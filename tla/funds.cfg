SPECIFICATION MCSpec
CONSTANTS
  Plans <- MCPlans
  Holdings <- MCHoldings
  Lag = 2
  Rechecks = 3
  MaxFaults = 3
  MaxOutside = 1
  Unread = Unread
  Shards <- MCShards
  Portfolios <- MCPortfolios
  Openings <- MCOpenings
  Switches <- MCSwitches
  Count = 2
  Polls = 2
  MaxFailures = 2
  None = None
  NaN = NaN
  Runs <- MCScanRuns
  MaxPages = 3
  MaxBarren = 2
  Confirmed = {2}
  MaxGap = 4
  ShortGap = 1
  Apart = 1
  TwinDiff = 1
  HeldMarkets <- MCHeldMarkets
  HeldQuestion <- MCHeldQuestion
  HeldSide <- MCHeldSide
  HeldCloses <- MCHeldCloses
  HeldResults <- MCHeldResults
  HeldBefore <- MCHeldBefore
  HeldBids <- MCHeldBids
  LastDay = 3
  Counts = {1, 2}
  MaxTrades = 3
  SellFrom = 4
  HoldDays = 2
  SellLeft = 1
  TradeLeft = 1
  MinDays = 2
  MaxAge = 2
INVARIANTS SaleReportMatchesAccount HedgeNeverOversold SellsOnlyThePlannedHolding
  ScanIsTrue KeepsWhatCanBePaid ProbeSpeaksTrue TradesAreDue
  SizedAtItsPrice PickedCanBeBought
PROPERTIES AlertIsRight
