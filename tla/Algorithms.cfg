CONSTANTS
  None = None
  MaxLevels = 3
  MaxPrice = 3
  MaxSize = 2
  Halvings = 4
  One = 4
  Grain = 6
  Parts = 2
  Buffer = 1
  MinEdge = 4
  TicksPerHour = 2
  OffsetHours <- Eastern
  TopN = 2
  TopPatterns = 1
  Activities <- SomeActivities
  Points <- SomePoints
  Log <- Doublings
  LiveMarkets <- SomeLiveMarkets
  OpenMarkets <- SomeOpenMarkets
  MaxFeed = 5
  MaxHourly = 8
  MaxTicks = 4
  MaxListed = 3
SPECIFICATION Spec
INVARIANTS
  BestExecution
  BudgetBuysTheMost
  SmallerIsNoDearer
  ArbSearchesAreTight
  EveryTradeCountedOnce
  ClaimPercentagesAddUp
  WindowsAgree
  NoLookAhead
  PatternsAreInTheTables
  FallsMeasured
  VolatilityMeasured
  FailuresStayLocal
CHECK_DEADLOCK FALSE
