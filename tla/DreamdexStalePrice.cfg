CONSTANTS
  Size = 4
  One = 400
  Parts = 2
  Buffer = 9
  MinEdge = 12
  MinConfidence = 980
  MinTimeToExpiry = 45
  MaxPriceAge = 30
  MaxDataAge = 20
  MaxSlippageBps = 300
  MaxPerMarket = 810
  MaxTotal = 1050
  Procs = {p}
  Markets = {m}
  Expiry <- MCExpiry
  Books <- MCBooks
  Estimates <- MCEstimates
  ExclusiveSettle = TRUE
  Steps = {40}
  MaxClock = 80
  MaxTrades = 1
SPECIFICATION Spec
INVARIANTS
  NoTradeOnStalePrice
