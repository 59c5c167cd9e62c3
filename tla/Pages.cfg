CONSTANTS
  MaxRetries = 2
  BackoffBase = 4
  BackoffCap = 7
  MaxPage = 2
  MaxRecords = 5
  MaxInitial = 4
  MaxInserts = 2
  PageSize = 2
  MaxMarkets = 4
  MaxListed = 4
  MaxMoves = 2
  Threads = {t, u}
  Keys = {"scan", "inspect"}
  NoKey = NoKey
  Ttl = 2
  MaxCompute = 2
  MaxClock = 5
SPECIFICATION Spec
INVARIANTS
  BoundedRetries
  OutcomeExplained
  PagesJoin
  RepeatsAreNews
  NothingLost
  MarketsJoin
  MarketsComplete
  AnswersAreFresh
PROPERTIES
  ReadingsEnd
\* the reading ends
CHECK_DEADLOCK FALSE
