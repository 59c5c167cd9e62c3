SPECIFICATION Spec
\* The operator stops once a command was not refused.
CHECK_DEADLOCK FALSE
CONSTANTS
  Markets <- MCMarkets
  Pool <- MCPool
  Opens <- MCOpens
  Closes <- MCCloses
  Timeout = 2
  Latency = 1
  MaxClock = 8
  MaxAttempts = 3
INVARIANTS
  OnlyPermittedWrites
  NeverInAnotherMarket
  RefusedMeansNotPlaced
