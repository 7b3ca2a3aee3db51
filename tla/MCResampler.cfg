SPECIFICATION Spec
CONSTANTS
  Rates <- MCRates
  Stamps = {0, 2, 5, 6, 9}
  Durations = {0, 2}
  Pairs <- MCPairs
  History = 2
  MinHistory = 2
  MaxSources = 5
  None = None
INVARIANTS
  TimedAsFps
  OfOnePair
  ShowsItsTime
  CutsFromRecentMotion
