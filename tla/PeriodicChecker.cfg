SPECIFICATION FairCheckerSpec
CONSTANTS
  g1 = g1
  g2 = g2
  g3 = g3
  N = 2
  CheckPeriod <- MCPeriods
  Goroutines <- MCGoroutines
  MaxChildren = 1
  Horizon = 2
  MaxBacklog = 0
INVARIANTS
  OneCheckPerDevice
  RefsAreExact
  QuietWhenClosed
PROPERTIES
  UsesRundown
  CheckSpacing
  StopReturns
  CheckedForever
