SPECIFICATION Spec
CONSTANTS
  g1 = g1
  g2 = g2
  g3 = g3
  g4 = g4
  N = 1
  CheckPeriod <- MCPeriods
  Goroutines <- MCManyGoroutines
  MaxChildren = 3
  Horizon = 0
  MaxBacklog = 4
SYMMETRY Symmetry
INVARIANTS
  LowSpaceIsTold
  ToldIsSaved
PROPERTIES
  NotifyOncePerDrop
