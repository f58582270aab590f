SPECIFICATION Spec
CONSTANTS
  g1 = g1
  g2 = g2
  g3 = g3
  new = new
  empty = empty
  N = 1
  CheckPeriod <- MCPeriods
  Goroutines <- MCGoroutines
  MaxChildren = 1
  Horizon = 1
  MaxBacklog = 0
  Content <- MCContent
  GroupCount = 2
  Values = {new, empty}
  Empty = empty
  Still <- MCStill
SYMMETRY Symmetry
INVARIANTS
  FailureIsTold
  SameIsStalled
