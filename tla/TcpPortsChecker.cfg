SPECIFICATION Spec
CONSTANTS
  g1 = g1
  g2 = g2
  g3 = g3
  N = 1
  CheckPeriod <- MCPeriods
  Goroutines <- MCGoroutines
  MaxChildren = 2
  Horizon = 1
  MaxBacklog = 0
  Ports <- MCPorts
SYMMETRY Symmetry
INVARIANTS
  DropIsTold
