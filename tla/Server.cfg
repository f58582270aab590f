SPECIFICATION FairSpec
CONSTANTS
  c1 = c1
  c2 = c2
  c3 = c3
  Conns = {c1, c2, c3}
INVARIANTS
  CloseWaits
  OneOutcome
  StopIsNoError
PROPERTIES
  WaitReturns
CHECK_DEADLOCK FALSE
