SPECIFICATION FairSpec
CONSTANTS
  c1 = c1
  c2 = c2
  c3 = c3
  Calls <- MCCalls
  RundownActive = 8
INVARIANTS
  CounterIsExact
  NoLostWakeup
PROPERTIES
  WaitReturns
  RefinesRundown
CHECK_DEADLOCK FALSE
