SPECIFICATION LifeSpec
CONSTANTS
  n1 = n1
  n2 = n2
  Notices = {}
  Configured = {}
  Enabled = {"file"}
PROPERTIES
  StartReturns
CHECK_DEADLOCK FALSE
