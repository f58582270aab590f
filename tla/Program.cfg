SPECIFICATION FairSpec
CONSTANTS
  n1 = n1
  n2 = n2
  Notices = {n1}
  Configured = {"processwatcher"}
  Enabled = {"file", "slack", "email"}
INVARIANTS
  NoticeFindsLogger
  NoticesAreDelivered
  NothingLeftBehind
  FilesAreWhole
PROPERTIES
  PanicOnlyWhenStopping
  StopReturns
