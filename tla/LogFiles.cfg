SPECIFICATION FairLogSpec
CONSTANTS
  HalfRange = 16
  UnitOfTime <- MCUnitOfTime
  UnitOfMemory <- MCUnitOfMemory
  TenSeconds = 1
  TenMinutes = 2
  SevenDays = 6
  MaxPort = 3
  Durations <- MCDurations
  Amounts <- MCAmounts
  PortLists <- MCPortLists
  Channels <- MCChannels
  Names <- MCNames
  SeverityTexts <- MCSeverityTexts
  m1 = m1
  m2 = m2
  Messages = {m1, m2}
  DayLength = 4
  MaxDelay = 1
  Horizon = 11
  Probed <- MCProbed
INVARIANTS
  AcceptedIsUsable
  SpansAreExact
PROPERTIES
  BusyFilesStay
  OldFilesGo
CHECK_DEADLOCK FALSE
