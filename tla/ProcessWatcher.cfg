SPECIFICATION FairSpec
CONSTANTS
  r1 = r1
  default = default
  Pids = {1, 2}
  Parent <- MCFork
  Exe <- MCExe
  WatchedExe = "server"
  IncludeChilds = FALSE
  Channels = {default}
  SettingsChannel = default
  Requests = {r1}
  MaxSavers = 2
INVARIANTS
  WatchedOnce
  RefsAreExact
  FileFollowsList
  NoticedIsGone
PROPERTIES
  EndIsNoticed
  MatchingIsWatched
