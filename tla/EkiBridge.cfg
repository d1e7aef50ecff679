SPECIFICATION FairSpec
CONSTANTS
  MaxFrames = 2
  MaxCommands = 2
  Actions = {"START_RSI", "STOP_RSI", "RESET_FAULT"}
  AutoModes = {TRUE, FALSE}
INVARIANTS
  EkiTypeOK
  VerdictIsControllers
  RefusedNeverRuns
  OfflineIsQuiet
  FreshViewIsCurrent
PROPERTIES
  LinkRecovers
