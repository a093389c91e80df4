SPECIFICATION FairSpec
CONSTANTS
  x1 = x1
  RunLines <- OneRunLine
  Lines <- Followed
  LevelOf <- AllInfo
  Dates <- TwoDates
  FileFaults = {"stat", "statdst", "rename", "open", "write"}
  MaxFileFaults = 1
  Files <- TwoFiles
  WithServer = TRUE
INVARIANTS
  AppTypeOK
  LinesKept
  LinesOnce
  ServerDown
PROPERTIES
  BootstrapCompletes
  NothingDropped
  SignalEnds
