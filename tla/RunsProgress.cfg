SPECIFICATION FairSpec
CONSTANTS
  r1 = r1
  r2 = r2
  r3 = r3
  Callers <- TwoRuns
  Slots <- TwoRuns
  Days <- TwoDays
  Values = {1}
  FaultOps = {"read"}
  MaxFaults = 1
  MaxCrashes = 0
  Kinds = {"ping", "archive", "rotate"}
  Targets = 1
  RetainDays = 0
  SlowPlaces <- Anywhere
  LogPlaces = {"starting", "adding", "rotated"}
  MaxExpiries = 2
PROPERTIES
  WorkerFreed
