SPECIFICATION Spec
CONSTANTS
  r1 = r1
  r2 = r2
  r3 = r3
  Callers <- TwoRuns
  Slots <- TwoRuns
  Days <- OneDay
  Values = {1, 2}
  FaultOps = {}
  MaxFaults = 0
  MaxCrashes = 0
  Kinds <- WritingTasks
  Targets = 2
  RetainDays = 0
  SlowPlaces = {"probing"}
  LogPlaces = {}
  MaxExpiries = 1
PROPERTY
  CommitPublishes
