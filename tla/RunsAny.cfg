SPECIFICATION Spec
CONSTANTS
  r1 = r1
  r2 = r2
  r3 = r3
  Callers <- ThreeRuns
  Slots <- ThreeRuns
  Days <- OneDay
  Values = {1, 2}
  FaultOps = {"archwrite"}
  MaxFaults = 1
  MaxCrashes = 1
  Kinds <- WritingTasks
  Targets = 2
  RetainDays = 0
  SlowPlaces = {"begun", "starting", "probing", "adding", "archiving"}
  LogPlaces = {}
  MaxExpiries = 1
SYMMETRY RunSymmetry
INVARIANTS
  RunTypeOK
  Durable
  NoLeakedSession
PROPERTIES
  EndedRunsSilent
  SerialCommitPublishes
  SerialAllAtOnce
  SerialArchivedStays
  ImplementsStore
