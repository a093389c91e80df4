SPECIFICATION FMSpec
CONSTANTS
  c1 = c1
  s1 = s1
  s2 = s2
  v1 = v1
  v2 = v2
  Callers <- OneCaller
  Days <- TwoDays
  Slots = {s1, s2}
  Values = {v1}
  FaultOps <- OwnFaults
  MaxFaults = 2
  MaxCrashes = 1
SYMMETRY SlotSymmetry
INVARIANTS
  TypeOK
  Durable
PROPERTIES
  SessionHidden
  OnlyCommitTears
  ArchiveKeepsSlots
