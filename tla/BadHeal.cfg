SPECIFICATION FMFairSpec
CONSTANTS
  c1 = c1
  s1 = s1
  s2 = s2
  v1 = v1
  v2 = v2
  Callers <- OneCaller
  Days <- OneDay
  Slots = {s1}
  Values = {v1}
  FaultOps = {"write"}
  MaxFaults = 2
  MaxCrashes = 0
PROPERTY
  StaysUsable
