SPECIFICATION FairSpec
CONSTANTS
  NumTasks = 2
  Interval <- TwoIntervals
  QueueCap = 2
  Horizon = 6
  MaxStep = 4
  MaxBack = 3
INVARIANTS
  OnBoundary
PROPERTIES
  OncePerBoundary
  QuietAfterStop
  QueuedRuns
  StopEnds
