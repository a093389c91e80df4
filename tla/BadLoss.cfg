SPECIFICATION Spec
CONSTANTS
  alpha = alpha
  beta = beta
  Documents <- OneLossy
  Duration <- Windows
  DayLength = 6
  Offset = 5
  Opened = 3
  Horizon = 4
INVARIANT
  LossShown
