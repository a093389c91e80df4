SPECIFICATION Spec
CONSTANTS
  alpha = alpha
  beta = beta
  Documents <- AnyDocument
  Duration <- Windows
  DayLength = 6
  Offset = 5
  Opened = 9
  Horizon = 13
INVARIANTS
  DashTypeOK
  ViewFollowsData
  CardsCurrent
  CardsJudged
  ChartCurrent
