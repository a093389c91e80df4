SPECIFICATION FairSpec
CONSTANTS
    Word = 4096
    Minute = 2
    Hour = 4
    Day = 8
    Second = 5
    Milli = 1
    Rtts = {1, 2, 4, 9}
    RawConfigs <- MCRawConfigs
    Platforms <- MCPlatforms
    Answers <- MCAnswers
CHECK_DEADLOCK FALSE
INVARIANTS
    PingTypeOK
    NoPingerLeft
    PingersBounded
    OncePerFamily
    EveryTargetTried
    OnlySpikesGo
    ScheduleAsWritten
PROPERTIES
    RunEnds
