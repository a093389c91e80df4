SPECIFICATION Spec
CONSTANTS
    Word = 4096
    Minute = 2
    Hour = 4
    Day = 8
    Second = 5
    Milli = 1
    Rtts = {1}
    RawConfigs <- LongArchive
    Platforms <- MCPlatforms
    Answers <- MCAnswers
CHECK_DEADLOCK FALSE
INVARIANTS
    ArchivesOnlyOld
