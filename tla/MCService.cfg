SPECIFICATION FairSpec
CONSTANTS
    Configs <- MCConfigs
    MaxRequests = 2
INVARIANTS
    TypeOK
    RightTime
    JobAwaited
PROPERTIES
    LeftoversKilled
    ManualStopFinal
    StartEnds
    StopEnds
CHECK_DEADLOCK FALSE
