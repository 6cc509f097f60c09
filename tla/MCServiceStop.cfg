SPECIFICATION LoopSpec
CONSTANTS
    Configs <- Unbounded
    MaxRequests = 2
PROPERTIES
    StopTimeoutEnds
CHECK_DEADLOCK FALSE
