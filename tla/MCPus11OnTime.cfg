SPECIFICATION MCForwardSpec
CONSTANTS
    MAXIMUM_ACTIVITIES_PER_SCHEDULE = 3
    UNEXISTING_NODE_INDEX = 99
    INVALID_TIME = INVALID_TIME
    Time = {0, 1, 2}
    Data = {0, 1, 2}
    PUS11_MAXIMUM_DATA = 3
    t1 = t1
    t2 = t2
    t3 = t3
    t4 = t4
    TC <- MCTC
    NoTC = NoTC
    Malformed = Malformed
    DueDate <- MCDueDate
    BufferSize = 1
    MAX_UINT32 = 9999
    MaxRequest = 2
    FaultLimit = 1
    InterruptionLimit = 1
PROPERTIES ReleasedOnTime
