SPECIFICATION Pus11FaultySpec
CONSTANTS
    MAXIMUM_ACTIVITIES_PER_SCHEDULE = 3
    UNEXISTING_NODE_INDEX = 99
    INVALID_TIME = INVALID_TIME
    Time = {0, 1}
    Data = {0, 1, 2}
    PUS11_MAXIMUM_DATA = 3
    t1 = t1
    t2 = t2
    t3 = t3
    t4 = t4
    TC <- MCThreeTC
    NoTC = NoTC
    Malformed = Malformed
    DueDate <- MCDueDateSoon
    BufferSize = 1
    MAX_UINT32 = 9999
    MaxRequest = 2
    FaultLimit = 1
    InterruptionLimit = 1
INVARIANTS Pus11TypeOK ActivitiesHaveTheirTC CountsAgree DataCountCoversSchedule
PROPERTIES KeepsPromise ServiceAnswers
