SPECIFICATION OrderedFaultySpec
CONSTANTS
    MAXIMUM_ACTIVITIES_PER_SCHEDULE = 3
    UNEXISTING_NODE_INDEX = 99
    INVALID_TIME = INVALID_TIME
    Time = {0, 1}
    Data = {0, 1}
    InterruptionLimit = 2
INVARIANTS ScheduleTypeOK ListIntact NoNodeLeaks NoErrorWithoutFault
PROPERTIES ImplementsQueue CallReturns
CHECK_DEADLOCK TRUE
