SPECIFICATION Spec
CONSTANTS
    A = A
    B = B
    t1 = t1
    t2 = t2
    t3 = t3
    t4 = t4
    t5 = t5
    t6 = t6
    Task = {A, B}
    NoTask = NoTask
    TC = {t1, t2, t3, t4, t5, t6}
    NoTC = NoTC
    Route <- MCRoute
    Correct = {t1, t2, t3, t4, t5}
    AckAcceptance = {t2}
    AckCompletion = {t2, t3, t4}
    Known = {t1, t2, t3}
    TMRequested = {t1, t2}
    Outcomes <- MCOutcomes
    RxTypes = {"PERIPHERAL", "BUFFER"}
    TcBufferSize = 2
    AckBufferSize = 2
    TmBufferSize = 1
    SentLimit = 3
INVARIANTS ExecutedAsForwarded ReportsConsistent ReportsTruthful ReportsNameTheirTC
PROPERTIES EveryTCReported
CHECK_DEADLOCK FALSE
