SPECIFICATION Spec
CONSTANTS
    A = A
    B = B
    Producer = {A, B}
    Buffer = 2
    BufferOf <- MCBufferOf
    BufferSize = 2
    Quarter = 2
    MaxTM = 3
INVARIANTS TelemetryTypeOK OrderKept NumbersConsecutive WellFormed
PROPERTIES EveryTMLeaves
CHECK_DEADLOCK FALSE
