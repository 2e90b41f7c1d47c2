SPECIFICATION Spec
CONSTANTS
    buffer_size = 8
    tc_max = 6
    short = short
    long = long
    corrupted = corrupted
    misrouted = misrouted
    noise = noise
    Packet = {short, long, corrupted, misrouted, noise}
    Cells <- MCCells
    Valid = {short, long, misrouted}
    Routable = {short, long}
    EmptyLength = 2
    MaxPackets = 4
INVARIANTS TcParserTypeOK AcceptedOnceInOrder NoFalseNack
PROPERTIES EveryTCAccepted
CHECK_DEADLOCK FALSE
