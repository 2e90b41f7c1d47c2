SPECIFICATION Spec
CONSTANTS
    buffer_size = 5
    tc_max = 4
    short = short
    long = long
    corrupted = corrupted
    misrouted = misrouted
    noise = noise
    Packet = {short, corrupted}
    Cells <- MCCellsEdge
    Valid = {short}
    Routable = {short}
    EmptyLength = 2
    MaxPackets = 4
PROPERTIES EveryTCAccepted
CHECK_DEADLOCK FALSE
