SPECIFICATION Spec
CONSTANTS
    ClientBytes = 3
    ServerBytes = 0
    ClientISN = 1
    ServerISN = 1
    Bytes <- MCBytes
    ISN <- MCISN
    MTU = 1
    Window = 3
    BufferSize = 2
    SeqSpace = 64
    MaxRetransmissions = 1
    MaxPackets = 2
    DupAcks = 2
INVARIANT Reliable
CHECK_DEADLOCK FALSE
