SPECIFICATION Spec
CONSTANTS
    ClientBytes = 0
    ServerBytes = 2
    ClientISN = 1
    ServerISN = 1
    Bytes <- MCBytes
    ISN <- MCISN
    MTU = 1
    Window = 3
    BufferSize = 1
    SeqSpace = 64
    MaxRetransmissions = 1
    MaxPackets = 2
    DupAcks = 2
CONSTRAINT OneHandshake
INVARIANTS StreamIntact AckedIsReceived NoByteLost NothingStalls
CHECK_DEADLOCK FALSE
