SPECIFICATION Spec
CONSTANTS
    ClientHello = ClientHello
    LongHellos = {1}
    z = z
    fin = fin
    x1 = x1
    x2 = x2
    Workloads = {{x1, x2}}
    FrameLevel <- MCFrameLevel
    threshold = 4
    AckRanges = 2
    AckLevels = {"Initial", "Handshake", "1RTT"}
    MaxPN = 3
    MaxAttempts = 1
    MaxIncoming = 1
    MaxOutgoing = 2
    Uint64 = 64
CHECK_DEADLOCK FALSE
INVARIANT GapsRetransmitted
