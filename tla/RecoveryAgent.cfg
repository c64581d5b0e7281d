SPECIFICATION Spec
CONSTANTS
    ClientHello = ClientHello
    LongHellos = {1}
    z = z
    fin = fin
    x1 = x1
    x2 = x2
    Workloads = {{z}, {fin}, {x1}}
    FrameLevel <- MCFrameLevel
    threshold = 4
    AckRanges = 1
    AckLevels = {}
    MaxPN = 1
    MaxAttempts = 2
    MaxIncoming = 2
    MaxOutgoing = 1
    Uint64 = 64
CHECK_DEADLOCK FALSE
INVARIANTS
    FramesKept
    LargestAcknowledgedWasSent
