SPECIFICATION Spec
CONSTANTS
    ClientHello = ClientHello
    LongHellos = {1, 2}
    z = z
    fin = fin
    x1 = x1
    x2 = x2
    Workloads = {{}}
    FrameLevel <- MCFrameLevel
    threshold = 4
    AckRanges = 1
    AckLevels = {"Initial", "Handshake", "1RTT"}
    MaxPN = 2
    MaxAttempts = 2
    MaxIncoming = 1
    MaxOutgoing = 2
    Uint64 = 64
CHECK_DEADLOCK FALSE
INVARIANT NoFrameForgotten
