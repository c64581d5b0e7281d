SPECIFICATION FairSpec
CONSTANTS
    a2 = a2
    a4 = a4
    b2 = b2
    b4 = b4
    Frames = {a2, a4, b2, b4}
    FrameLevel <- MCFrameLevel
    FrameLength <- MCFrameLength
    MTU = 3
    Uint16 = 8
    MaxQueued = 2
    MaxTransitions = 1
CHECK_DEADLOCK FALSE
INVARIANTS
    TypeOK
    FramesConserved
    NoStrandedFrames
    PacketsFollowKeys
    AtMostOneUncounted
PROPERTIES
    PacketNumbersIncrease
    QueuedFramesAreSent
