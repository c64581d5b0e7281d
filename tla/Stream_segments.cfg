CONSTANTS
    Size = 3
    Frames <- SegmentFrames
    MaxUint64 <- MCMaxUint64
SPECIFICATION ListSpec
INVARIANT DeliveredIntact
