CONSTANTS
    NSegments = 8
    N = 8
    Boundary <- MCBoundary
    Frames <- MCFrames
    MaxUint64 <- MCMaxUint64
SPECIFICATION SegFairSpec
INVARIANTS DeliversArrivedPrefix SegInv ClosedIsComplete
PROPERTY StreamCompletes
