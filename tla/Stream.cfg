CONSTANTS
    Size = 5
    Frames <- AnyFrames
    MaxUint64 <- MCMaxUint64
SPECIFICATION ListSpec
INVARIANTS TypeOK SlicesInBounds ListIsGaps GapsSeparated ClosedIsComplete
PROPERTY ChunksContiguous
