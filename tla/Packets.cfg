CONSTANTS
    Connections <- MCConnections
    SampleFrames <- MCFrames
    MaxFrames = 2
    ClientHellos = {45, 59, 60, 61, 62, 90, 100}
    InitialLength = 120
    Overhead = 16
INIT Init
NEXT Next
CHECK_DEADLOCK FALSE
INVARIANTS
    PacketReadBack
    LengthsAgree
    FirstDatagramPadded
