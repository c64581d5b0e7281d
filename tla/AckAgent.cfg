SPECIFICATION Spec
CONSTANTS
    Uint64 = 64
    MaxPN = 4
    MaxBundled = 4
    MaxDuplicates = 1
CHECK_DEADLOCK FALSE
INVARIANTS
    AckedWereReceived
    NothingUnanswered
    AcksEncodable
