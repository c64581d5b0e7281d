SPECIFICATION Spec
CONSTANTS
    ChannelSize = 3
    MaxEvents = 4
    Plans <- MCPlans
    Detailed = "detailed.example"
INVARIANTS
    VerdictIsTrue
    AtMostMaxInstances
    NoSendOnClosed
    EveryRunReported
PROPERTY
    SuiteEnds
CHECK_DEADLOCK FALSE
