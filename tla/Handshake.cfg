SPECIFICATION Spec
CONSTANTS
    ServerKinds <- MCKinds
    ServerLists <- MCLists
    Limits <- MCLimits
    Lag = TRUE
    MaxHellos = 2
INVARIANTS CompletedIsEstablished HellosAnnounceLimits
PROPERTIES PacketsDelivered ReadablePacketsParsed ParametersAllOrNothing
CHECK_DEADLOCK FALSE
