SPECIFICATION Spec
CONSTANTS
    Windows = {1, 3}
    HighWater = 1
    MaxChunks = 3
    MaxCalls = 3
CHECK_DEADLOCK FALSE
INVARIANTS
    CreditsConserved
    StreamInOrder
    ResolvedWasSent
PROPERTIES
    WriterReleased
    EveryCallSettles
