SPECIFICATION Spec
CONSTANTS
    MaxChunks = 3
    HighWater = 1
    MaxRetries = 2
CHECK_DEADLOCK FALSE
INVARIANTS
    StoredWhenOk
    RetriedWhilePossible
PROPERTIES
    UploadHolds
    SettledReleases
