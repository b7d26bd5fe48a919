SPECIFICATION Spec
CONSTANTS
    InitOptions <- MCInitOptions
    ActiveInterval = 2
    MaxDelay = 2
    MaxVersion = 1
    MaxInits = 2
    MaxRegistries = 2
    MaxRounds = 2
INVARIANT ReadableAfterInit
