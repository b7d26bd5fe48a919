SPECIFICATION Spec
CONSTANTS
    Size = 3
    MaxSegment = 2
    MaxRetries = 1
    Requests <- MCRequests
CHECK_DEADLOCK FALSE
PROPERTY
    AbortResolves
