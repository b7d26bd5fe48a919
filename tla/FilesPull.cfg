SPECIFICATION Spec
CONSTANTS
    Size = 3
    MaxSegment = 2
    MaxRetries = 2
    Requests <- MCRequests
CHECK_DEADLOCK FALSE
INVARIANTS
    Delivered
    GivesUpLate
    OneSegmentHeld
    LeaseReturned
PROPERTIES
    DownloadHolds
    PullEnds
