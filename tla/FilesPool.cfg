SPECIFICATION Spec
CONSTANTS
    Workers = {w1, w2}
    Conns = {c1, c2}
    NoConn = NoConn
    NoWorker = NoWorker
    MaxRequestId = 2
    MaxIdle = 1
SYMMETRY Symmetry
CHECK_DEADLOCK FALSE
INVARIANTS
    LeaseExclusive
    Accounted
    RepliesReachOwner
PROPERTIES
    LeasesHold
