SPECIFICATION Spec
CONSTANTS
    Workers = {w1, w2}
    Conns = {c1, c2, c3}
    NoConn = NoConn
    NoWorker = NoWorker
    MaxRequestId = 2
    MaxIdle = 1
CHECK_DEADLOCK FALSE
INVARIANT Sequential
