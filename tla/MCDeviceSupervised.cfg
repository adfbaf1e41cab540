SPECIFICATION Spec
CONSTANTS
    Replay = FALSE
    DiskFails = FALSE
    MaxRequests = 1
    MaxExchanges = 1
    QueueSize = 2
INVARIANTS StreamSupervised
CHECK_DEADLOCK FALSE
