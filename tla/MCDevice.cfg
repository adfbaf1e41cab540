SPECIFICATION Spec
CONSTANTS
    Replay = FALSE
    DiskFails = TRUE
    MaxRequests = 3
    MaxExchanges = 2
    QueueSize = 2
INVARIANTS StreamingIsOpen OneExchange SessionEndsStopped QuietAfterShutdown
CHECK_DEADLOCK FALSE
