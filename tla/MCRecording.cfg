SPECIFICATION Spec
CONSTANTS
    Callers = {"op", "http"}
    Cancellable = {"op"}
    QueueSize = 1
    MaxRecordings = 2
    MaxScans = 2
INVARIANTS TypeOK NothingLostSilently IndexFollowsRaw
PROPERTIES StopCompletes
CHECK_DEADLOCK FALSE
