SPECIFICATION Spec
CONSTANTS
    Rates <- MCRates
    TargetBauds = {0, 38400}
    ReadAttempts = 2
    QueueSize = 3
    MaxSessions = 2
    MaxTrouble = 1
INVARIANTS TypeOK VerifiedStream ConfirmedStop
PROPERTIES NoNeedlessWrite
CHECK_DEADLOCK FALSE
