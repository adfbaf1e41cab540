SPECIFICATION Spec
CONSTANTS
    MaxTx = 2
    MaxRx = 2
INVARIANTS TypeOK OneRequest HonestReport
PROPERTIES KeepsExchange Terminates
