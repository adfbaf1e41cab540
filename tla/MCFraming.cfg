SPECIFICATION Spec
CONSTANTS
    Byte = {0, 1, 2, 3}
    STX = 0
    ACK = 1
    NAK = 2
    HeaderLen = 2
    Total <- MCTotal
    Valid <- MCValid
    MaxTotal = 5
    MaxBytes = 8
    MaxRead = 3
INVARIANTS TypeOK SplitIndependent ExactEvents
CHECK_DEADLOCK FALSE
