SPECIFICATION Spec
CONSTANTS
    Attempts = 2
    EchoLen = 2
    MaxRx = 7
    MaxRead = 2
INVARIANTS AckIsFresh
