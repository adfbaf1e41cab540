SPECIFICATION Spec
CONSTANTS
    b1 = b1
    b2 = b2
    cli = cli
    Console = cli
    Browsers <- MCBrowsers
    MaxScan = 4
INVARIANTS TypeOK DropsCounted AlmostInOrder PrintsNewest
PROPERTIES CatchesUp
