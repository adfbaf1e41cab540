SPECIFICATION Spec
CONSTANTS
    Controls = {"c1", "c2", "c3"}
    Datas = {"d1", "d2", "d3"}
    Peer <- MCPeer
    Authentic = {"c1", "c3"}
    HasControl = TRUE
INVARIANTS LeaseExclusive DataWithinLease
PROPERTIES LeaseReleased CloseCompletes
CHECK_DEADLOCK FALSE
