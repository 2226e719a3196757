CONSTANTS
    Conn <- MCConn
    MapItem <- MCMapItem
    Workload <- MCWorkload
    Value = {1, 2}
    RingCap = 2
    SnapshotLen = 2
    WalRing = 2
SPECIFICATION Spec
CHECK_DEADLOCK FALSE
INVARIANTS
    
    
    StreamIntact
    ViewsConverge
    CasHonest
