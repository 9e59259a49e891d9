CONSTANTS
    None = None
    CellBits = 12
    Kilo = 10
    Resolves <- HostFamilies
    Requests <- SomeRequests
    Tunnel <- TwoTunnels
    MaxChanges = 3
SPECIFICATION Spec
INVARIANTS SmfLatest Coherent BodyCurrent
PROPERTY AreaChangeSeen
CHECK_DEADLOCK FALSE
