SPECIFICATION Spec
CHECK_DEADLOCK FALSE
CONSTANTS
    Service = {u1, u2}
    Ingest = {i1, i2}
    Key = {1, 2}
    Id <- Ids
    Reachable <- Ssms
    Map <- Maps
    MaxRequests = 4
SYMMETRY Symmetry
INVARIANT CounterExact
INVARIANT HandlersSafe
INVARIANT IdsExact
INVARIANT AnsweredOnce
