SPECIFICATION Spec
CONSTANTS
    g1 = g1
    g2 = g2
    g3 = g3
    c1 = c1
    c2 = c2
    c3 = c3
    c4 = c4
    c5 = c5
    Goroutines <- ThreeGoroutines
    Scanners <- OneScanner
    Clients <- FiveClients
    PoolSize = 1
    MaxDepth = 2
    DialFails = TRUE
    Net = MainNet
    MainNet = MainNet
    NoClient = NoClient
    NoOne = NoOne
    NoEndpoint = NoEndpoint
SYMMETRY Symmetry
INVARIANTS TypeOK Exclusive NoUseAfterClose NoLeak NoSendOnClosed
PROPERTIES ImplementsOwnership
CHECK_DEADLOCK FALSE
