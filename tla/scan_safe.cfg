SPECIFICATION Spec
CONSTANTS
    p1 = p1
    p2 = p2
    m1 = m1
    Procs <- TwoProcs
    Mutexes <- OneMutex
    MutexOf <- Shared
    FromStartScan = FALSE
    StartNumber = 1
    MaxHeight = 4
    Versions <- TwoVersions
    TxCount <- OneOrTwo
    ForkDepth = 1
    Word = 16
    Radix = 3
    Digits <- DigitsOf
    RpcFails = TRUE
    HandleFails = TRUE
    FileFails = TRUE
    PoolSize = 1
    PoolUsers = FALSE
    MaxCrashes = 1
    NoOne = NoOne
SYMMETRY Symmetry
INVARIANTS TypeOK NothingSkipped OnlyNextBlock
PROPERTIES FileExact ImplementsFeed
