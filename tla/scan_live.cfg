SPECIFICATION FairSpec
CONSTANTS
    p1 = p1
    p2 = p2
    m1 = m1
    Procs <- OneProc
    Mutexes <- OneMutex
    MutexOf <- Shared
    FromStartScan = TRUE
    StartNumber = 1
    MaxHeight = 3
    Versions <- TwoVersions
    TxCount <- NoneOrOne
    ForkDepth = 1
    Word = 16
    Radix = 2
    Digits <- DigitsOf
    RpcFails = TRUE
    HandleFails = TRUE
    FileFails = TRUE
    PoolSize = 1
    PoolUsers = TRUE
    MaxCrashes = 1
    NoOne = NoOne
INVARIANTS Confirmed
PROPERTIES CatchesUp
