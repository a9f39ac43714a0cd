SPECIFICATION Spec
CONSTANTS
    p1 = p1
    p2 = p2
    m1 = m1
    Procs <- OneProc
    Mutexes <- OneMutex
    MutexOf <- Shared
    FromStartScan = TRUE
    StartNumber = 1
    MaxHeight = 4
    Versions <- TwoVersions
    TxCount <- OneOrTwo
    ForkDepth = 0
    Word = 16
    Radix = 2
    Digits <- DigitsOf
    RpcFails = TRUE
    HandleFails = TRUE
    FileFails = TRUE
    PoolSize = 1
    PoolUsers = FALSE
    MaxCrashes = 0
    NoOne = NoOne
INVARIANTS Continues
CHECK_DEADLOCK FALSE
