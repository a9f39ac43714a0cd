SPECIFICATION FairSpec
CONSTANTS
    p1 = p1
    p2 = p2
    p3 = p3
    Payments = {p1, p2}
    Kind <- AnyKind
    GivenNonces <- AnyNonces
    Prices = {1}
    FirstNonce = 0
    MaxRetrySync = 2
    MaxCalls = 1
    Failures = {"rpc", "answer", "noblock"}
PROPERTIES CallsReturn
CHECK_DEADLOCK FALSE
