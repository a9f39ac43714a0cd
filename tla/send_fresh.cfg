SPECIFICATION BatchSpec
CONSTANTS
    p1 = p1
    p2 = p2
    p3 = p3
    Payments = {p1, p2, p3}
    Kind <- BatchKind
    GivenNonces <- BatchNonces
    Prices = {1}
    FirstNonce = 0
    MaxRetrySync = 2
    MaxCalls = 1
    Failures = {}
INVARIANTS BatchAccepted
CHECK_DEADLOCK FALSE
