SPECIFICATION BatchSpec
CONSTANTS
    p1 = p1
    p2 = p2
    p3 = p3
    Payments = {p1, p2, p3}
    Kind <- BatchKind
    GivenNonces <- BatchNonces
    Prices = {1}
    FirstNonce = 1
    MaxRetrySync = 2
    MaxCalls = 1
    Failures = {}
INVARIANTS BatchAccepted
PROPERTIES BatchMined
CHECK_DEADLOCK FALSE
