SPECIFICATION Spec
CONSTANTS
    p1 = p1
    p2 = p2
    p3 = p3
    Payments = {p1, p2}
    Kind <- AnyKind
    GivenNonces <- AnyNonces
    Prices = {1, 2}
    FirstNonce = 0
    MaxRetrySync = 1
    MaxCalls = 2
    Failures = {"check", "rpc", "answer", "noblock", "context"}
INVARIANTS TypeOK VerdictTrue RefusedClean PaidOnce
CHECK_DEADLOCK FALSE
