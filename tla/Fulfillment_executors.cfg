SPECIFICATION Spec
CONSTANTS
    w1 = w1
    w2 = w2
    r1 = r1
    a1 = a1
    p1 = p1
    p2 = p2
    Workers = {w1, w2}
    Reconcilers = {}
    Admins = {}
    Suppliers = {p1}
    NoSupplier = NoSupplier
    NItems = 1
    MaxRetries = 2
    MaxAttempt = 2
    MaxRestarts = 1
    RefundFaults = FALSE
CHECK_DEADLOCK FALSE
INVARIANTS
    SingleExecutor
