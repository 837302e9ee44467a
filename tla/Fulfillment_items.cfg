SPECIFICATION Spec
CONSTANTS
    w1 = w1
    w2 = w2
    r1 = r1
    a1 = a1
    p1 = p1
    p2 = p2
    Workers = {w1}
    Reconcilers = {r1}
    Admins = {}
    Suppliers = {p1}
    NoSupplier = NoSupplier
    NItems = 2
    MaxRetries = 1
    MaxAttempt = 1
    MaxRestarts = 0
    RefundFaults = FALSE
CHECK_DEADLOCK FALSE
INVARIANTS
    FulfilledWasDelivered
