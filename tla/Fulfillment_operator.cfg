SPECIFICATION Spec
CONSTANTS
    w1 = w1
    w2 = w2
    r1 = r1
    a1 = a1
    p1 = p1
    p2 = p2
    Workers = {w1}
    Reconcilers = {r1}
    Admins = {a1}
    Suppliers = {p1}
    NoSupplier = NoSupplier
    NItems = 1
    MaxRetries = 1
    MaxAttempt = 3
    MaxRestarts = 0
    RefundFaults = TRUE
CHECK_DEADLOCK FALSE
INVARIANTS
    FulfilledWasDelivered
    RefundedStaysClosed
PROPERTIES
    NoPurchaseAfterRefund
    RequeueUsesFreshKey
