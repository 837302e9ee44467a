CONSTANTS
    s1 = s1
    s2 = s2
    w1 = w1
    h1 = h1
    h2 = h2
    Sessions = {s1, s2}
    Wallets = {w1}
    Holds = {h1, h2}
    Refs = {}
    Amounts = {1}
    MaxBalance = 2
    MaxEntries = 4
SYMMETRY SessionSymmetry
SPECIFICATION Spec
INVARIANTS
    
    HoldsStayFunded
PROPERTY HoldEndsOnce
