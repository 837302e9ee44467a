CONSTANTS
    s1 = s1
    s2 = s2
    w1 = w1
    h1 = h1
    Sessions = {s1, s2}
    Wallets = {w1}
    Holds = {h1}
    r1 = r1
    Refs = {r1}
    Amounts = {1, 2}
    MaxBalance = 2
    MaxEntries = 3
SYMMETRY SessionSymmetry
SPECIFICATION Spec
INVARIANT ActiveHoldsFunded
