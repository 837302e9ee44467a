CONSTANTS
    s1 = s1
    s2 = s2
    w1 = w1
    r1 = r1
    Sessions = {s1, s2}
    Wallets = {w1}
    Holds = {}
    Refs = {r1}
    Amounts = {1, 2}
    MaxBalance = 3
    MaxEntries = 3
SYMMETRY SessionSymmetry
SPECIFICATION Spec
INVARIANTS
    TypeOK
    BalanceReconstructs
    LedgerIsChain
    NoOverdraft
    PostedAtMostOnce
