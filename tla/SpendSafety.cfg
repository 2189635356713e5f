CONSTANTS
    Scans = {s1, s2}
    Calls = {c1, c2}
    ScanOf <- OneEach
    Workers = {w1, w2}
    Limit = 2
    MaxLeases <- ThreeAndOne
    MaxSends = 2
    Events = {"crash", "reject", "ambiguous", "breaker", "resolve", "stall", "slow", "unstored"}
SPECIFICATION Spec
SYMMETRY Symmetry
VIEW View
INVARIANTS
    SpendWithinLimit
    LedgerMatchesRows

    
CHECK_DEADLOCK FALSE
