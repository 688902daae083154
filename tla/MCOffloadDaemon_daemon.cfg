SPECIFICATION FairSpec
CONSTANTS
    k1 = k1
    k2 = k2
    r1 = r1
    c1 = c1
    Keys = {k1, k2}
    Reverse <- MCReverse
    VniOf <- MCVni
    Rules = {r1}
    Criteria <- MCFlushRule
    Clients = {c1}
    HwMayFail = TRUE
    IdlePolls = 2
    MaxHandle = 3
    MaxPackets = 1
INVARIANTS
    TypeOK
    HwOwned
    SessionsBacked
PROPERTIES
    DanglingSwept
    IdleRemoved
