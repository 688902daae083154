SPECIFICATION Spec
CONSTANTS
    ip1 = ip1
    c1 = c1
    c2 = c2
    c3 = c3
    PublicIPs = {ip1}
    Connections = {c1, c2, c3}
    Timeouts = {1}
    PORT_MIN = 10
    PORT_MAX = 12
    PoolSizeArg = 5
    Sweeping = TRUE
    LateRelease = FALSE
    MaxTime = 2
INVARIANTS
    TypeOK
    TablesAgree
    SearchFindsPort
    UniqueLivePort
PROPERTIES
    ImplementsLease
    RoundRobin
    SweepOnlyExpired
CHECK_DEADLOCK FALSE
