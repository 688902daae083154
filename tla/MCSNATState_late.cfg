SPECIFICATION Spec
CONSTANTS
    ip1 = ip1
    c1 = c1
    c2 = c2
    c3 = c3
    PublicIPs = {ip1}
    Connections = {c1, c2, c3}
    Timeouts = {1}
    PORT_MIN = 10
    PORT_MAX = 11
    PoolSizeArg = 2
    Sweeping = TRUE
    LateRelease = TRUE
    MaxTime = 2
INVARIANTS
    UniqueLivePort
CHECK_DEADLOCK FALSE
