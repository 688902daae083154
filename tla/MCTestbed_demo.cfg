SPECIFICATION FairSpec
CONSTANTS
    p1 = p1
    p2 = p2
    mixed = mixed
    r1 = r1
    c1 = c1
    t1 = t1
    t2 = t2
    Ports = {p1}
    Profiles = {mixed}
    DefaultProfile = mixed
    PROFILE_PORTS <- MCProfiles
    Requests = {r1}
    Threads = {t1, t2}
    MaxAttempts = 2
    Configs <- MCConfigs
    Calls = {c1}
    MaxBacklog = 1
INVARIANTS
    TypeOK
    PortsCovered
    AggregateCoversPorts
    ActiveServes
PROPERTIES
    StopQuiets
    StopReleases
    TrafficFlows
