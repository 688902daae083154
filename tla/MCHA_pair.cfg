SPECIFICATION FairSpec
CONSTANTS
    n1 = n1
    n2 = n2
    Nodes = {n1, n2}
    Peer <- MCPeer
    WithPeer = {n1, n2}
    DiskErrors = {n2}
    Crashes = TRUE
    Operator = TRUE
    MaxGeneration = 3
    MaxInFlight <- MCInFlight
INVARIANTS
    TypeOK
    FencedAreTied
PROPERTIES
    GenerationMonotone
    OnlyOutrankedStepDown
    SplitBrainResolves
    FailoverHappens
