SPECIFICATION Spec
CONSTANTS
    t1 = t1
    t2 = t2
    k1 = k1
    m1 = m1
    m2 = m2
    m3 = m3
    a1 = a1
    a2 = a2
    Faults = {}
    HandleReuse = TRUE
    Offload = {TRUE}
    Tenants <- MCTenants
    RuleSpecs <- MCRulesWide
    Keys = {k1}
    NATSpecs <- MCNat
    RuleQuotas = {2}
    NATQuotas = {2}
    NAT_PRIORITY = 20
    Restarts = FALSE
    MaxCreated = 4
INVARIANT KernelMatchesDb
