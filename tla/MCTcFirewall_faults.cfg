SPECIFICATION Spec
CONSTANTS
    t1 = t1
    t2 = t2
    k1 = k1
    m1 = m1
    m2 = m2
    m3 = m3
    a1 = a1
    a2 = a2
    Faults = {"error", "timeout"}
    HandleReuse = TRUE
    Offload = {TRUE}
    Tenants <- MCTenants
    RuleSpecs <- MCRulesOne
    Keys = {k1}
    NATSpecs <- MCNatPair
    RuleQuotas = {1, 2}
    NATQuotas = {1, 2}
    NAT_PRIORITY = 20
    Restarts = TRUE
    MaxCreated = 3
INVARIANT SignatureIndexComplete
INVARIANT NatTracked
INVARIANT QuotasKept
SYMMETRY TenantSymmetry
