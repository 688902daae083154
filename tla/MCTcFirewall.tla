----------------------------- MODULE MCTcFirewall -----------------------------
(***************************************************************************)
(* Small instances of TcFirewall: two tenants whose requests collide with  *)
(* each other in the ways the kernel and the indexes can tell apart.       *)
(***************************************************************************)
EXTENDS TcFirewall, TLC

CONSTANTS t1, t2, k1, m1, m2, m3, a1, a2

MCTenants == {t1, t2}
MCNoSpecs == {}

\* Nothing tells the tenants apart.
TenantSymmetry == Permutations(MCTenants)

Rule(match, action, priority) ==
    [match |-> match, action |-> action, priority |-> priority]
Nat_(type, match, to) == [type |-> type, match |-> match, to |-> to]

\* One request, and one that only differs in its match.
MCRules == {Rule(m1, "ALLOW", 100), Rule(m2, "DENY", 100)}
\* A second priority, and two actions for one match.
MCRulesWide == {Rule(m1, "ALLOW", 100), Rule(m1, "DENY", 100), Rule(m2, "DENY", 90)}
MCRulesOne == {Rule(m1, "ALLOW", 100)}

\* One mapping of each kind; the forward shares its match with one DNAT mapping and
\* its port with both.
MCNat == {Nat_("snat", m3, a1), Nat_("dnat", m2, a1), Nat_("dnat", m3, a1),
          Nat_("forward", m2, a2)}
\* Two rules on one port.
MCNatPair == {Nat_("dnat", m2, a1), Nat_("dnat", m3, a1)}
MCNatOne == {Nat_("dnat", m2, a1)}
=============================================================================
