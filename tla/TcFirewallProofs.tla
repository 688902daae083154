--------------------------- MODULE TcFirewallProofs ---------------------------
(***************************************************************************)
(* Proofs about TcFirewall, for every value of its constants.              *)
(*                                                                         *)
(* The tables.  They never depend on what the kernel holds, so nothing is  *)
(* assumed of tc or of the kernel.  SignatureIndexComplete, NatTracked and *)
(* QuotasKept are inductive together with the types of the tables: an id   *)
(* given out is larger than any in the tables and in the indexes.          *)
(*                                                                         *)
(* The filters.  What a tc command does to them is said once, in lemmas    *)
(* about the operators of TcManager; what a loop of the handlers does, by  *)
(* induction over its rounds (LoopProofs).  KernelInv relates the filters  *)
(* to the tables, as far as the kernel is reliable.                        *)
(***************************************************************************)
EXTENDS TcFirewall, FiniteSetTheorems, TLAPS

\* The inductive invariant.
DbInv == DbTypeOK /\ SignatureIndexComplete /\ NatTracked /\ QuotasKept

\* What the tables say is all that DbInv depends on.
db_vars == <<registered, rules_db, sig_index, key_index, nat_vars, created>>

\* The rules and the NAT entries of a tenant are finitely many.
LEMMA OwnedFinite ==
    ASSUME DbTypeOK, NEW t
    PROVE  IsFiniteSet(RulesOf(t)) /\ IsFiniteSet(NatOf(t))
  <1>1. IsFiniteSet(1..created)
    BY FS_Interval DEF DbTypeOK
  <1>2. RulesOf(t) \subseteq 1..created
    BY DEF DbTypeOK, RulesTyped, RulesOf
  <1>3. NatOf(t) \subseteq 1..created
    BY DEF DbTypeOK, NatTyped, NatOf
  <1> QED BY <1>1, <1>2, <1>3, FS_Subset

\* A tenant that owns no more than before stays within an unchanged quota.
LEMMA QuotaShrinks ==
    ASSUME DbInv, registered' = registered, NEW t \in Tenants,
           RulesOf(t)' \subseteq RulesOf(t), NatOf(t)' \subseteq NatOf(t)
    PROVE  /\ Cardinality(RulesOf(t)') <= QuotaOf(t, "max_rules")'
           /\ Cardinality(NatOf(t)') <= QuotaOf(t, "max_nat_entries")'
  <1>1. IsFiniteSet(RulesOf(t)) /\ IsFiniteSet(NatOf(t))
    BY OwnedFinite DEF DbInv
  <1>2. /\ Cardinality(RulesOf(t)') \in Nat /\ Cardinality(RulesOf(t)) \in Nat
        /\ Cardinality(NatOf(t)') \in Nat /\ Cardinality(NatOf(t)) \in Nat
        /\ Cardinality(RulesOf(t)') <= Cardinality(RulesOf(t))
        /\ Cardinality(NatOf(t)') <= Cardinality(NatOf(t))
    BY <1>1, FS_Subset, FS_CardinalityType
  <1>3. /\ QuotaOf(t, "max_rules")' = QuotaOf(t, "max_rules")
        /\ QuotaOf(t, "max_nat_entries")' = QuotaOf(t, "max_nat_entries")
    BY DEF QuotaOf
  <1>4. /\ QuotaOf(t, "max_rules") \in Nat /\ QuotaOf(t, "max_nat_entries") \in Nat
    BY QuotaAssumption DEF QuotaOf, DbInv, DbTypeOK, TenantsTyped
  <1>5. /\ Cardinality(RulesOf(t)) <= QuotaOf(t, "max_rules")
        /\ Cardinality(NatOf(t)) <= QuotaOf(t, "max_nat_entries")
    BY DEF DbInv, QuotasKept
  <1> QED BY <1>2, <1>3, <1>4, <1>5

\* A step that leaves the tables alone.
LEMMA SameDb ==
    ASSUME DbInv, UNCHANGED db_vars
    PROVE  DbInv'
  BY DEF DbInv, db_vars, nat_vars, DbTypeOK, TenantsTyped, RulesTyped, NatTyped,
         SignatureIndexComplete, NatTracked, QuotasKept, RulesOf, NatOf, QuotaOf

\* Rules leave rules_db; their index entries go too or are left dangling.
RulesLeave(S) ==
    /\ rules_db' = Drop(rules_db, S)
    /\ \/ sig_index' = Unindexed(sig_index, S) /\ key_index' = Unindexed(key_index, S)
       \/ UNCHANGED <<sig_index, key_index>>

LEMMA RulesShrink ==
    ASSUME DbInv, created' = created, NEW S, RulesLeave(S)
    PROVE  /\ RulesTyped' /\ SignatureIndexComplete'
           /\ \A t : RulesOf(t)' = RulesOf(t) \ S
  <1>1. /\ DOMAIN rules_db' = DOMAIN rules_db \ S
        /\ \A i \in DOMAIN rules_db' : rules_db'[i] = rules_db[i]
    BY DEF RulesLeave, Drop
  <1>2. RulesTyped
    BY DEF DbInv, DbTypeOK
  <1>3. /\ sig_index' \in [Tenants \X RuleSpecs -> 0..created]
        /\ key_index' \in [Keys -> 0..created]
        /\ \A x \in Tenants \X RuleSpecs : sig_index[x] \notin S => sig_index'[x] = sig_index[x]
    <2>1. CASE UNCHANGED <<sig_index, key_index>>
      BY <1>2, <2>1 DEF RulesTyped
    <2>2. CASE /\ sig_index' = Unindexed(sig_index, S)
               /\ key_index' = Unindexed(key_index, S)
      <3>1. created \in Nat
        BY DEF DbInv, DbTypeOK
      <3> QED BY <1>2, <2>2, <3>1 DEF RulesTyped, Unindexed, Absent
    <2> QED BY <2>1, <2>2 DEF RulesLeave
  <1>4. RulesTyped'
    BY <1>1, <1>2, <1>3 DEF RulesTyped
  <1>5. SignatureIndexComplete'
    <2> SUFFICES ASSUME NEW i \in DOMAIN rules_db'
                 PROVE  sig_index'[<<rules_db'[i].tenant, rules_db'[i].spec>>] = i
      BY DEF SignatureIndexComplete
    <2>1. sig_index[<<rules_db[i].tenant, rules_db[i].spec>>] = i /\ i \notin S
      BY <1>1 DEF DbInv, SignatureIndexComplete
    <2>2. <<rules_db[i].tenant, rules_db[i].spec>> \in Tenants \X RuleSpecs
      BY <1>1, <1>2 DEF RulesTyped
    <2> QED BY <1>1, <1>3, <2>1, <2>2
  <1>6. \A t : RulesOf(t)' = RulesOf(t) \ S
    BY <1>1 DEF RulesOf
  <1> QED BY <1>4, <1>5, <1>6

\* NAT entries leave both dictionaries.
LEMMA NatShrinks ==
    ASSUME DbInv, created' = created, NEW S, ForgetNat(S)
    PROVE  /\ NatTyped' /\ NatTracked'
           /\ \A t : NatOf(t)' = NatOf(t) \ S
  <1>1. /\ DOMAIN nat' = DOMAIN nat \ S
        /\ \A i \in DOMAIN nat' : nat'[i] = nat[i]
        /\ nat_db' = nat_db \ S
        /\ nat_entries' = nat_entries \ S
    BY DEF ForgetNat, Drop
  <1>2. NatTyped /\ NatTracked /\ created \in Nat
    BY DEF DbInv, DbTypeOK
  <1>3. /\ nat_sig' \in [NATSpecs -> 0..created]
        /\ \A s \in NATSpecs : nat_sig[s] \notin S => nat_sig'[s] = nat_sig[s]
    BY <1>2 DEF NatTyped, ForgetNat, Unindexed, Absent
  <1>4. NatTyped'
    BY <1>1, <1>2, <1>3 DEF NatTyped
  <1>5. NatTracked'
    BY <1>1, <1>2, <1>3 DEF NatTracked, NatTyped
  <1>6. \A t : NatOf(t)' = NatOf(t) \ S
    BY <1>1, <1>2 DEF NatOf, NatTyped
  <1> QED BY <1>4, <1>5, <1>6

\* Requests that remove rules, and only rules.
LEMMA RuleRemovalInv ==
    ASSUME DbInv, NEW S, RulesLeave(S), UNCHANGED <<registered, nat_vars, created>>
    PROVE  DbInv'
  <1>1. /\ RulesTyped' /\ SignatureIndexComplete'
        /\ \A t : RulesOf(t)' = RulesOf(t) \ S
    BY RulesShrink
  <1>2. NatTyped' /\ NatTracked' /\ TenantsTyped' /\ created' \in 0..MaxCreated
    BY DEF DbInv, DbTypeOK, NatTyped, NatTracked, TenantsTyped, nat_vars
  <1>3. \A t : NatOf(t)' = NatOf(t)
    BY DEF NatOf, nat_vars
  <1>4. QuotasKept'
    BY <1>1, <1>3, QuotaShrinks DEF QuotasKept
  <1> QED BY <1>1, <1>2, <1>4 DEF DbInv, DbTypeOK

\* Requests that remove NAT entries, and only those.
LEMMA NatRemovalInv ==
    ASSUME DbInv, NEW S, ForgetNat(S),
           UNCHANGED <<registered, rules_db, sig_index, key_index, created>>
    PROVE  DbInv'
  <1>1. /\ NatTyped' /\ NatTracked'
        /\ \A t : NatOf(t)' = NatOf(t) \ S
    BY NatShrinks
  <1>2. RulesTyped' /\ SignatureIndexComplete' /\ TenantsTyped' /\ created' \in 0..MaxCreated
    BY DEF DbInv, DbTypeOK, RulesTyped, SignatureIndexComplete, TenantsTyped
  <1>3. \A t : RulesOf(t)' = RulesOf(t)
    BY DEF RulesOf
  <1>4. QuotasKept'
    BY <1>1, <1>3, QuotaShrinks DEF QuotasKept
  <1> QED BY <1>1, <1>2, <1>4 DEF DbInv, DbTypeOK

\* delete_nat_rule cut short: the entry stays in nat_entries_db.
LEMMA NatTimeoutInv ==
    ASSUME DbInv, NEW t \in Tenants, NEW i \in Ids, DeleteNatTimeout(t, i)
    PROVE  DbInv'
  <1>1. /\ UNCHANGED <<registered, rules_db, sig_index, key_index, nat, nat_entries, created>>
        /\ nat_db' = nat_db \ {i}
        /\ nat_sig' = Unindexed(nat_sig, {i})
    BY DEF DeleteNatTimeout, rule_vars
  <1>2. RulesTyped' /\ SignatureIndexComplete' /\ TenantsTyped' /\ created' \in 0..MaxCreated
    BY <1>1 DEF DbInv, DbTypeOK, RulesTyped, SignatureIndexComplete, TenantsTyped
  <1>3. NatTyped /\ NatTracked /\ created \in Nat
    BY DEF DbInv, DbTypeOK
  <1>4. /\ nat_sig' \in [NATSpecs -> 0..created]
        /\ \A s \in NATSpecs : nat_sig[s] # i => nat_sig'[s] = nat_sig[s]
    BY <1>1, <1>3 DEF NatTyped, Unindexed, Absent
  <1>5. NatTyped'
    BY <1>1, <1>3, <1>4 DEF NatTyped
  <1>6. NatTracked'
    BY <1>1, <1>3, <1>4 DEF NatTracked, NatTyped
  <1>7. \A u : RulesOf(u)' = RulesOf(u) /\ NatOf(u)' = NatOf(u)
    BY <1>1 DEF RulesOf, NatOf
  <1>8. QuotasKept'
    BY <1>1, <1>7, QuotaShrinks DEF QuotasKept
  <1> QED BY <1>2, <1>5, <1>6, <1>8 DEF DbInv, DbTypeOK

\* A tenant that is not registered owns nothing, so its first quotas hold.
LEMMA RegisterInv ==
    ASSUME DbInv, NEW t \in Tenants, register_tenant(t)
    PROVE  DbInv'
  <1>1. PICK m \in RuleQuotas, n \in NATQuotas :
            registered' = Put(registered, t, [max_rules |-> m, max_nat_entries |-> n])
    BY DEF register_tenant
  <1>2. UNCHANGED <<rules_db, sig_index, key_index, nat_vars, created>> /\ t \notin DOMAIN registered
    BY DEF register_tenant, rule_vars
  <1>3. /\ DOMAIN registered' = DOMAIN registered \cup {t}
        /\ registered'[t] = [max_rules |-> m, max_nat_entries |-> n]
        /\ \A u \in DOMAIN registered : registered'[u] = registered[u]
    BY <1>1, <1>2 DEF Put
  <1>4. TenantsTyped'
    BY <1>3 DEF DbInv, DbTypeOK, TenantsTyped
  <1>5. /\ RulesTyped' /\ SignatureIndexComplete' /\ NatTyped' /\ NatTracked'
        /\ created' \in 0..MaxCreated
    BY <1>2 DEF DbInv, DbTypeOK, RulesTyped, SignatureIndexComplete, NatTyped, NatTracked,
                nat_vars
  <1>6. \A u : RulesOf(u)' = RulesOf(u) /\ NatOf(u)' = NatOf(u)
    BY <1>2 DEF RulesOf, NatOf, nat_vars
  <1>7. QuotasKept'
    <2> SUFFICES ASSUME NEW u \in Tenants
                 PROVE  /\ Cardinality(RulesOf(u)) <= QuotaOf(u, "max_rules")'
                        /\ Cardinality(NatOf(u)) <= QuotaOf(u, "max_nat_entries")'
      BY <1>6 DEF QuotasKept
    <2>1. /\ Cardinality(RulesOf(u)) <= QuotaOf(u, "max_rules")
          /\ Cardinality(NatOf(u)) <= QuotaOf(u, "max_nat_entries")
      BY DEF DbInv, QuotasKept
    <2>2. CASE u # t
      BY <1>3, <2>1, <2>2 DEF QuotaOf
    <2>3. CASE u = t
      <3>1. Cardinality(RulesOf(u)) \in Nat /\ Cardinality(NatOf(u)) \in Nat
        BY OwnedFinite, FS_CardinalityType DEF DbInv
      <3>2. QuotaOf(u, "max_rules") = 0 /\ QuotaOf(u, "max_nat_entries") = 0
        BY <1>2, <2>3 DEF QuotaOf
      <3>3. QuotaOf(u, "max_rules")' = m /\ QuotaOf(u, "max_nat_entries")' = n
        BY <1>3, <2>3 DEF QuotaOf
      <3> QED BY <2>1, <3>1, <3>2, <3>3, QuotaAssumption
    <2> QED BY <2>2, <2>3
  <1> QED BY <1>4, <1>5, <1>7 DEF DbInv, DbTypeOK

\* A new rule: its id is larger than any that the tables know, and nothing live had
\* its signature.
LEMMA AddRuleInv ==
    ASSUME DbInv, NEW t \in Tenants, NEW q \in RuleSpecs, NEW k \in Keys \cup {NoKey},
           AddRuleStored(t, q, k)
    PROVE  DbInv'
  <1> DEFINE id == created + 1
  <1>1. /\ MayAddRule(t, q, k)
        /\ sig_index' = [sig_index EXCEPT ![<<t, q>>] = id]
        /\ key_index' = IF k = NoKey THEN key_index ELSE [key_index EXCEPT ![k] = id]
        /\ created' = id
        /\ UNCHANGED <<registered, nat_vars>>
    BY DEF AddRuleStored
  <1>2. PICK r : /\ rules_db' = Put(rules_db, id, r)
                 /\ r.tenant = t /\ r.spec = q
    BY DEF AddRuleStored
  <1>3. /\ created \in Nat /\ created' \in 0..MaxCreated /\ id \in 1..created'
        /\ 0..created \subseteq 0..created' /\ 1..created \subseteq 1..created'
        /\ id \notin 0..created
    BY <1>1, QuotaAssumption DEF DbInv, DbTypeOK, MayAddRule
  <1>4. RulesTyped /\ SignatureIndexComplete
    BY DEF DbInv, DbTypeOK
  <1>5. /\ DOMAIN rules_db' = DOMAIN rules_db \cup {id}
        /\ rules_db'[id] = r /\ id \notin DOMAIN rules_db
        /\ \A i \in DOMAIN rules_db : rules_db'[i] = rules_db[i]
    <2>1. id \notin DOMAIN rules_db
      BY <1>3, <1>4 DEF RulesTyped
    <2> QED BY <1>2, <2>1 DEF Put
  <1>6. /\ sig_index' \in [Tenants \X RuleSpecs -> 0..created']
        /\ sig_index'[<<t, q>>] = id
        /\ \A x \in Tenants \X RuleSpecs : x # <<t, q>> => sig_index'[x] = sig_index[x]
    BY <1>1, <1>3, <1>4 DEF RulesTyped
  <1>7. key_index' \in [Keys -> 0..created']
    BY <1>1, <1>3, <1>4 DEF RulesTyped
  <1>8. RulesTyped'
    BY <1>2, <1>3, <1>4, <1>5, <1>6, <1>7 DEF RulesTyped
  <1>9. SignatureIndexComplete'
    <2> SUFFICES ASSUME NEW i \in DOMAIN rules_db'
                 PROVE  sig_index'[<<rules_db'[i].tenant, rules_db'[i].spec>>] = i
      BY DEF SignatureIndexComplete
    <2>1. CASE i = id
      BY <1>2, <1>5, <1>6, <2>1
    <2>2. CASE i # id
      <3>1. i \in DOMAIN rules_db /\ rules_db'[i] = rules_db[i]
        BY <1>5, <2>2
      <3>2. sig_index[<<rules_db[i].tenant, rules_db[i].spec>>] = i
        BY <1>4, <3>1 DEF SignatureIndexComplete
      <3>3. sig_index[<<t, q>>] \notin DOMAIN rules_db
        BY <1>1 DEF MayAddRule, _find_existing_rule
      <3>4. <<rules_db[i].tenant, rules_db[i].spec>> # <<t, q>>
        BY <3>1, <3>2, <3>3
      <3>5. <<rules_db[i].tenant, rules_db[i].spec>> \in Tenants \X RuleSpecs
        BY <1>4, <3>1 DEF RulesTyped
      <3> QED BY <1>6, <3>1, <3>2, <3>4, <3>5
    <2> QED BY <2>1, <2>2
  <1>10. NatTyped' /\ NatTracked' /\ TenantsTyped'
    BY <1>1, <1>3 DEF DbInv, DbTypeOK, NatTyped, NatTracked, TenantsTyped, nat_vars
  <1>11. QuotasKept'
    <2> SUFFICES ASSUME NEW u \in Tenants
                 PROVE  /\ Cardinality(RulesOf(u)') <= QuotaOf(u, "max_rules")'
                        /\ Cardinality(NatOf(u)') <= QuotaOf(u, "max_nat_entries")'
      BY DEF QuotasKept
    <2>1. NatOf(u)' = NatOf(u)
      BY <1>1 DEF NatOf, nat_vars
    <2>2. QuotaOf(u, "max_rules")' = QuotaOf(u, "max_rules")
          /\ QuotaOf(u, "max_nat_entries")' = QuotaOf(u, "max_nat_entries")
      BY <1>1 DEF QuotaOf
    <2>3. /\ Cardinality(RulesOf(u)) <= QuotaOf(u, "max_rules")
          /\ Cardinality(NatOf(u)) <= QuotaOf(u, "max_nat_entries")
      BY DEF DbInv, QuotasKept
    <2>4. CASE u # t
      <3>1. RulesOf(u)' = RulesOf(u)
        BY <1>2, <1>5, <2>4 DEF RulesOf
      <3> QED BY <2>1, <2>2, <2>3, <3>1
    <2>5. CASE u = t
      <3>1. RulesOf(u)' = RulesOf(u) \cup {id} /\ id \notin RulesOf(u)
        BY <1>2, <1>5, <2>5 DEF RulesOf
      <3>2. IsFiniteSet(RulesOf(u))
        BY OwnedFinite DEF DbInv
      <3>3. /\ Cardinality(RulesOf(u)') = Cardinality(RulesOf(u)) + 1
            /\ Cardinality(RulesOf(u)) \in Nat
        BY <3>1, <3>2, FS_AddElement, FS_CardinalityType
      <3>4. /\ Cardinality(RulesOf(u)) < QuotaOf(u, "max_rules")
            /\ QuotaOf(u, "max_rules") \in Nat
        BY <1>1, <2>5, QuotaAssumption
           DEF MayAddRule, count_tenant_rules, QuotaOf, DbInv, DbTypeOK, TenantsTyped
      <3> QED BY <2>1, <2>2, <2>3, <3>3, <3>4
    <2> QED BY <2>4, <2>5
  <1> QED BY <1>3, <1>8, <1>9, <1>10, <1>11 DEF DbInv, DbTypeOK

\* One more NAT entry for a tenant below its quota, and no more for the others.
LEMMA NatQuotaGrows ==
    ASSUME DbInv, NEW t \in Tenants, MayAddNat(t), NEW i, registered' = registered,
           \A u : RulesOf(u)' = RulesOf(u),
           NatOf(t)' \subseteq NatOf(t) \cup {i},
           \A u \in Tenants \ {t} : NatOf(u)' \subseteq NatOf(u)
    PROVE  QuotasKept'
  <1> SUFFICES ASSUME NEW u \in Tenants
               PROVE  /\ Cardinality(RulesOf(u)') <= QuotaOf(u, "max_rules")'
                      /\ Cardinality(NatOf(u)') <= QuotaOf(u, "max_nat_entries")'
    BY DEF QuotasKept
  <1>1. CASE u # t
    BY <1>1, QuotaShrinks
  <1>2. CASE u = t
    <2>1. Cardinality(RulesOf(u)') <= QuotaOf(u, "max_rules")'
      BY DEF DbInv, QuotasKept, QuotaOf
    <2>2. IsFiniteSet(NatOf(t))
      BY OwnedFinite DEF DbInv
    <2>3. /\ IsFiniteSet(NatOf(t) \cup {i}) /\ Cardinality(NatOf(t)) \in Nat
          /\ Cardinality(NatOf(t) \cup {i}) <= Cardinality(NatOf(t)) + 1
      BY <2>2, FS_AddElement, FS_CardinalityType
    <2>4. /\ Cardinality(NatOf(t)') <= Cardinality(NatOf(t) \cup {i})
          /\ Cardinality(NatOf(t)') \in Nat /\ Cardinality(NatOf(t) \cup {i}) \in Nat
      BY <2>3, FS_Subset, FS_CardinalityType
    <2>5. /\ Cardinality(NatOf(t)) < QuotaOf(t, "max_nat_entries")'
          /\ QuotaOf(t, "max_nat_entries")' \in Nat
      BY QuotaAssumption
         DEF MayAddNat, count_tenant_nat_entries, QuotaOf, DbInv, DbTypeOK, TenantsTyped
    <2> QED BY <1>2, <2>1, <2>3, <2>4, <2>5
  <1> QED BY <1>1, <1>2

\* An equivalent NAT entry passes to the tenant that asks for it.
LEMMA NatExistingInv ==
    ASSUME DbInv, NEW t \in Tenants, NEW s \in NATSpecs, MayAddNat(t), AddNatExisting(t, s)
    PROVE  DbInv'
  <1>1. PICK i \in nat_db : /\ nat' = [nat EXCEPT ![i].tenant = t]
                            /\ nat_entries' = nat_entries \cup {i}
    BY DEF AddNatExisting, _find_existing_nat
  <1>2. UNCHANGED <<registered, rules_db, sig_index, key_index, nat_db, nat_sig, created>>
    BY DEF AddNatExisting, rule_vars
  <1>3. NatTyped /\ NatTracked
    BY DEF DbInv, DbTypeOK
  <1>4. i \in DOMAIN nat /\ nat_entries' = nat_entries
    BY <1>1, <1>3 DEF NatTyped, NatTracked
  <1>5. /\ DOMAIN nat' = DOMAIN nat
        /\ nat'[i].tenant = t /\ nat'[i].spec = nat[i].spec
        /\ nat'[i] \in [tenant : Tenants, spec : NATSpecs]
        /\ \A j \in DOMAIN nat \ {i} : nat'[j] = nat[j]
    BY <1>1, <1>3, <1>4 DEF NatTyped
  <1>6. NatTyped'
    BY <1>2, <1>3, <1>4, <1>5 DEF NatTyped
  <1>7. NatTracked'
    BY <1>2, <1>3, <1>4, <1>5 DEF NatTracked, NatTyped
  <1>8. RulesTyped' /\ SignatureIndexComplete' /\ TenantsTyped' /\ created' \in 0..MaxCreated
    BY <1>2 DEF DbInv, DbTypeOK, RulesTyped, SignatureIndexComplete, TenantsTyped
  <1>9. QuotasKept'
    <2>1. \A u : RulesOf(u)' = RulesOf(u)
      BY <1>2 DEF RulesOf
    <2>2. NatOf(t)' \subseteq NatOf(t) \cup {i}
      BY <1>3, <1>4, <1>5 DEF NatOf, NatTyped
    <2>3. \A u \in Tenants \ {t} : NatOf(u)' \subseteq NatOf(u)
      BY <1>3, <1>4, <1>5 DEF NatOf, NatTyped
    <2> QED BY <1>2, <2>1, <2>2, <2>3, NatQuotaGrows
  <1> QED BY <1>6, <1>7, <1>8, <1>9 DEF DbInv, DbTypeOK

\* A new NAT entry.
LEMMA NatStoredInv ==
    ASSUME DbInv, NEW t \in Tenants, NEW s \in NATSpecs, NEW port, MayAddNat(t),
           AddNatStored(t, s, port)
    PROVE  DbInv'
  <1> DEFINE id == created + 1
  <1>1. /\ _find_existing_nat(s) = {} /\ created < MaxCreated
        /\ nat' = Put(nat, id, [tenant |-> t, spec |-> s])
        /\ nat_db' = nat_db \cup {id}
        /\ nat_entries' = nat_entries \cup {id}
        /\ nat_sig' = [nat_sig EXCEPT ![s] = id]
        /\ created' = id
        /\ UNCHANGED <<registered, rules_db, sig_index, key_index>>
    BY DEF AddNatStored, rule_vars
  <1>2. /\ created \in Nat /\ created' \in 0..MaxCreated /\ id \in 1..created'
        /\ 0..created \subseteq 0..created' /\ 1..created \subseteq 1..created'
        /\ id \notin 0..created
    BY <1>1, QuotaAssumption DEF DbInv, DbTypeOK
  <1>3. NatTyped /\ NatTracked
    BY DEF DbInv, DbTypeOK
  <1>4. /\ DOMAIN nat' = DOMAIN nat \cup {id} /\ id \notin DOMAIN nat
        /\ nat'[id] = [tenant |-> t, spec |-> s]
        /\ \A i \in DOMAIN nat : nat'[i] = nat[i]
    <2>1. id \notin DOMAIN nat
      BY <1>2, <1>3 DEF NatTyped
    <2> QED BY <1>1, <2>1 DEF Put
  <1>5. /\ nat_sig' \in [NATSpecs -> 0..created'] /\ nat_sig'[s] = id
        /\ \A x \in NATSpecs \ {s} : nat_sig'[x] = nat_sig[x]
    BY <1>1, <1>2, <1>3 DEF NatTyped
  <1>6. NatTyped'
    BY <1>1, <1>2, <1>3, <1>4, <1>5 DEF NatTyped
  <1>7. NatTracked'
    <2>1. nat_db' \subseteq nat_entries'
      BY <1>1, <1>3 DEF NatTracked
    <2>2. ASSUME NEW i \in nat_db' PROVE nat_sig'[nat'[i].spec] = i
      <3>1. CASE i = id
        BY <1>4, <1>5, <3>1
      <3>2. CASE i # id
        <4>1. i \in nat_db /\ nat'[i] = nat[i] /\ nat[i].spec \in NATSpecs
          BY <1>1, <1>3, <1>4, <3>2 DEF NatTyped
        <4>2. nat_sig[nat[i].spec] = i
          BY <1>3, <4>1 DEF NatTracked
        <4>3. nat[i].spec # s
          BY <1>1, <4>1, <4>2 DEF _find_existing_nat
        <4> QED BY <1>5, <4>1, <4>2, <4>3
      <3> QED BY <3>1, <3>2
    <2> QED BY <2>1, <2>2 DEF NatTracked
  <1>8. RulesTyped' /\ SignatureIndexComplete' /\ TenantsTyped'
    BY <1>1, <1>2 DEF DbInv, DbTypeOK, RulesTyped, SignatureIndexComplete, TenantsTyped
  <1>9. QuotasKept'
    <2>1. \A u : RulesOf(u)' = RulesOf(u)
      BY <1>1 DEF RulesOf
    <2>2. NatOf(t)' \subseteq NatOf(t) \cup {id}
      BY <1>1, <1>3, <1>4 DEF NatOf, NatTyped
    <2>3. \A u \in Tenants \ {t} : NatOf(u)' \subseteq NatOf(u)
      BY <1>1, <1>3, <1>4 DEF NatOf, NatTyped
    <2> QED BY <1>1, <2>1, <2>2, <2>3, NatQuotaGrows
  <1> QED BY <1>2, <1>6, <1>7, <1>8, <1>9 DEF DbInv, DbTypeOK

\* A deleted tenant leaves nothing behind in the tables.
LEMMA DeleteTenantInv ==
    ASSUME DbInv, NEW t \in Tenants, delete_tenant(t)
    PROVE  DbInv'
  <1>1. /\ RulesLeave(RulesOf(t)) /\ ForgetNat(NatOf(t))
        /\ registered' = Drop(registered, {t}) /\ created' = created
    BY DEF delete_tenant, Forget, RulesLeave
  <1>2. /\ RulesTyped' /\ SignatureIndexComplete'
        /\ \A u : RulesOf(u)' = RulesOf(u) \ RulesOf(t)
    BY <1>1, RulesShrink
  <1>3. /\ NatTyped' /\ NatTracked'
        /\ \A u : NatOf(u)' = NatOf(u) \ NatOf(t)
    BY <1>1, NatShrinks
  <1>4. /\ DOMAIN registered' = DOMAIN registered \ {t}
        /\ \A u \in DOMAIN registered' : registered'[u] = registered[u]
    BY <1>1 DEF Drop
  <1>5. TenantsTyped' /\ created' \in 0..MaxCreated
    BY <1>1, <1>4 DEF DbInv, DbTypeOK, TenantsTyped
  <1>6. QuotasKept'
    <2> SUFFICES ASSUME NEW u \in Tenants
                 PROVE  /\ Cardinality(RulesOf(u)') <= QuotaOf(u, "max_rules")'
                        /\ Cardinality(NatOf(u)') <= QuotaOf(u, "max_nat_entries")'
      BY DEF QuotasKept
    <2>1. CASE u = t
      <3>1. RulesOf(u)' = {} /\ NatOf(u)' = {}
        BY <1>2, <1>3, <2>1
      <3>2. QuotaOf(u, "max_rules")' = 0 /\ QuotaOf(u, "max_nat_entries")' = 0
        BY <1>4, <2>1 DEF QuotaOf
      <3> QED BY <3>1, <3>2, FS_EmptySet
    <2>2. CASE u # t
      <3>1. RulesOf(u)' = RulesOf(u) /\ NatOf(u)' = NatOf(u)
        BY <1>2, <1>3, <2>2 DEF RulesOf, NatOf
      <3>2. /\ QuotaOf(u, "max_rules")' = QuotaOf(u, "max_rules")
            /\ QuotaOf(u, "max_nat_entries")' = QuotaOf(u, "max_nat_entries")
        BY <1>4, <2>2 DEF QuotaOf
      <3> QED BY <3>1, <3>2 DEF DbInv, QuotasKept
    <2> QED BY <2>1, <2>2
  <1> QED BY <1>2, <1>3, <1>5, <1>6 DEF DbInv, DbTypeOK

\* Empty tables, at the start and after a restart.
LEMMA InitDbInv == Init => DbInv
  <1> SUFFICES ASSUME Init PROVE DbInv
    OBVIOUS
  <1>1. DbTypeOK
    BY QuotaAssumption
       DEF Init, DbTypeOK, TenantsTyped, RulesTyped, NatTyped, Absent
  <1>2. SignatureIndexComplete /\ NatTracked
    BY DEF Init, SignatureIndexComplete, NatTracked
  <1>3. \A t : RulesOf(t) = {} /\ NatOf(t) = {} /\ \A kind : QuotaOf(t, kind) = 0
    BY DEF Init, RulesOf, NatOf, QuotaOf
  <1>4. QuotasKept
    BY <1>3, FS_EmptySet DEF QuotasKept
  <1> QED BY <1>1, <1>2, <1>4 DEF DbInv

LEMMA RestartInv ==
    ASSUME DbInv, Restart
    PROVE  DbInv'
  <1>1. DbTypeOK'
    BY DEF Restart, DbInv, DbTypeOK, TenantsTyped, RulesTyped, NatTyped, Absent
  <1>2. SignatureIndexComplete' /\ NatTracked'
    BY DEF Restart, SignatureIndexComplete, NatTracked
  <1>3. \A t : RulesOf(t)' = {} /\ NatOf(t)' = {}
    BY DEF Restart, RulesOf, NatOf
  <1>4. \A t : QuotaOf(t, "max_rules")' = 0 /\ QuotaOf(t, "max_nat_entries")' = 0
    BY DEF Restart, QuotaOf
  <1>5. QuotasKept'
    BY <1>3, <1>4, FS_EmptySet DEF QuotasKept
  <1> QED BY <1>1, <1>2, <1>5 DEF DbInv

\* One of the three NAT requests of tenant t for s.
LEMMA AddNatInv ==
    ASSUME DbInv, NEW t \in Tenants, NEW s \in NATSpecs, NEW port, MayAddNat(t),
           AddNat(t, s, port)
    PROVE  DbInv'
  <1>1. CASE AddNatExisting(t, s)
    BY <1>1, NatExistingInv
  <1>2. CASE AddNatStored(t, s, port)
    BY <1>2, NatStoredInv
  <1>3. CASE AddNatFailed(t, s, port)
    BY <1>3, SameDb DEF AddNatFailed, db_vars, rule_vars
  <1> QED BY <1>1, <1>2, <1>3 DEF AddNat

\* Every request, and a restart, preserves the invariant.
LEMMA NextDbInv == DbInv /\ [Next]_vars => DbInv'
  <1> SUFFICES ASSUME DbInv, [Next]_vars PROVE DbInv'
    OBVIOUS
  <1>1. ASSUME NEW t \in Tenants, register_tenant(t) PROVE DbInv'
    BY <1>1, RegisterInv
  <1>2. ASSUME NEW t \in Tenants, delete_tenant(t) PROVE DbInv'
    BY <1>2, DeleteTenantInv
  <1>3. ASSUME NEW t \in Tenants, flush_rules(t) PROVE DbInv'
    BY <1>3, RuleRemovalInv DEF flush_rules, Forget, RulesLeave
  <1>4. ASSUME NEW t \in Tenants, flush_nat_rules(t) PROVE DbInv'
    BY <1>4, NatRemovalInv DEF flush_nat_rules, rule_vars
  <1>5. ASSUME NEW t \in Tenants, NEW q \in RuleSpecs, NEW k \in Keys \cup {NoKey},
               add_rule(t, q, k)
        PROVE  DbInv'
    <2>1. CASE AddRuleExisting(t, q, k)
      BY <2>1, SameDb DEF AddRuleExisting, vars, db_vars, rule_vars
    <2>2. CASE AddRuleStored(t, q, k)
      BY <2>2, AddRuleInv
    <2>3. CASE AddRuleFailed(t, q, k)
      BY <2>3, SameDb DEF AddRuleFailed, db_vars, rule_vars
    <2> QED BY <1>5, <2>1, <2>2, <2>3 DEF add_rule
  <1>6. ASSUME NEW t \in Tenants, NEW i \in Ids, delete_rule(t, i) PROVE DbInv'
    BY <1>6, RuleRemovalInv DEF delete_rule, Forget, RulesLeave
  <1>7. ASSUME NEW t \in Tenants, NEW i \in Ids, DeleteRuleTimeout(t, i) PROVE DbInv'
    BY <1>7, SameDb DEF DeleteRuleTimeout, db_vars, rule_vars
  <1>8. ASSUME NEW t \in Tenants, NEW i \in Ids, RuleLoopTimeout(t, i) PROVE DbInv'
    BY <1>8, RuleRemovalInv DEF RuleLoopTimeout, RulesLeave
  <1>9. ASSUME NEW t \in Tenants, NEW i \in Ids, delete_nat_rule(t, i) PROVE DbInv'
    BY <1>9, NatRemovalInv DEF delete_nat_rule, rule_vars
  <1>10. ASSUME NEW t \in Tenants, NEW i \in Ids, DeleteNatTimeout(t, i) PROVE DbInv'
    BY <1>10, NatTimeoutInv
  <1>11. ASSUME NEW t \in Tenants, NEW s \in NATSpecs,
                add_snat_rule(t, s) \/ add_dnat_rule(t, s) \/ add_port_forward_rule(t, s)
         PROVE  DbInv'
    BY <1>11, AddNatInv
       DEF add_snat_rule, add_dnat_rule, add_port_forward_rule,
           add_snat, add_dnat, add_port_forward
  <1>12. ASSUME Restart PROVE DbInv'
    BY <1>12, RestartInv
  <1>13. CASE UNCHANGED vars
    BY <1>13, SameDb DEF vars, rule_vars, db_vars
  <1> QED BY <1>1, <1>2, <1>3, <1>4, <1>5, <1>6, <1>7, <1>8, <1>9, <1>10, <1>11, <1>12,
             <1>13 DEF Next

\* The tables of the daemon are consistent whatever requests arrive and wherever tc
\* fails or times out.
THEOREM DbCorrect == Spec => []DbInv
  BY InitDbInv, NextDbInv, PTL DEF Spec

\* A tenant never has two live rules for one request, and the signature index leads
\* to the one it has: _find_existing_rule finds every equivalent rule.
THEOREM SignaturesIndexed == Spec => []SignatureIndexComplete
  <1>1. DbInv => SignatureIndexComplete
    BY DEF DbInv
  <1> QED BY <1>1, DbCorrect, PTL

\* Every NAT entry nat_manager keeps installed is tracked by the handlers and found
\* by _find_existing_nat.
THEOREM NatAlwaysTracked == Spec => []NatTracked
  <1>1. DbInv => NatTracked
    BY DEF DbInv
  <1> QED BY <1>1, DbCorrect, PTL

\* Quotas bind every tenant in every state, and a deleted tenant owns nothing.
THEOREM QuotasAlwaysKept == Spec => []QuotasKept
  <1>1. DbInv => QuotasKept
    BY DEF DbInv
  <1> QED BY <1>1, DbCorrect, PTL

-----------------------------------------------------------------------------
(* The kernel's filters *)

\* The filters that remove_rule deletes for rule r.
Named(f, r) ==
    \/ f.port = INTERNET_PORT /\ f.prio = r.spec.priority /\ f.handle = r.fwd
    \/ f.port = CLIENT_PORT /\ f.prio = r.spec.priority /\ f.handle = r.rev

\* The type of a filter, as in TypeOK.
FilterOK(f) ==
    /\ f.port \in Ports /\ f.handle \in Nat \ {NoHandle}
    /\ f.in_hw \in Offload /\ f.action \in {"redirect", "drop", "pedit"}

\* At one port and priority, neither a handle nor a match occurs twice.
NoneTwice(F) ==
    \A f, g \in F :
        /\ f.port = g.port /\ f.prio = g.prio
        /\ (f.handle = g.handle \/ f.match = g.match)
        => f = g

\* Well-formed filters; there is a largest handle because there is a bound.
KernelOK(F) ==
    /\ \A f \in F : FilterOK(f)
    /\ \E n \in Nat : \A f \in F : f.handle <= n
    /\ NoneTwice(F)

\* F has become G in a loop that removed the rules ids up to n: only filters that they
\* name are gone.
RemovalGood(F, G, ids, n) ==
    /\ G \subseteq F
    /\ \A f \in F \ G : \E i \in ids : i <= n /\ Named(f, rules_db[i])

\* F has become G in a loop that added the entries ids up to n again.
ReapplyGood(F, G, ids, n) ==
    /\ KernelOK(G)
    /\ F \subseteq G
    /\ \A f \in G \ F : f.prio = NAT_PRIORITY

\* F has become G in a loop that removed the entries ids up to n: nothing outside the
\* NAT band has changed.
NatGood(F, G, ids, n) ==
    /\ KernelOK(G)
    /\ \A f \in F \ G : f.prio = NAT_PRIORITY
    /\ \A f \in G \ F : f.prio = NAT_PRIORITY

\* The rule for loops, for each of the three.
RemovalRule == INSTANCE LoopProofs WITH N <- MaxCreated, Step <- RemoveRound, Good <- RemovalGood
ReapplyRule == INSTANCE LoopProofs WITH N <- MaxCreated, Step <- ReapplyRound, Good <- ReapplyGood
NatRule == INSTANCE LoopProofs WITH N <- MaxCreated, Step <- NatRound, Good <- NatGood

-----------------------------------------------------------------------------
(* tc commands *)

\* The largest handle of a band, and that it exists.
LEMMA LastHandle ==
    ASSUME NEW F, KernelOK(F), NEW port, NEW prio
    PROVE  LET used == {f.handle : f \in At(F, port, prio)}
           IN  /\ Max({0} \cup used) \in {0} \cup used
               /\ Max({0} \cup used) \in Nat
               /\ \A h \in used : h <= Max({0} \cup used)
  <1> DEFINE used == {f.handle : f \in At(F, port, prio)}
             S == {0} \cup used
  <1>1. PICK n \in Nat : \A f \in F : f.handle <= n
    BY DEF KernelOK
  <1>2. S \in SUBSET Nat /\ S # {} /\ \A k \in S : k <= n
    BY <1>1 DEF KernelOK, FilterOK, At
  <1> HIDE DEF S
  <1>3. \E m \in S : \A k \in S : k <= m
    BY <1>2, RemovalRule!GreatestElement
  <1>4. Max(S) \in S /\ \A k \in S : k <= Max(S)
    BY <1>2, <1>3 DEF Max
  <1>5. Max(S) \in Nat
    BY <1>2, <1>4
  <1> QED
    BY <1>4, <1>5 DEF S

\* The kernel gives out a handle that is not in use in the band.
LEMMA HandleIsFresh ==
    ASSUME NEW F, KernelOK(F), NEW port, NEW prio
    PROVE  /\ NewHandle(F, port, prio) \in Nat \ {NoHandle}
           /\ \A f \in At(F, port, prio) : f.handle # NewHandle(F, port, prio)
  <1> DEFINE used == {f.handle : f \in At(F, port, prio)}
  <1>1. CASE ~HandleReuse
    <2>1. PICK m : m = Max({0} \cup used)
      OBVIOUS
    <2>2. m \in Nat /\ \A h \in used : h <= m
      BY <2>1, LastHandle
    <2>3. NewHandle(F, port, prio) = m + 1
      BY <1>1, <2>1 DEF NewHandle
    <2>4. \A f \in At(F, port, prio) : f.handle \in Nat /\ f.handle <= m
      BY <2>2 DEF At, KernelOK, FilterOK
    <2> QED
      BY <2>2, <2>3, <2>4 DEF NoHandle
  <1>2. CASE HandleReuse
    <2>1. PICK n \in Nat : \A f \in F : f.handle <= n
      BY DEF KernelOK
    <2>2. used \subseteq 0..n
      BY <2>1 DEF KernelOK, FilterOK, At
    <2> HIDE DEF used
    <2>3. IsFiniteSet(used) /\ Cardinality(used) \in Nat
      <3>1. IsFiniteSet(0..n)
        BY FS_Interval
      <3>2. IsFiniteSet(used)
        BY <2>2, <3>1, FS_Subset
      <3> QED
        BY <3>2, FS_CardinalityType
    <2>4. PICK c \in Nat : c = Cardinality(used)
      BY <2>3
    <2>5. Cardinality(1..(c + 1)) = c + 1
      BY FS_Interval
    <2>6. ~(1..(c + 1) \subseteq used)
      <3>1. 1..(c + 1) \subseteq used => Cardinality(1..(c + 1)) <= Cardinality(used)
        BY <2>3, FS_Subset
      <3> QED
        BY <2>4, <2>5, <3>1
    <2>7. PICK B : B = 1..(c + 1) \ used
      OBVIOUS
    <2>8. B \in SUBSET Nat /\ B # {} /\ 0 \notin B
      BY <2>6, <2>7
    <2>9. \E m \in B : \A k \in B : m <= k
      BY <2>8, RemovalRule!LeastElement
    <2>10. Min(B) \in B
      BY <2>9 DEF Min
    <2>11. NewHandle(F, port, prio) = Min(B)
      BY <1>2, <2>4, <2>7 DEF NewHandle, used
    <2>12. \A f \in At(F, port, prio) : f.handle \in used
      BY DEF used
    <2> QED
      BY <1>2, <2>7, <2>8, <2>10, <2>11, <2>12 DEF NoHandle
  <1> QED
    BY <1>1, <1>2

\* Fewer filters are as well formed as before.
LEMMA KernelShrinks ==
    ASSUME NEW F, KernelOK(F), NEW G \in SUBSET F
    PROVE  KernelOK(G)
  BY DEF KernelOK, NoneTwice

\* One more filter that the kernel does not refuse.
LEMMA KernelGrows ==
    ASSUME NEW F, KernelOK(F), NEW port \in Ports, NEW prio, NEW match,
           NEW action \in {"redirect", "drop", "pedit"}, ~Refuses(F, port, prio, match),
           NEW G \in Inserted(F, port, prio, match, action)
    PROVE  /\ KernelOK(G)
           /\ \E f : /\ G = F \cup {f}
                     /\ f.port = port /\ f.prio = prio
                     /\ f.match = match /\ f.action = action
                     /\ f.handle = NewHandle(F, port, prio)
  <1>1. PICK h : h = NewHandle(F, port, prio)
    OBVIOUS
  <1>2. /\ h \in Nat \ {NoHandle}
        /\ \A f \in At(F, port, prio) : f.handle # h
    BY <1>1, HandleIsFresh
  <1>3. PICK hw \in Offload :
            G = F \cup {[port |-> port, prio |-> prio, match |-> match, action |-> action,
                         handle |-> h, in_hw |-> hw]}
    BY <1>1 DEF Inserted
  <1> DEFINE f == [port |-> port, prio |-> prio, match |-> match, action |-> action,
                   handle |-> h, in_hw |-> hw]
  <1>4. /\ G = F \cup {f}
        /\ f.port = port /\ f.prio = prio /\ f.match = match
        /\ f.action = action /\ f.handle = h /\ f.in_hw = hw
    BY <1>3
  <1> HIDE DEF f
  <1>5. \A g \in G : FilterOK(g)
    BY <1>2, <1>4 DEF KernelOK, FilterOK
  <1>6. \E n \in Nat : \A g \in G : g.handle <= n
    <2>1. PICK n \in Nat : \A g \in F : g.handle <= n
      BY DEF KernelOK
    <2>2. n + h \in Nat /\ \A g \in G : g.handle \in Nat
      BY <1>2, <1>5 DEF FilterOK
    <2>3. \A g \in G : g.handle <= n + h
      BY <1>2, <1>4, <2>1, <2>2
    <2> QED
      BY <2>2, <2>3
  <1>7. \A g \in F : g.port = port /\ g.prio = prio => g.handle # h /\ g.match # match
    BY <1>2 DEF Refuses, At
  <1>8. NoneTwice(G)
    BY <1>4, <1>7 DEF KernelOK, NoneTwice
  <1> QED
    BY <1>1, <1>4, <1>5, <1>6, <1>8 DEF KernelOK

\* The outcomes of adding a filter.
LEMMA AddOutcomes ==
    ASSUME NEW F, NEW port, NEW prio, NEW match, NEW action,
           NEW o \in filter_add(F, port, prio, match, action)
    PROVE  \/ o.filters = F /\ o.status # "ok"
           \/ /\ ~Refuses(F, port, prio, match)
              /\ o.filters \in Inserted(F, port, prio, match, action)
  BY DEF filter_add, Refused, _run_tc, Outcome, TimedOut

\* The outcomes of removing one.
LEMMA RemoveOutcomes ==
    ASSUME NEW F, NEW port, NEW handle, NEW prio,
           NEW o \in remove_rule(F, port, handle, prio)
    PROVE  \/ o.filters = F
           \/ o.filters = F \ {f \in At(F, port, prio) : f.handle = handle}
  BY DEF remove_rule, Refused, _run_tc, Outcome, TimedOut

\* Removing a rule touches only the filters that its handles name, however it ends.
LEMMA RemoveBothEffect ==
    ASSUME NEW F, NEW r, NEW o \in RemoveBoth(F, r)
    PROVE  /\ o.filters \subseteq F
           /\ \A f \in F \ o.filters : Named(f, r)
  <1> DEFINE Cut(G, port, h) == G \ {f \in At(G, port, r.spec.priority) : f.handle = h}
  <1>1. PICK first : /\ first \in IF r.fwd = NoHandle THEN {Outcome(F, "ok")}
                                  ELSE remove_rule(F, INTERNET_PORT, r.fwd, r.spec.priority)
                     /\ o \in IF first.status # "ok" \/ r.rev = NoHandle THEN {first}
                              ELSE remove_rule(first.filters, CLIENT_PORT, r.rev, r.spec.priority)
    BY DEF RemoveBoth
  <1>2. first.filters = F \/ first.filters = Cut(F, INTERNET_PORT, r.fwd)
    <2>1. CASE r.fwd = NoHandle
      BY <1>1, <2>1 DEF Outcome
    <2>2. CASE r.fwd # NoHandle
      <3>1. first \in remove_rule(F, INTERNET_PORT, r.fwd, r.spec.priority)
        BY <1>1, <2>2
      <3> QED
        BY <3>1, RemoveOutcomes
    <2> QED
      BY <2>1, <2>2
  <1>3. o.filters = first.filters \/ o.filters = Cut(first.filters, CLIENT_PORT, r.rev)
    <2>1. CASE first.status # "ok" \/ r.rev = NoHandle
      BY <1>1, <2>1
    <2>2. CASE first.status = "ok" /\ r.rev # NoHandle
      <3>1. o \in remove_rule(first.filters, CLIENT_PORT, r.rev, r.spec.priority)
        BY <1>1, <2>2
      <3> QED
        BY <3>1, RemoveOutcomes
    <2> QED
      BY <2>1, <2>2
  <1> QED
    BY <1>2, <1>3 DEF Named, At

-----------------------------------------------------------------------------
(* The loops of the handlers *)

\* The rule loop of flush_rules and delete_tenant.
LEMMA RemovalEffect ==
    ASSUME NEW ids \in SUBSET Ids, NEW F \in RemovedAll(ids)
    PROVE  RemovalGood(filters, F, ids, MaxCreated)
  <1>1. RemovalGood(filters, filters, ids, 0)
    BY DEF RemovalGood, Ids
  <1>2. ASSUME NEW i \in 1..MaxCreated, NEW G PROVE RemovalRule!Kept(filters, G, ids, i)
    <2> SUFFICES ASSUME RemovalGood(filters, G, ids, i - 1)
                 PROVE  /\ i \notin ids => RemovalGood(filters, G, ids, i)
                        /\ i \in ids => \A H \in RemoveRound(G, ids, i) :
                                            RemovalGood(filters, H, ids, i)
      BY DEF RemovalRule!Kept
    <2>1. \A j \in ids : j \in Nat /\ i \in Nat /\ (j <= i <=> j <= i - 1 \/ j = i)
      BY QuotaAssumption DEF Ids
    <2>2. CASE i \notin ids
      BY <2>1, <2>2 DEF RemovalGood
    <2>3. ASSUME i \in ids, NEW H \in RemoveRound(G, ids, i)
          PROVE  RemovalGood(filters, H, ids, i)
      <3>1. PICK o \in RemoveBoth(G, rules_db[i]) : H = o.filters
        BY <2>3 DEF RemoveRound, Removed
      <3>2. H \subseteq G /\ \A f \in G \ H : Named(f, rules_db[i])
        BY <3>1, RemoveBothEffect
      <3>3. H \subseteq filters /\ \A f \in filters \ H : \E j \in ids : j <= i /\ Named(f, rules_db[j])
        BY <2>1, <2>3, <3>2 DEF RemovalGood
      <3> QED
        BY <3>3 DEF RemovalGood
    <2> QED
      BY <2>2, <2>3
  <1>3. \A n \in 0..MaxCreated : \A G \in RemovalRule!After(filters, ids)[n] :
            RemovalGood(filters, G, ids, n)
    BY <1>1, <1>2, RemovalRule!LoopRule, QuotaAssumption
  <1>4. Removal!After(filters, ids) = RemovalRule!After(filters, ids)
    BY DEF Removal!After, RemovalRule!After
  <1>5. MaxCreated \in 0..MaxCreated
    BY QuotaAssumption
  <1> QED
    BY <1>3, <1>4, <1>5 DEF RemovedAll

\* The loop of remove_nat over the survivors.
LEMMA ReapplyEffect ==
    ASSUME NEW F, KernelOK(F), NEW ids \in SUBSET Ids, NEW n \in 0..MaxCreated,
           NEW G \in Reapplied(F, ids, n)
    PROVE  ReapplyGood(F, G, ids, n)
  <1>1. ReapplyGood(F, F, ids, 0)
    BY DEF ReapplyGood, Ids
  <1>2. ASSUME NEW i \in 1..MaxCreated, NEW H PROVE ReapplyRule!Kept(F, H, ids, i)
    <2> SUFFICES ASSUME ReapplyGood(F, H, ids, i - 1)
                 PROVE  /\ i \notin ids => ReapplyGood(F, H, ids, i)
                        /\ i \in ids => \A J \in ReapplyRound(H, ids, i) :
                                            ReapplyGood(F, J, ids, i)
      BY DEF ReapplyRule!Kept
    <2>2. CASE i \notin ids
      BY <2>2 DEF ReapplyGood
    <2>3. ASSUME i \in ids, NEW J \in ReapplyRound(H, ids, i)
          PROVE  ReapplyGood(F, J, ids, i)
      <3>1. PICK s : s = nat[i].spec
        OBVIOUS
      <3>2. PICK o \in filter_add(H, NatPort(s), NAT_PRIORITY, s.match, "pedit") :
                J = o.filters
        BY <2>3, <3>1 DEF ReapplyRound
      <3>3. NatPort(s) \in Ports /\ KernelOK(H)
        BY DEF NatPort, Ports, ReapplyGood
      <3>4. CASE J = H
        BY <3>4 DEF ReapplyGood
      <3>5. CASE /\ ~Refuses(H, NatPort(s), NAT_PRIORITY, s.match)
                 /\ J \in Inserted(H, NatPort(s), NAT_PRIORITY, s.match, "pedit")
        <4>1. KernelOK(J)
          BY <3>3, <3>5, KernelGrows
        <4>2. PICK f : J = H \cup {f} /\ f.prio = NAT_PRIORITY
          BY <3>3, <3>5, KernelGrows
        <4> QED
          BY <4>1, <4>2 DEF ReapplyGood
      <3> QED
        BY <3>2, <3>4, <3>5, AddOutcomes
    <2> QED
      BY <2>2, <2>3
  <1>3. \A k \in 0..MaxCreated : \A H \in ReapplyRule!After(F, ids)[k] :
            ReapplyGood(F, H, ids, k)
    BY <1>1, <1>2, ReapplyRule!LoopRule, QuotaAssumption
  <1>4. Reapplication!After(F, ids) = ReapplyRule!After(F, ids)
    BY DEF Reapplication!After, ReapplyRule!After
  <1> QED
    BY <1>3, <1>4 DEF Reapplied

\* remove_nat, however it ends: outside the NAT band nothing changes.
LEMMA RemoveNatEffect ==
    ASSUME NEW F, KernelOK(F), NEW live \in SUBSET Ids, NEW i \in Ids,
           NEW G \in RemovedNat(F, live, i) \cup RemoveNatTimeouts(F, live, i)
    PROVE  /\ KernelOK(G)
           /\ \A f \in F \ G : f.prio = NAT_PRIORITY
           /\ \A f \in G \ F : f.prio = NAT_PRIORITY
  <1> DEFINE port == NatPort(nat[i].spec)
             Cut == F \ At(F, port, NAT_PRIORITY)
             survivors == SurvivorsOf(live, i)
  <1>0. MaxCreated \in 0..MaxCreated
    BY QuotaAssumption
  <1>1. PICK o \in Wiped(F, port) :
            \/ G = o.filters
            \/ \E n \in 0..MaxCreated : G \in Reapplied(o.filters, survivors, n)
    <2>1. CASE G \in RemovedNat(F, live, i)
      BY <1>0, <2>1 DEF RemovedNat
    <2>2. CASE G \in RemoveNatTimeouts(F, live, i)
      <3>1. PICK o \in Wiped(F, port) :
                \/ G = o.filters
                \/ \E j \in survivors : \/ G \in Reapplied(o.filters, survivors, j - 1)
                                        \/ G \in Reapplied(o.filters, survivors, j)
        BY <2>2 DEF RemoveNatTimeouts
      <3>2. \A j \in survivors : j \in 0..MaxCreated /\ j - 1 \in 0..MaxCreated
        BY QuotaAssumption DEF SurvivorsOf, Ids
      <3> QED
        BY <3>1, <3>2
    <2> QED
      BY <2>1, <2>2
  <1>2. o.filters = F \/ o.filters = Cut
    BY DEF Wiped, _run_tc, Outcome, TimedOut
  <1>3. Cut \subseteq F /\ \A f \in F \ Cut : f.prio = NAT_PRIORITY
    BY DEF At
  <1>4. KernelOK(o.filters)
    BY <1>2, <1>3, KernelShrinks
  <1>5. survivors \in SUBSET Ids
    BY DEF SurvivorsOf
  <1> HIDE DEF survivors
  <1>6. CASE G = o.filters
    BY <1>2, <1>3, <1>4, <1>6
  <1>7. ASSUME NEW n \in 0..MaxCreated, G \in Reapplied(o.filters, survivors, n)
        PROVE  /\ KernelOK(G)
               /\ \A f \in F \ G : f.prio = NAT_PRIORITY
               /\ \A f \in G \ F : f.prio = NAT_PRIORITY
    <2>1. ReapplyGood(o.filters, G, survivors, n)
      BY <1>4, <1>5, <1>7, ReapplyEffect
    <2> QED
      BY <1>2, <1>3, <2>1 DEF ReapplyGood
  <1> QED
    BY <1>1, <1>6, <1>7

\* The NAT loop of flush_nat_rules and delete_tenant.
LEMMA NatRemovalEffect ==
    ASSUME DbTypeOK, NEW F, KernelOK(F), NEW ids \in SUBSET Ids, NEW G \in NatRemovedAll(F, ids)
    PROVE  NatGood(F, G, ids, MaxCreated)
  <1>0. nat_db \subseteq Ids
    BY QuotaAssumption DEF DbTypeOK, NatTyped, Ids
  <1>1. NatGood(F, F, ids, 0)
    BY DEF NatGood
  <1>2. ASSUME NEW i \in 1..MaxCreated, NEW H PROVE NatRule!Kept(F, H, ids, i)
    <2> SUFFICES ASSUME NatGood(F, H, ids, i - 1)
                 PROVE  /\ i \notin ids => NatGood(F, H, ids, i)
                        /\ i \in ids => \A J \in NatRound(H, ids, i) :
                                            NatGood(F, J, ids, i)
      BY DEF NatRule!Kept
    <2>1. NatGood(F, H, ids, i)
      BY DEF NatGood
    <2>2. ASSUME i \in nat_db, NEW J \in NatRound(H, ids, i) PROVE NatGood(F, J, ids, i)
      <3> DEFINE live == nat_db \ {j \in ids : j < i}
      <3>1. J \in RemovedNat(H, live, i) \cup RemoveNatTimeouts(H, live, i)
        BY <2>2 DEF NatRound
      <3>2. KernelOK(H) /\ live \in SUBSET Ids /\ i \in Ids
        BY <1>0 DEF NatGood, Ids
      <3> HIDE DEF live
      <3>3. /\ KernelOK(J)
            /\ \A f \in H \ J : f.prio = NAT_PRIORITY
            /\ \A f \in J \ H : f.prio = NAT_PRIORITY
        BY <3>1, <3>2, RemoveNatEffect
      <3> QED
        BY <3>3 DEF NatGood
    <2>3. i \notin nat_db => NatRound(H, ids, i) = {H}
      BY DEF NatRound
    <2> QED
      BY <2>1, <2>2, <2>3
  <1>3. \A n \in 0..MaxCreated : \A H \in NatRule!After(F, ids)[n] : NatGood(F, H, ids, n)
    BY <1>1, <1>2, NatRule!LoopRule, QuotaAssumption
  <1>4. NatRemoval!After(F, ids) = NatRule!After(F, ids)
    BY DEF NatRemoval!After, NatRule!After
  <1>5. MaxCreated \in 0..MaxCreated
    BY QuotaAssumption
  <1> QED
    BY <1>3, <1>4, <1>5 DEF NatRemovedAll

\* A filter with the given key and action.
IsFilter(f, port, prio, match, action) ==
    f.port = port /\ f.prio = prio /\ f.match = match /\ f.action = action

\* The handle h stored for filter f of G, new since F, is unknown or the filter's own,
\* if the kernel numbered the filter above those there were.
Remembered(F, G, f, h) ==
    f.prio \notin OutOfTurn(F, G) => h = f.handle \/ h = NoHandle

\* One direction of a rule: the filter is added or not, and the handle looked up
\* afterwards is the new filter's unless a higher one is in use or the lookup fails.
LEMMA AddFilterEffect ==
    ASSUME NEW F, KernelOK(F), NEW port \in Ports, NEW prio, NEW match,
           NEW action \in {"redirect", "drop", "pedit"},
           NEW a \in AddFilter(F, port, prio, match, action)
    PROVE  /\ KernelOK(a.o.filters) /\ a.handle \in Nat
           /\ \/ a.o.filters = F /\ a.o.status # "ok"
              \/ /\ ~Refuses(F, port, prio, match)
                 /\ \E f : /\ a.o.filters = F \cup {f}
                           /\ IsFilter(f, port, prio, match, action)
                           /\ \/ \E g \in At(F, port, prio) : g.handle > f.handle
                              \/ a.handle = f.handle \/ a.handle = NoHandle
  <1>1. PICK o \in filter_add(F, port, prio, match, action) :
            \/ o.status # "ok" /\ a = [o |-> o, handle |-> NoHandle]
            \/ /\ o.status = "ok"
               /\ \/ \E h \in _get_last_handle(o.filters, port, prio) :
                        a = [o |-> o, handle |-> h]
                  \/ \E late \in TimedOut({o.filters}) : a = [o |-> late, handle |-> NoHandle]
    BY DEF AddFilter
  <1>2. /\ a.o.filters = o.filters
        /\ a.o.status = "ok" => o.status = "ok"
        /\ a.handle = NoHandle \/ a.handle \in _get_last_handle(o.filters, port, prio)
        /\ o.status # "ok" => a.handle = NoHandle
    BY <1>1 DEF TimedOut, Outcome
  <1>3. \/ o.filters = F /\ o.status # "ok"
        \/ /\ ~Refuses(F, port, prio, match)
           /\ o.filters \in Inserted(F, port, prio, match, action)
    BY AddOutcomes
  <1>4. CASE o.filters = F /\ o.status # "ok"
    BY <1>2, <1>4 DEF NoHandle
  <1>5. CASE /\ ~Refuses(F, port, prio, match)
             /\ o.filters \in Inserted(F, port, prio, match, action)
    <2>1. KernelOK(o.filters)
      BY <1>5, KernelGrows
    <2>2. PICK f : /\ o.filters = F \cup {f}
                   /\ f.port = port /\ f.prio = prio
                   /\ f.match = match /\ f.action = action
      BY <1>5, KernelGrows
    <2> DEFINE used == {g.handle : g \in At(o.filters, port, prio)}
    <2>3. PICK m : m = Max({0} \cup used)
      OBVIOUS
    <2>4. m \in Nat /\ m \in {0} \cup used /\ \A h \in used : h <= m
      BY <2>1, <2>3, LastHandle
    <2>5. a.handle = m \/ a.handle = NoHandle
      <3>1. _get_last_handle(o.filters, port, prio)
                = {m} \cup IF "error" \in Faults THEN {NoHandle} ELSE {}
        BY <2>3 DEF _get_last_handle, NoHandle
      <3>2. CASE "error" \in Faults
        BY <1>2, <3>1, <3>2
      <3>3. CASE "error" \notin Faults
        BY <1>2, <3>1, <3>3
      <3> QED
        BY <3>2, <3>3
    <2>6. a.handle \in Nat
      BY <2>4, <2>5 DEF NoHandle
    <2>7. ASSUME \A g \in At(F, port, prio) : ~(g.handle > f.handle) PROVE m = f.handle
      <3>1. f \in At(o.filters, port, prio)
        BY <2>2 DEF At
      <3>2. \A g \in o.filters : g.handle \in Nat \ {0}
        BY <2>1 DEF KernelOK, FilterOK, NoHandle
      <3>3. f.handle \in used /\ f.handle \in Nat \ {0} /\ f.handle <= m
        BY <2>4, <3>1, <3>2 DEF At
      <3>4. m \in used
        BY <2>4, <3>3
      <3>5. PICK g \in At(o.filters, port, prio) : m = g.handle
        BY <3>4
      <3>6. g = f \/ g \in At(F, port, prio)
        BY <2>2, <3>5 DEF At
      <3> QED
        BY <2>4, <2>7, <3>3, <3>5, <3>6
    <2> QED
      BY <1>2, <1>5, <2>1, <2>2, <2>5, <2>6, <2>7 DEF IsFilter
  <1> QED
    BY <1>3, <1>4, <1>5

\* What adding both filters of a rule does to F: nothing is lost, what is new is the
\* rule's, and if all went well the handles are those of its filters.
AddedBoth(F, prio, match, action, a) ==
    /\ KernelOK(a.o.filters) /\ F \subseteq a.o.filters
    /\ \A f \in a.o.filters \ F : f.prio = prio
    /\ a.fwd \in Nat /\ a.rev \in Nat
    /\ a.o.status = "ok" =>
          /\ ~Refuses(F, INTERNET_PORT, prio, match)
          /\ \E f \in a.o.filters :
                /\ IsFilter(f, INTERNET_PORT, prio, match, action)
                /\ Remembered(F, a.o.filters, f, a.fwd)
          /\ \E f \in a.o.filters :
                /\ IsFilter(f, CLIENT_PORT, prio, match, action)
                /\ Remembered(F, a.o.filters, f, a.rev)

LEMMA AddBothEffect ==
    ASSUME NEW F, KernelOK(F), NEW prio, NEW match,
           NEW action \in {"redirect", "drop"}, NEW a \in AddBoth(F, prio, match, action)
    PROVE  AddedBoth(F, prio, match, action, a)
  <1>1. PICK x \in AddFilter(F, INTERNET_PORT, prio, match, action) :
            \/ x.o.status # "ok" /\ a = [o |-> x.o, fwd |-> NoHandle, rev |-> NoHandle]
            \/ /\ x.o.status = "ok"
               /\ \E y \in AddFilter(x.o.filters, CLIENT_PORT, prio, match, action) :
                     a = [o |-> y.o, fwd |-> x.handle, rev |-> y.handle]
    BY DEF AddBoth
  <1>2. /\ KernelOK(x.o.filters) /\ x.handle \in Nat
        /\ \/ x.o.filters = F /\ x.o.status # "ok"
           \/ /\ ~Refuses(F, INTERNET_PORT, prio, match)
              /\ \E f : /\ x.o.filters = F \cup {f}
                        /\ IsFilter(f, INTERNET_PORT, prio, match, action)
                        /\ \/ \E g \in At(F, INTERNET_PORT, prio) : g.handle > f.handle
                           \/ x.handle = f.handle \/ x.handle = NoHandle
    BY AddFilterEffect DEF Ports
  <1>3. CASE x.o.status # "ok" /\ a = [o |-> x.o, fwd |-> NoHandle, rev |-> NoHandle]
    <2>1. a.o = x.o /\ a.fwd = NoHandle /\ a.rev = NoHandle
      BY <1>3
    <2> QED
      BY <1>2, <1>3, <2>1 DEF NoHandle, IsFilter, AddedBoth
  <1>4. ASSUME x.o.status = "ok",
               NEW y \in AddFilter(x.o.filters, CLIENT_PORT, prio, match, action),
               a = [o |-> y.o, fwd |-> x.handle, rev |-> y.handle]
        PROVE  AddedBoth(F, prio, match, action, a)
    <2>1. a.o = y.o /\ a.fwd = x.handle /\ a.rev = y.handle
      BY <1>4
    <2>2. ~Refuses(F, INTERNET_PORT, prio, match)
      BY <1>2, <1>4
    <2>3. PICK f : /\ x.o.filters = F \cup {f}
                   /\ IsFilter(f, INTERNET_PORT, prio, match, action)
                   /\ \/ \E g \in At(F, INTERNET_PORT, prio) : g.handle > f.handle
                      \/ x.handle = f.handle \/ x.handle = NoHandle
      BY <1>2, <1>4
    <2>4. /\ KernelOK(y.o.filters) /\ y.handle \in Nat
          /\ \/ y.o.filters = x.o.filters /\ y.o.status # "ok"
             \/ /\ ~Refuses(x.o.filters, CLIENT_PORT, prio, match)
                /\ \E g : /\ y.o.filters = x.o.filters \cup {g}
                          /\ IsFilter(g, CLIENT_PORT, prio, match, action)
                          /\ \/ \E k \in At(x.o.filters, CLIENT_PORT, prio) :
                                   k.handle > g.handle
                             \/ y.handle = g.handle \/ y.handle = NoHandle
      BY <1>2, AddFilterEffect DEF Ports
    <2>5. F \subseteq a.o.filters /\ \A g \in a.o.filters \ F : g.prio = prio
      BY <2>1, <2>3, <2>4 DEF IsFilter
    <2>6. ASSUME a.o.status = "ok"
          PROVE  /\ \E g \in a.o.filters :
                       /\ IsFilter(g, INTERNET_PORT, prio, match, action)
                       /\ Remembered(F, a.o.filters, g, a.fwd)
                 /\ \E g \in a.o.filters :
                       /\ IsFilter(g, CLIENT_PORT, prio, match, action)
                       /\ Remembered(F, a.o.filters, g, a.rev)
      <3>1. PICK g : /\ y.o.filters = x.o.filters \cup {g}
                     /\ IsFilter(g, CLIENT_PORT, prio, match, action)
                     /\ \/ \E k \in At(x.o.filters, CLIENT_PORT, prio) :
                              k.handle > g.handle
                        \/ y.handle = g.handle \/ y.handle = NoHandle
        BY <2>1, <2>4, <2>6
      <3>2. ~Refuses(x.o.filters, CLIENT_PORT, prio, match)
        <4>1. CASE y.o.filters = x.o.filters /\ y.o.status # "ok"
          BY <2>1, <2>6, <4>1
        <4> QED
          BY <2>4, <4>1
      <3>3. f \in a.o.filters /\ g \in a.o.filters /\ f \notin F /\ g \notin F
        BY <2>1, <2>2, <2>3, <3>1, <3>2 DEF IsFilter, Refuses, At
      <3>4. At(x.o.filters, CLIENT_PORT, prio) = At(F, CLIENT_PORT, prio)
        BY <2>3 DEF At, IsFilter, INTERNET_PORT, CLIENT_PORT
      <3>5. Remembered(F, a.o.filters, f, a.fwd)
        BY <2>1, <2>3, <3>3 DEF Remembered, OutOfTurn, IsFilter
      <3>6. Remembered(F, a.o.filters, g, a.rev)
        BY <2>1, <3>1, <3>3, <3>4 DEF Remembered, OutOfTurn, IsFilter
      <3>7. /\ IsFilter(f, INTERNET_PORT, prio, match, action)
            /\ IsFilter(g, CLIENT_PORT, prio, match, action)
        BY <2>3, <3>1
      <3> QED
        BY <3>3, <3>5, <3>6, <3>7, Zenon
    <2> QED
      BY <1>2, <2>1, <2>2, <2>4, <2>5, <2>6 DEF AddedBoth
  <1> QED
    BY <1>1, <1>3, <1>4

-----------------------------------------------------------------------------
(* The invariant *)

\* There is a filter for q, with handle h if that is known.
BackedAt(F, port, q, h) ==
    \E f \in F : f.port = port /\ Implements(f, q) /\ (h # NoHandle => f.handle = h)

\* Rule r has its filters, and the handles it stored are theirs.
Backed(F, r) ==
    BackedAt(F, INTERNET_PORT, r.spec, r.fwd) /\ BackedAt(F, CLIENT_PORT, r.spec, r.rev)

\* The rules of the table D outside the priorities X.
Sure(D, X) == {i \in DOMAIN D : D[i].spec.priority \notin X}

\* Every such rule has filters of its own in F.
RulesOn(F, D, X) ==
    /\ \A i, j \in Sure(D, X) :
          D[i].spec.priority = D[j].spec.priority /\ D[i].spec.match = D[j].spec.match => i = j
    /\ \A i \in Sure(D, X) : Backed(F, D[i])

\* The priorities at which a rule is not Trusted.
Doubtful == suspect \cup {NAT_PRIORITY}

\* The type of rules_db, as in TypeOK.
RuleRecords == \A i \in DOMAIN rules_db : rules_db[i] \in FirewallRule

\* Only priorities of rules are suspect, as in TypeOK.
SuspectTyped == suspect \subseteq {q.priority : q \in RuleSpecs}

\* The inductive invariant of the kernel's filters.
KernelInv ==
    /\ DbInv /\ RuleRecords /\ SuspectTyped /\ KernelOK(filters)
    /\ RulesOn(filters, rules_db, Doubtful)

\* The filter that a rule names is its own.
LEMMA NamedIsOwn ==
    ASSUME NEW F, NEW r, KernelOK(F), Backed(F, r), NEW f \in F, Named(f, r)
    PROVE  Implements(f, r.spec)
  <1>1. f.handle # NoHandle
    BY DEF KernelOK, FilterOK
  <1>2. PICK g \in F : /\ g.port = f.port /\ g.prio = f.prio /\ g.handle = f.handle
                       /\ Implements(g, r.spec)
    BY <1>1 DEF Named, Backed, BackedAt, Implements
  <1>3. g = f
    BY <1>2 DEF KernelOK, NoneTwice
  <1> QED
    BY <1>2, <1>3

\* Filters that F lost because rules named them, rules that are gone from the table (E)
\* or that are in doubt from now on (Y), were not those of a rule that is still sure.
LEMMA LossKeepsRules ==
    ASSUME NEW F, KernelOK(F), NEW D, NEW X, RulesOn(F, D, X), NEW ids,
           NEW G \in SUBSET F, NEW Y, X \subseteq Y,
           \A f \in F \ G : \E j \in DOMAIN D :
               Named(f, D[j]) /\ (j \in ids \/ D[j].spec.priority \in Y),
           NEW E, DOMAIN E \subseteq DOMAIN D \ ids, \A i \in DOMAIN E : E[i] = D[i]
    PROVE  RulesOn(G, E, Y)
  <1>1. \A i \in Sure(E, Y) : i \in Sure(D, X) /\ i \notin ids /\ E[i] = D[i]
    BY DEF Sure
  <1>2. ASSUME NEW i \in Sure(E, Y), NEW f \in F, Implements(f, D[i].spec)
        PROVE  f \in G
    <2>1. ASSUME f \notin G PROVE FALSE
      <3>1. PICK j \in DOMAIN D : Named(f, D[j]) /\ (j \in ids \/ D[j].spec.priority \in Y)
        BY <2>1
      <3>2. f.prio = D[j].spec.priority /\ f.prio = D[i].spec.priority
        BY <1>2, <3>1 DEF Named, Implements
      <3>3. D[j].spec.priority \notin Y
        BY <1>1, <3>2 DEF Sure
      <3>4. j \in ids /\ j \in Sure(D, X)
        BY <3>1, <3>3 DEF Sure
      <3>5. Implements(f, D[j].spec)
        BY <3>1, <3>4, NamedIsOwn DEF RulesOn
      <3>6. i = j
        BY <1>1, <1>2, <3>4, <3>5 DEF Implements, RulesOn
      <3> QED
        BY <1>1, <3>4, <3>6
    <2> QED
      BY <2>1
  <1>3. ASSUME NEW i \in Sure(E, Y) PROVE Backed(G, E[i])
    <2>1. E[i] = D[i] /\ Backed(F, D[i])
      BY <1>1 DEF RulesOn
    <2> QED
      BY <1>2, <2>1 DEF Backed, BackedAt
  <1> QED
    BY <1>1, <1>3 DEF RulesOn

\* What happens in the NAT band concerns no rule outside it.
LEMMA BandKeepsRules ==
    ASSUME NEW D, NEW X, NAT_PRIORITY \in X, NEW F, NEW G,
           \A f \in F \ G : f.prio = NAT_PRIORITY, RulesOn(F, D, X)
    PROVE  RulesOn(G, D, X)
  <1>1. \A i \in Sure(D, X) : Backed(G, D[i])
    BY DEF Sure, RulesOn, Backed, BackedAt, Implements
  <1> QED
    BY <1>1 DEF RulesOn

-----------------------------------------------------------------------------
(* Every step keeps the invariant *)

\* Rules leave the table along with their filters; a rule whose removal timed out stays,
\* at a priority that is suspect from now on.
LEMMA RuleRemovalKernel ==
    ASSUME KernelInv, DbInv', NEW ids \in SUBSET DOMAIN rules_db, filters' \subseteq filters,
           \A f \in filters \ filters' : \E j \in DOMAIN rules_db :
               Named(f, rules_db[j]) /\ (j \in ids \/ rules_db[j].spec.priority \in suspect'),
           rules_db' = rules_db \/ rules_db' = Drop(rules_db, ids),
           rules_db' = rules_db => ids = {},
           suspect \subseteq suspect', SuspectTyped'
    PROVE  KernelInv'
  <1>1. KernelOK(filters')
    BY KernelShrinks DEF KernelInv
  <1>2. /\ DOMAIN rules_db' \subseteq DOMAIN rules_db \ ids
        /\ \A i \in DOMAIN rules_db' : rules_db'[i] = rules_db[i]
    BY DEF Drop
  <1>3. RuleRecords'
    BY <1>2 DEF KernelInv, RuleRecords, FirewallRule
  <1>4. PICK D, E, F, G, X, Y :
            /\ D = rules_db /\ E = rules_db' /\ F = filters /\ G = filters'
            /\ X = Doubtful /\ Y = Doubtful'
    OBVIOUS
  <1>5. X \subseteq Y /\ suspect' \subseteq Y
    BY <1>4 DEF Doubtful
  <1>6. /\ KernelOK(F) /\ RulesOn(F, D, X) /\ G \in SUBSET F
        /\ DOMAIN E \subseteq DOMAIN D \ ids /\ \A i \in DOMAIN E : E[i] = D[i]
    BY <1>2, <1>4 DEF KernelInv
  <1>7. \A f \in F \ G : \E j \in DOMAIN D :
            Named(f, D[j]) /\ (j \in ids \/ D[j].spec.priority \in Y)
    BY <1>4, <1>5
  <1>8. RulesOn(G, E, Y)
    BY <1>5, <1>6, <1>7, LossKeepsRules
  <1>9. RulesOn(filters, rules_db, Doubtful)'
    BY <1>4, <1>8 DEF RulesOn, Sure, Backed, BackedAt, Implements, TcAction
  <1> QED
    BY <1>1, <1>3, <1>9 DEF KernelInv

\* The filters that the removal of rule i took away, whether it ended or timed out.
LEMMA OneRemoval ==
    ASSUME NEW F, NEW r, NEW G \in Removed(F, r) \cup RemovalTimeouts(F, r)
    PROVE  G \subseteq F /\ \A f \in F \ G : Named(f, r)
  <1>1. PICK o \in RemoveBoth(F, r) : G = o.filters
    BY DEF Removed, RemovalTimeouts
  <1> QED
    BY <1>1, RemoveBothEffect

\* The rules stay, and filters change in the NAT band only.
LEMMA BandKernel ==
    ASSUME KernelInv, DbInv', rules_db' = rules_db, suspect' = suspect, KernelOK(filters'),
           \A f \in filters \ filters' : f.prio = NAT_PRIORITY
    PROVE  KernelInv'
  <1>1. RuleRecords' /\ SuspectTyped'
    BY DEF KernelInv, RuleRecords, FirewallRule, SuspectTyped
  <1>2. PICK D, F, G, X : /\ D = rules_db /\ F = filters /\ G = filters'
                          /\ X = suspect \cup {NAT_PRIORITY}
    OBVIOUS
  <1>3. RulesOn(F, D, X) /\ NAT_PRIORITY \in X /\ \A f \in F \ G : f.prio = NAT_PRIORITY
    BY <1>2 DEF KernelInv, Doubtful
  <1>4. RulesOn(G, D, X)
    BY <1>3, BandKeepsRules
  <1>5. RulesOn(filters, rules_db, Doubtful)'
    BY <1>2, <1>4 DEF RulesOn, Sure, Backed, BackedAt, Implements, TcAction, Doubtful
  <1> QED
    BY <1>1, <1>5 DEF KernelInv

\* A tenant's rules and entries are among the ids.
LEMMA TenantIds ==
    ASSUME DbTypeOK, NEW t
    PROVE  /\ RulesOf(t) \in SUBSET Ids /\ RulesOf(t) \in SUBSET DOMAIN rules_db
           /\ NatOf(t) \in SUBSET Ids
  BY QuotaAssumption DEF DbTypeOK, RulesTyped, NatTyped, RulesOf, NatOf, Ids

\* delete_tenant: the rule loop, then the NAT loop on what it left.
LEMMA DeleteTenantKernel ==
    ASSUME KernelInv, DbInv', NEW t \in Tenants, delete_tenant(t)
    PROVE  KernelInv'
  <1>1. PICK F \in RemovedAll(RulesOf(t)) : filters' \in NatRemovedAll(F, NatOf(t))
    BY DEF delete_tenant
  <1>2. rules_db' = Drop(rules_db, RulesOf(t)) /\ suspect' = suspect
    BY DEF delete_tenant, Forget
  <1>3. /\ DbTypeOK /\ RulesOf(t) \in SUBSET Ids /\ RulesOf(t) \in SUBSET DOMAIN rules_db
        /\ NatOf(t) \in SUBSET Ids
    BY TenantIds DEF KernelInv, DbInv
  <1>4. RemovalGood(filters, F, RulesOf(t), MaxCreated)
    BY <1>1, <1>3, RemovalEffect
  <1>5. F \subseteq filters
    BY <1>4 DEF RemovalGood
  <1>6. KernelOK(F)
    BY <1>5, KernelShrinks DEF KernelInv
  <1>7. NatGood(F, filters', NatOf(t), MaxCreated)
    BY <1>1, <1>3, <1>6, NatRemovalEffect
  <1>8. /\ KernelOK(filters')
        /\ \A f \in F \ filters' : f.prio = NAT_PRIORITY
    BY <1>7 DEF NatGood
  <1>9. /\ DOMAIN rules_db' \subseteq DOMAIN rules_db \ RulesOf(t)
        /\ \A i \in DOMAIN rules_db' : rules_db'[i] = rules_db[i]
    BY <1>2 DEF Drop
  <1>10. RuleRecords' /\ SuspectTyped'
    BY <1>2, <1>9 DEF KernelInv, RuleRecords, FirewallRule, SuspectTyped
  <1>11. PICK D, E, G, X, ids : /\ D = rules_db /\ E = rules_db' /\ G = filters'
                                /\ X = suspect \cup {NAT_PRIORITY} /\ ids = RulesOf(t)
    OBVIOUS
  <1>12. /\ KernelOK(filters) /\ RulesOn(filters, D, X) /\ F \in SUBSET filters
         /\ DOMAIN E \subseteq DOMAIN D \ ids /\ \A i \in DOMAIN E : E[i] = D[i]
         /\ NAT_PRIORITY \in X /\ X \subseteq X
    BY <1>5, <1>9, <1>11 DEF KernelInv, Doubtful
  <1>13. \A f \in filters \ F : \E j \in DOMAIN D :
             Named(f, D[j]) /\ (j \in ids \/ D[j].spec.priority \in X)
    BY <1>3, <1>4, <1>11 DEF RemovalGood
  <1>14. RulesOn(F, E, X)
    BY <1>12, <1>13, LossKeepsRules
  <1>15. RulesOn(G, E, X)
    BY <1>8, <1>11, <1>12, <1>14, BandKeepsRules
  <1>16. RulesOn(filters, rules_db, Doubtful)'
    BY <1>2, <1>11, <1>15 DEF RulesOn, Sure, Backed, BackedAt, Implements, TcAction, Doubtful
  <1> QED
    BY <1>8, <1>10, <1>16 DEF KernelInv

\* A new rule brings its own two filters, whose handles it stores.
LEMMA AddRuleKernel ==
    ASSUME KernelInv, DbInv', NEW t \in Tenants, NEW q \in RuleSpecs, NEW k,
           AddRuleStored(t, q, k)
    PROVE  KernelInv'
  <1> DEFINE id == created + 1
  <1>1. PICK a \in AddedFilters(q) :
            /\ a.o.status = "ok" /\ filters' = a.o.filters
            /\ suspect' = suspect \cup OutOfTurn(filters, a.o.filters)
            /\ \E hw \in check_in_hw(a.o.filters, INTERNET_PORT, q.priority) :
                  rules_db' = Put(rules_db, id,
                      [tenant |-> t, spec |-> q, fwd |-> a.fwd, rev |-> a.rev, in_hw |-> hw])
    BY DEF AddRuleStored
  <1>2. TcAction(q) \in {"redirect", "drop"}
        /\ a \in AddBoth(filters, q.priority, q.match, TcAction(q))
    BY SpecAssumption DEF AddedFilters, add_allow_rule, add_deny_rule, TcAction
  <1>3. KernelOK(filters)
    BY DEF KernelInv
  <1>4. PICK G : G = filters'
    OBVIOUS
  <1>5. AddedBoth(filters, q.priority, q.match, TcAction(q), a) /\ a.o.filters = G
    BY <1>1, <1>2, <1>3, <1>4, AddBothEffect
  <1>6. /\ KernelOK(G) /\ filters \subseteq G
        /\ \A f \in G \ filters : f.prio = q.priority
        /\ a.fwd \in Nat /\ a.rev \in Nat
        /\ ~Refuses(filters, INTERNET_PORT, q.priority, q.match)
        /\ \E f \in G : /\ IsFilter(f, INTERNET_PORT, q.priority, q.match, TcAction(q))
                        /\ Remembered(filters, G, f, a.fwd)
        /\ \E f \in G : /\ IsFilter(f, CLIENT_PORT, q.priority, q.match, TcAction(q))
                        /\ Remembered(filters, G, f, a.rev)
    BY <1>1, <1>5 DEF AddedBoth
  <1>7. PICK hw \in BOOLEAN :
            rules_db' = Put(rules_db, id,
                [tenant |-> t, spec |-> q, fwd |-> a.fwd, rev |-> a.rev, in_hw |-> hw])
    <2>1. check_in_hw(a.o.filters, INTERNET_PORT, q.priority) \subseteq BOOLEAN
      BY DEF check_in_hw
    <2> QED
      BY <1>1, <2>1
  <1> DEFINE r == [tenant |-> t, spec |-> q, fwd |-> a.fwd, rev |-> a.rev, in_hw |-> hw]
  <1>8. /\ r \in FirewallRule /\ r.spec = q /\ r.fwd = a.fwd /\ r.rev = a.rev
    BY <1>6 DEF FirewallRule
  <1>9. rules_db' = Put(rules_db, id, r)
    BY <1>7
  <1> HIDE DEF r
  <1>10. id \notin DOMAIN rules_db
    BY DEF KernelInv, DbInv, DbTypeOK, RulesTyped
  <1>11. /\ DOMAIN rules_db' = DOMAIN rules_db \cup {id} /\ rules_db'[id] = r
         /\ \A i \in DOMAIN rules_db : rules_db'[i] = rules_db[i]
    BY <1>9, <1>10 DEF Put
  <1> HIDE DEF id
  <1>12. RuleRecords'
    BY <1>8, <1>11 DEF KernelInv, RuleRecords, FirewallRule
  <1>13. SuspectTyped'
    <2>1. OutOfTurn(filters, G) \subseteq {q.priority}
      BY <1>6 DEF OutOfTurn
    <2>2. suspect' = suspect \cup OutOfTurn(filters, G)
      BY <1>1, <1>5
    <2> QED
      BY <2>1, <2>2 DEF KernelInv, SuspectTyped
  <1>14. PICK D, E, X, Y : /\ D = rules_db /\ E = rules_db' /\ X = suspect \cup {NAT_PRIORITY}
                           /\ Y = suspect' \cup {NAT_PRIORITY}
    OBVIOUS
  <1>15. /\ X \subseteq Y /\ OutOfTurn(filters, G) \subseteq Y /\ RulesOn(filters, D, X)
    BY <1>1, <1>5, <1>14 DEF KernelInv, Doubtful
  <1>16. ASSUME NEW i \in Sure(E, Y), i # id
         PROVE  /\ i \in Sure(D, X) /\ E[i] = D[i] /\ Backed(G, E[i])
                /\ ~(E[i].spec.priority = q.priority /\ E[i].spec.match = q.match)
    <2>1. i \in Sure(D, X) /\ E[i] = D[i]
      BY <1>11, <1>14, <1>15, <1>16 DEF Sure
    <2>2. Backed(filters, D[i])
      BY <1>15, <2>1 DEF RulesOn
    <2>3. Backed(G, D[i])
      BY <1>6, <2>2 DEF Backed, BackedAt
    <2> QED
      BY <1>6, <2>1, <2>2, <2>3 DEF Backed, BackedAt, Implements, Refuses, At
  <1>17. E[id] = r
    BY <1>11, <1>14
  <1>18. q.priority \notin Y => Backed(G, r)
    BY <1>6, <1>8, <1>15 DEF Backed, BackedAt, Implements, IsFilter, Remembered
  <1>19. \A i \in Sure(E, Y) : Backed(G, E[i])
    BY <1>8, <1>16, <1>17, <1>18 DEF Sure
  <1>20. \A i, j \in Sure(E, Y) :
             E[i].spec.priority = E[j].spec.priority /\ E[i].spec.match = E[j].spec.match => i = j
    BY <1>8, <1>15, <1>16, <1>17 DEF RulesOn
  <1>21. RulesOn(filters, rules_db, Doubtful)'
    BY <1>4, <1>14, <1>19, <1>20
       DEF RulesOn, Sure, Backed, BackedAt, Implements, TcAction, Doubtful
  <1> QED
    BY <1>4, <1>6, <1>12, <1>13, <1>21 DEF KernelInv

\* A failed request leaves at most filters that no rule owns.
LEMMA AddRuleFailedKernel ==
    ASSUME KernelInv, DbInv', NEW t \in Tenants, NEW q \in RuleSpecs, NEW k,
           AddRuleFailed(t, q, k)
    PROVE  KernelInv'
  <1>1. PICK a \in AddedFilters(q) : filters' = a.o.filters
    BY DEF AddRuleFailed
  <1>2. TcAction(q) \in {"redirect", "drop"}
        /\ a \in AddBoth(filters, q.priority, q.match, TcAction(q))
    BY SpecAssumption DEF AddedFilters, add_allow_rule, add_deny_rule, TcAction
  <1>3. KernelOK(filters') /\ filters \subseteq filters'
    BY <1>1, <1>2, AddBothEffect DEF KernelInv, AddedBoth
  <1>4. UNCHANGED <<rules_db, suspect>>
    BY DEF AddRuleFailed, rule_vars
  <1> QED
    BY <1>3, <1>4, BandKernel

\* The three NAT requests: a filter that is added goes into the band.
LEMMA AddNatKernel ==
    ASSUME KernelInv, DbInv', NEW t \in Tenants, NEW s \in NATSpecs, AddNat(t, s, NatPort(s))
    PROVE  KernelInv'
  <1>1. KernelOK(filters)
    BY DEF KernelInv
  <1>2. UNCHANGED <<rules_db, suspect>>
    BY DEF AddNat, AddNatExisting, AddNatStored, AddNatFailed, rule_vars
  <1>3. CASE filters' = filters
    BY <1>1, <1>2, <1>3, BandKernel
  <1>4. ASSUME NEW o \in filter_add(filters, NatPort(s), NAT_PRIORITY, s.match, "pedit"),
               filters' = o.filters
        PROVE  KernelInv'
    <2>1. NatPort(s) \in Ports
      BY DEF NatPort, Ports
    <2>2. CASE /\ ~Refuses(filters, NatPort(s), NAT_PRIORITY, s.match)
               /\ o.filters \in Inserted(filters, NatPort(s), NAT_PRIORITY, s.match, "pedit")
      <3>1. KernelOK(o.filters) /\ filters \subseteq o.filters
        BY <1>1, <2>1, <2>2, KernelGrows
      <3> QED
        BY <1>2, <1>4, <3>1, BandKernel
    <2> QED
      BY <1>3, <1>4, <2>2, AddOutcomes
  <1> QED
    BY <1>3, <1>4 DEF AddNat, AddNatExisting, AddNatStored, AddNatFailed

\* A step that leaves filters and rules alone.
LEMMA SameKernel ==
    ASSUME KernelInv, DbInv', UNCHANGED <<rules_db, filters, suspect>>
    PROVE  KernelInv'
  BY BandKernel DEF KernelInv

\* After a restart there are no rules to be in force.
LEMMA RestartKernel ==
    ASSUME KernelInv, DbInv', Restart
    PROVE  KernelInv'
  <1>1. rules_db' = <<>> /\ filters' = filters /\ suspect' = {}
    BY DEF Restart
  <1>2. RuleRecords' /\ SuspectTyped' /\ RulesOn(filters, rules_db, Doubtful)'
    BY <1>1 DEF RuleRecords, SuspectTyped, RulesOn, Sure
  <1> QED
    BY <1>1, <1>2 DEF KernelInv

\* At the start there are neither filters nor rules.
LEMMA InitKernel == Init => KernelInv
  <1> SUFFICES ASSUME Init PROVE KernelInv
    OBVIOUS
  <1>1. rules_db = <<>> /\ filters = {} /\ suspect = {}
    BY DEF Init
  <1>2. KernelOK(filters)
    BY <1>1 DEF KernelOK, NoneTwice
  <1>3. RuleRecords /\ SuspectTyped /\ RulesOn(filters, rules_db, Doubtful)
    BY <1>1 DEF RuleRecords, SuspectTyped, RulesOn, Sure
  <1> QED
    BY <1>1, <1>2, <1>3, InitDbInv DEF KernelInv

\* Every request, and a restart, preserves the invariant.
LEMMA NextKernel == KernelInv /\ [Next]_vars => KernelInv'
  <1> SUFFICES ASSUME KernelInv, [Next]_vars PROVE KernelInv'
    OBVIOUS
  <1>0. DbInv' /\ DbInv /\ DbTypeOK /\ KernelOK(filters) /\ SuspectTyped
    BY NextDbInv DEF KernelInv, DbInv
  <1>1. ASSUME NEW t \in Tenants, register_tenant(t) PROVE KernelInv'
    BY <1>0, <1>1, SameKernel DEF register_tenant, rule_vars
  <1>2. ASSUME NEW t \in Tenants, delete_tenant(t) PROVE KernelInv'
    BY <1>0, <1>2, DeleteTenantKernel
  <1>3. ASSUME NEW t \in Tenants, flush_rules(t) PROVE KernelInv'
    <2>1. /\ filters' \in RemovedAll(RulesOf(t)) /\ rules_db' = Drop(rules_db, RulesOf(t))
          /\ suspect' = suspect
      BY <1>3 DEF flush_rules, Forget
    <2>2. RulesOf(t) \in SUBSET Ids /\ RulesOf(t) \in SUBSET DOMAIN rules_db
      BY <1>0, TenantIds
    <2>3. RemovalGood(filters, filters', RulesOf(t), MaxCreated)
      BY <2>1, <2>2, RemovalEffect
    <2>4. /\ filters' \subseteq filters
          /\ \A f \in filters \ filters' : \E j \in DOMAIN rules_db :
                Named(f, rules_db[j]) /\ j \in RulesOf(t)
      BY <2>2, <2>3 DEF RemovalGood
    <2>5. SuspectTyped' /\ (rules_db' = rules_db => RulesOf(t) = {})
      BY <1>0, <2>1, <2>2 DEF SuspectTyped, Drop
    <2> QED
      BY <1>0, <2>1, <2>2, <2>4, <2>5, RuleRemovalKernel
  <1>4. ASSUME NEW t \in Tenants, flush_nat_rules(t) PROVE KernelInv'
    <2>1. filters' \in NatRemovedAll(filters, NatOf(t)) /\ UNCHANGED <<rules_db, suspect>>
      BY <1>4 DEF flush_nat_rules, rule_vars
    <2>2. NatGood(filters, filters', NatOf(t), MaxCreated)
      BY <1>0, <2>1, TenantIds, NatRemovalEffect
    <2> QED
      BY <1>0, <2>1, <2>2, BandKernel DEF NatGood
  <1>5. ASSUME NEW t \in Tenants, NEW q \in RuleSpecs, NEW k \in Keys \cup {NoKey},
               add_rule(t, q, k)
        PROVE  KernelInv'
    <2>1. CASE AddRuleExisting(t, q, k)
      BY <1>0, <2>1, SameKernel DEF AddRuleExisting, vars, rule_vars
    <2>2. CASE AddRuleStored(t, q, k)
      BY <1>0, <2>2, AddRuleKernel
    <2>3. CASE AddRuleFailed(t, q, k)
      BY <1>0, <2>3, AddRuleFailedKernel
    <2> QED
      BY <1>5, <2>1, <2>2, <2>3 DEF add_rule
  <1>6. ASSUME NEW t \in Tenants, NEW i \in Ids, delete_rule(t, i) PROVE KernelInv'
    <2>1. /\ filters' \in Removed(filters, rules_db[i]) /\ rules_db' = Drop(rules_db, {i})
          /\ suspect' = suspect /\ i \in DOMAIN rules_db
      BY <1>6 DEF delete_rule, Forget, RulesOf
    <2>2. filters' \subseteq filters /\ \A f \in filters \ filters' : Named(f, rules_db[i])
      BY <2>1, OneRemoval
    <2>3. SuspectTyped' /\ {i} \in SUBSET DOMAIN rules_db /\ rules_db' # rules_db
      BY <1>0, <2>1 DEF SuspectTyped, Drop
    <2> QED
      BY <1>0, <2>1, <2>2, <2>3, RuleRemovalKernel
  <1>7. ASSUME NEW t \in Tenants, NEW i \in Ids, DeleteRuleTimeout(t, i) PROVE KernelInv'
    <2>1. /\ filters' \in RemovalTimeouts(filters, rules_db[i]) /\ rules_db' = rules_db
          /\ suspect' = suspect \cup {rules_db[i].spec.priority} /\ i \in DOMAIN rules_db
      BY <1>7 DEF DeleteRuleTimeout, RulesOf, rule_vars
    <2>2. filters' \subseteq filters /\ \A f \in filters \ filters' : Named(f, rules_db[i])
      BY <2>1, OneRemoval
    <2>3. SuspectTyped'
      BY <1>0, <2>1 DEF SuspectTyped, DbTypeOK, RulesTyped
    <2>4. PICK none : none = {}
      OBVIOUS
    <2>5. \A f \in filters \ filters' : \E j \in DOMAIN rules_db :
              Named(f, rules_db[j]) /\ (j \in none \/ rules_db[j].spec.priority \in suspect')
      BY <2>1, <2>2
    <2>6. none \in SUBSET DOMAIN rules_db /\ suspect \subseteq suspect'
      BY <2>1, <2>4
    <2> QED
      BY <1>0, <2>1, <2>2, <2>3, <2>4, <2>5, <2>6, RuleRemovalKernel
  <1>8. ASSUME NEW t \in Tenants, NEW i \in Ids, RuleLoopTimeout(t, i) PROVE KernelInv'
    <2>1. PICK before : before = {j \in RulesOf(t) : j < i}
      OBVIOUS
    <2>2. /\ rules_db' = Drop(rules_db, before) /\ i \in DOMAIN rules_db
          /\ suspect' = suspect \cup {rules_db[i].spec.priority}
      BY <1>8, <2>1 DEF RuleLoopTimeout, RulesOf
    <2>3. PICK F \in RemovedAll(before) : filters' \in RemovalTimeouts(F, rules_db[i])
      BY <1>8, <2>1 DEF RuleLoopTimeout
    <2>4. before \in SUBSET Ids /\ before \in SUBSET DOMAIN rules_db
      BY <1>0, <2>1, TenantIds
    <2>5. RemovalGood(filters, F, before, MaxCreated)
      BY <2>3, <2>4, RemovalEffect
    <2>6. filters' \subseteq F /\ \A f \in F \ filters' : Named(f, rules_db[i])
      BY <2>3, OneRemoval
    <2>7. /\ filters' \subseteq filters
          /\ \A f \in filters \ filters' : \E j \in DOMAIN rules_db :
                Named(f, rules_db[j]) /\ (j \in before \/ rules_db[j].spec.priority \in suspect')
      <3>1. ASSUME NEW f \in filters \ filters'
            PROVE  \E j \in DOMAIN rules_db :
                Named(f, rules_db[j]) /\ (j \in before \/ rules_db[j].spec.priority \in suspect')
        <4>1. CASE f \in F
          BY <2>2, <2>6, <4>1
        <4>2. CASE f \notin F
          BY <2>4, <2>5, <4>2 DEF RemovalGood
        <4> QED
          BY <4>1, <4>2
      <3> QED
        BY <2>5, <2>6, <3>1 DEF RemovalGood
    <2>8. SuspectTyped' /\ (rules_db' = rules_db => before = {})
      BY <1>0, <2>2, <2>4 DEF SuspectTyped, DbTypeOK, RulesTyped, Drop
    <2> QED
      BY <1>0, <2>2, <2>4, <2>7, <2>8, RuleRemovalKernel
  <1>9. ASSUME NEW t \in Tenants, NEW i \in Ids, delete_nat_rule(t, i) \/ DeleteNatTimeout(t, i)
        PROVE  KernelInv'
    <2>1. /\ filters' \in RemovedNat(filters, nat_db, i) \cup RemoveNatTimeouts(filters, nat_db, i)
          /\ UNCHANGED <<rules_db, suspect>>
      BY <1>9 DEF delete_nat_rule, DeleteNatTimeout, rule_vars
    <2>2. nat_db \in SUBSET Ids
      BY <1>0, QuotaAssumption DEF DbTypeOK, NatTyped, Ids
    <2>3. KernelOK(filters') /\ \A f \in filters \ filters' : f.prio = NAT_PRIORITY
      BY <1>0, <2>1, <2>2, RemoveNatEffect
    <2> QED
      BY <1>0, <2>1, <2>3, BandKernel
  <1>10. ASSUME NEW t \in Tenants, NEW s \in NATSpecs,
                add_snat_rule(t, s) \/ add_dnat_rule(t, s) \/ add_port_forward_rule(t, s)
         PROVE  KernelInv'
    <2>1. AddNat(t, s, NatPort(s))
      BY <1>10 DEF add_snat_rule, add_dnat_rule, add_port_forward_rule,
                   add_snat, add_dnat, add_port_forward, NatPort
    <2> QED
      BY <1>0, <2>1, AddNatKernel
  <1>11. ASSUME Restart PROVE KernelInv'
    BY <1>0, <1>11, RestartKernel
  <1>12. CASE UNCHANGED vars
    BY <1>0, <1>12, SameKernel DEF vars, rule_vars
  <1> QED
    BY <1>1, <1>2, <1>3, <1>4, <1>5, <1>6, <1>7, <1>8, <1>9, <1>10, <1>11, <1>12
       DEF Next

\* The kernel's filters are well formed, and every rule at a priority that is not in
\* doubt has its own, in every reachable state.
THEOREM KernelCorrect == Spec => []KernelInv
  BY InitKernel, NextKernel, PTL DEF Spec

\* The tables, the rule records and the filters have their types, for every fault, every
\* numbering of filters and every restart.
THEOREM AlwaysTyped == Spec => []TypeOK
  <1>1. KernelInv => TypeOK
    BY DEF KernelInv, DbInv, TypeOK, RuleRecords, SuspectTyped, KernelOK, FilterOK
  <1> QED
    BY <1>1, KernelCorrect, PTL

\* Whatever requests of other tenants, failed and timed-out commands, flushes, rebuilds
\* of the NAT band and restarts do, and however the kernel numbers filters, a rule in
\* the database is in force in both directions, unless the kernel has filled a gap at
\* its priority, a removal at its priority has timed out, or it is in the NAT band.
THEOREM RulesAlwaysEnforced == Spec => []TrustedRulesEnforced
  <1>1. KernelInv => TrustedRulesEnforced
    BY DEF KernelInv, Doubtful, RulesOn, Sure, Backed, BackedAt, TrustedRulesEnforced,
           Trusted, InForce, Ports
  <1> QED
    BY <1>1, KernelCorrect, PTL

\* With the same three exceptions the handles stored with a rule are those of the
\* rule's own filters.
THEOREM HandlesAlwaysOwn == Spec => []HandlesAreOwn
  <1>1. ASSUME KernelInv PROVE HandlesAreOwn
    <2>1. /\ KernelOK(filters)
          /\ \A i \in DOMAIN rules_db : Trusted(i) => Backed(filters, rules_db[i])
      BY <1>1 DEF KernelInv, RulesOn, Sure, Doubtful, Trusted
    <2>2. \A i \in DOMAIN rules_db, f \in filters :
              Trusted(i) /\ Named(f, rules_db[i]) => Implements(f, rules_db[i].spec)
      BY <2>1, NamedIsOwn
    <2> QED
      BY <2>2 DEF HandlesAreOwn, Named
  <1> QED
    BY <1>1, KernelCorrect, PTL
=============================================================================
