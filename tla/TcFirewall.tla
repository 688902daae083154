------------------------------ MODULE TcFirewall ------------------------------
(***************************************************************************)
(* The rules, NAT and tenant API of tc-firewall: main.py with tenants.py,  *)
(* nat_manager.py and, through TcManager, tc_manager.py.                   *)
(*                                                                         *)
(* Every handler is an `async def` that awaits nothing, so a request is    *)
(* one action; what can interrupt it is a tc command that fails or times   *)
(* out.  Rule and NAT ids are numbers in order of creation, which is also  *)
(* the order in which the code iterates over its dictionaries; 0 stands    *)
(* for an absent dictionary entry.  Refused requests (400, 403, 404, 409,  *)
(* 429) change nothing and are not actions.                                *)
(***************************************************************************)
EXTENDS TcManager

CONSTANTS
    Tenants,        \* tenant ids
    RuleSpecs,      \* rule requests: [match, action, priority]
    Keys,           \* idempotency keys
    NATSpecs,       \* NAT requests: [type, match, to]
    RuleQuotas,     \* max_rules a tenant may be registered with
    NATQuotas,      \* max_nat_entries a tenant may be registered with
    NAT_PRIORITY,   \* 20 in the code
    Restarts,       \* may the daemon stop and come back?
    MaxCreated      \* bound on the rules and NAT entries ever created

ASSUME SpecAssumption ==
    /\ \A q \in RuleSpecs : q.action \in {"ALLOW", "DENY"} /\ q.priority \in Nat
    /\ \A s \in NATSpecs : s.type \in {"snat", "dnat", "forward"}

ASSUME QuotaAssumption ==
    /\ RuleQuotas \subseteq Nat
    /\ NATQuotas \subseteq Nat
    /\ NAT_PRIORITY \in Nat
    /\ MaxCreated \in Nat
    /\ Restarts \in BOOLEAN

Ids == 1..MaxCreated
Absent == 0
NoKey == "no idempotency_key"

VARIABLES
    registered,     \* _tenants: tenant -> its quotas
    rules_db,       \* id -> FirewallRule
    sig_index,      \* _rule_signature_index: (tenant, request) -> id
    key_index,      \* _idempotency_key_index: key -> id
    filters,        \* the kernel's filters on both ports (external)
    nat,            \* the NATEntry objects, shared by the two dictionaries below
    nat_db,         \* ids in nat_manager.nat_db
    nat_entries,    \* ids in main.nat_entries_db
    nat_sig,        \* _nat_signature_index: request -> id
    created,        \* how many ids have been given out
    suspect         \* history: priorities at which handles may be wrong, see below

rule_vars == <<rules_db, sig_index, key_index>>
nat_vars == <<nat, nat_db, nat_entries, nat_sig>>
vars == <<registered, rule_vars, filters, nat_vars, created, suspect>>

Init ==
    /\ registered = <<>>
    /\ rules_db = <<>>
    /\ sig_index = [x \in Tenants \X RuleSpecs |-> Absent]
    /\ key_index = [k \in Keys |-> Absent]
    /\ filters = {}
    /\ nat = <<>>
    /\ nat_db = {}
    /\ nat_entries = {}
    /\ nat_sig = [s \in NATSpecs |-> Absent]
    /\ created = 0
    /\ suspect = {}

\* A dictionary with k set to v, without the keys S; an index without the ids S.
Put(f, k, v) == [x \in DOMAIN f \cup {k} |-> IF x = k THEN v ELSE f[x]]
Drop(f, S) == [x \in DOMAIN f \ S |-> f[x]]
Unindexed(index, S) == [x \in DOMAIN index |-> IF index[x] \in S THEN Absent ELSE index[x]]

RulesOf(t) == {i \in DOMAIN rules_db : rules_db[i].tenant = t}
NatOf(t) == {i \in nat_entries : nat[i].tenant = t}

count_tenant_rules(t) == Cardinality(RulesOf(t))
count_tenant_nat_entries(t) == Cardinality(NatOf(t))

-----------------------------------------------------------------------------
(* Tenants *)

register_tenant(t) ==
    /\ t \notin DOMAIN registered
    /\ \E m \in RuleQuotas, n \in NATQuotas :
          registered' = Put(registered, t, [max_rules |-> m, max_nat_entries |-> n])
    /\ UNCHANGED <<rule_vars, filters, nat_vars, created, suspect>>

-----------------------------------------------------------------------------
(* Firewall rules *)

\* Broken variant: only the key is looked up.
find_existing_rule_KeyOnly(t, q, k) ==
    {i \in DOMAIN rules_db : k # NoKey /\ key_index[k] = i}

\* The rule found, as a set of at most one id: by key first, then by signature.
\* Either index may name a rule that is gone.
_find_existing_rule(t, q, k) ==
    LET byKey == {i \in DOMAIN rules_db : k # NoKey /\ key_index[k] = i}
        bySignature == {i \in DOMAIN rules_db : sig_index[<<t, q>>] = i}
    IN  IF byKey # {} THEN byKey ELSE bySignature

AddRuleExisting(t, q, k) ==
    /\ t \in DOMAIN registered
    /\ _find_existing_rule(t, q, k) # {}
    /\ UNCHANGED vars

\* The guards up to the tc commands.
MayAddRule(t, q, k) ==
    /\ t \in DOMAIN registered
    /\ _find_existing_rule(t, q, k) = {}
    /\ count_tenant_rules(t) < registered[t].max_rules
    /\ created < MaxCreated

AddedFilters(q) ==
    IF q.action = "ALLOW" THEN add_allow_rule(filters, q.priority, q.match)
                          ELSE add_deny_rule(filters, q.priority, q.match)

\* History: the priorities at which a filter of G that is not in F was given a
\* number below one in use.  _get_last_handle takes the highest for the newest.
OutOfTurn(F, G) ==
    {f.prio : f \in {x \in G \ F : \E g \in At(F, x.port, x.prio) : g.handle > x.handle}}

AddRuleStored(t, q, k) ==
    LET id == created + 1
    IN  /\ MayAddRule(t, q, k)
        /\ \E a \in AddedFilters(q) :
              /\ a.o.status = "ok"
              /\ filters' = a.o.filters
              /\ suspect' = suspect \cup OutOfTurn(filters, a.o.filters)
              /\ \E hw \in check_in_hw(a.o.filters, INTERNET_PORT, q.priority) :
                    rules_db' = Put(rules_db, id,
                        [tenant |-> t, spec |-> q, fwd |-> a.fwd, rev |-> a.rev,
                         in_hw |-> hw])
        /\ sig_index' = [sig_index EXCEPT ![<<t, q>>] = id]
        /\ key_index' = IF k = NoKey THEN key_index ELSE [key_index EXCEPT ![k] = id]
        /\ created' = id
        /\ UNCHANGED <<registered, nat_vars>>

\* A tc command failed or timed out: what it had installed so far stays.
AddRuleFailed(t, q, k) ==
    /\ MayAddRule(t, q, k)
    /\ \E a \in AddedFilters(q) :
          /\ \/ a.o.status # "ok"
             \/ TimedOut({a.o.filters}) # {}       \* in check_in_hw
          /\ filters' = a.o.filters
    /\ UNCHANGED <<registered, rule_vars, nat_vars, created, suspect>>

add_rule(t, q, k) ==
    AddRuleExisting(t, q, k) \/ AddRuleStored(t, q, k) \/ AddRuleFailed(t, q, k)

\* The tc commands that remove rule r: an error in the first skips the second.
RemoveBoth(F, r) ==
    LET first == IF r.fwd = NoHandle THEN {Outcome(F, "ok")}
                 ELSE remove_rule(F, INTERNET_PORT, r.fwd, r.spec.priority)
    IN  UNION {IF o.status # "ok" \/ r.rev = NoHandle THEN {o}
               ELSE remove_rule(o.filters, CLIENT_PORT, r.rev, r.spec.priority)
               : o \in first}

\* A TcError is logged and the handler goes on; a timeout ends it.
Removed(F, r) == {o.filters : o \in {x \in RemoveBoth(F, r) : x.status # "timeout"}}
RemovalTimeouts(F, r) == {o.filters : o \in {x \in RemoveBoth(F, r) : x.status = "timeout"}}

\* The rules `ids` removed in order, no command timing out.
RemoveRound(F, ids, i) == Removed(F, rules_db[i])
Removal == INSTANCE Loop WITH N <- MaxCreated, Step <- RemoveRound
RemovedAll(ids) == Removal!After(filters, ids)[MaxCreated]

Forget(ids) ==
    /\ rules_db' = Drop(rules_db, ids)
    /\ sig_index' = Unindexed(sig_index, ids)
    /\ key_index' = Unindexed(key_index, ids)

delete_rule(t, i) ==
    /\ t \in DOMAIN registered /\ i \in RulesOf(t)
    /\ filters' \in Removed(filters, rules_db[i])
    /\ Forget({i})
    /\ UNCHANGED <<registered, nat_vars, created, suspect>>

\* A timeout leaves the rule in the database, whatever happened to its filters.
DeleteRuleTimeout(t, i) ==
    /\ t \in DOMAIN registered /\ i \in RulesOf(t)
    /\ filters' \in RemovalTimeouts(filters, rules_db[i])
    /\ suspect' = suspect \cup {rules_db[i].spec.priority}
    /\ UNCHANGED <<registered, rule_vars, nat_vars, created>>

flush_rules(t) ==
    /\ t \in DOMAIN registered
    /\ filters' \in RemovedAll(RulesOf(t))
    /\ Forget(RulesOf(t))
    /\ UNCHANGED <<registered, nat_vars, created, suspect>>

\* flush_rules and delete_tenant, when the removal of rule i times out: the rules
\* before it are gone, but the indexes still name them and nothing is logged.
RuleLoopTimeout(t, i) ==
    LET before == {j \in RulesOf(t) : j < i}
    IN  /\ t \in DOMAIN registered /\ i \in RulesOf(t)
        /\ \E F \in RemovedAll(before) : filters' \in RemovalTimeouts(F, rules_db[i])
        /\ rules_db' = Drop(rules_db, before)
        /\ suspect' = suspect \cup {rules_db[i].spec.priority}
        /\ UNCHANGED <<registered, sig_index, key_index, nat_vars, created>>

-----------------------------------------------------------------------------
(* NAT *)

NatPort(s) == IF s.type = "snat" THEN CLIENT_PORT ELSE INTERNET_PORT

_find_existing_nat(s) == {i \in nat_db : nat_sig[s] = i}

\* The handlers track the entry that nat_manager returns under the requesting
\* tenant, also when it is an entry that was there before.
AddNatExisting(t, s) ==
    /\ \E i \in _find_existing_nat(s) :
          /\ nat' = [nat EXCEPT ![i].tenant = t]
          /\ nat_entries' = nat_entries \cup {i}
    /\ UNCHANGED <<registered, rule_vars, filters, nat_db, nat_sig, created, suspect>>

AddNatStored(t, s, port) ==
    LET id == created + 1
    IN  /\ _find_existing_nat(s) = {}
        /\ created < MaxCreated
        /\ \E o \in filter_add(filters, port, NAT_PRIORITY, s.match, "pedit") :
              o.status = "ok" /\ filters' = o.filters
        /\ nat' = Put(nat, id, [tenant |-> t, spec |-> s])
        /\ nat_db' = nat_db \cup {id}
        /\ nat_entries' = nat_entries \cup {id}
        /\ nat_sig' = [nat_sig EXCEPT ![s] = id]
        /\ created' = id
        /\ UNCHANGED <<registered, rule_vars, suspect>>

AddNatFailed(t, s, port) ==
    /\ _find_existing_nat(s) = {}
    /\ \E o \in filter_add(filters, port, NAT_PRIORITY, s.match, "pedit") :
          /\ \/ o.status # "ok"
             \/ TimedOut({o.filters}) # {}         \* in _get_last_handle, check_in_hw
          /\ filters' = o.filters
    /\ UNCHANGED <<registered, rule_vars, nat_vars, created, suspect>>

AddNat(t, s, port) ==
    AddNatExisting(t, s) \/ AddNatStored(t, s, port) \/ AddNatFailed(t, s, port)

\* nat_manager: which port each kind of rule is installed on.
add_snat(t, s) == s.type = "snat" /\ AddNat(t, s, CLIENT_PORT)
add_dnat(t, s) == s.type = "dnat" /\ AddNat(t, s, INTERNET_PORT)
add_port_forward(t, s) == s.type = "forward" /\ AddNat(t, s, INTERNET_PORT)

\* Broken variant: one entry too many.
MayAddNat_OffByOne(t) ==
    /\ t \in DOMAIN registered
    /\ count_tenant_nat_entries(t) <= registered[t].max_nat_entries

\* The quota, checked before it is known whether a new entry is needed.
MayAddNat(t) ==
    /\ t \in DOMAIN registered
    /\ count_tenant_nat_entries(t) < registered[t].max_nat_entries

add_snat_rule(t, s) == MayAddNat(t) /\ add_snat(t, s)
add_dnat_rule(t, s) == MayAddNat(t) /\ add_dnat(t, s)
add_port_forward_rule(t, s) == MayAddNat(t) /\ add_port_forward(t, s)

\* Filters after the re-application of entry i: check=False, so errors pass unseen.
ReapplyRound(F, survivors, i) ==
    LET s == nat[i].spec
    IN  {o.filters : o \in {x \in filter_add(F, NatPort(s), NAT_PRIORITY, s.match, "pedit") :
                               x.status # "timeout"}}

\* The survivors on the port, up to entry last, re-applied in order to F.
Reapplication == INSTANCE Loop WITH N <- MaxCreated, Step <- ReapplyRound
Reapplied(F, survivors, last) == Reapplication!After(F, survivors)[last]

Wiped(F, port) == _run_tc(F, {F \ At(F, port, NAT_PRIORITY)})

\* Broken variant: nothing is added again.
SurvivorsOf_None(live, i) == {}

SurvivorsOf(live, i) ==
    {j \in live \ {i} : NatPort(nat[j].spec) = NatPort(nat[i].spec)}

\* remove_nat of entry i, with `live` in nat_db: the whole priority band of the
\* port is deleted and the survivors are added again.
RemovedNat(F, live, i) ==
    UNION {IF o.status = "timeout" THEN {}
           ELSE Reapplied(o.filters, SurvivorsOf(live, i), MaxCreated)
           : o \in Wiped(F, NatPort(nat[i].spec))}

\* ... ended by a timeout of the deletion, or of the re-application of entry j.
RemoveNatTimeouts(F, live, i) ==
    IF "timeout" \notin Faults THEN {}
    ELSE UNION {IF o.status = "timeout" THEN {o.filters}
                ELSE UNION {Reapplied(o.filters, SurvivorsOf(live, i), j - 1)
                            \cup Reapplied(o.filters, SurvivorsOf(live, i), j)
                            : j \in SurvivorsOf(live, i)}
                : o \in Wiped(F, NatPort(nat[i].spec))}

\* Broken variant: nat_manager keeps what the handlers no longer track.
ForgetNat_KeepInManager(ids) ==
    /\ nat_entries' = nat_entries \ ids
    /\ UNCHANGED <<nat, nat_db, nat_sig>>

\* Broken variant: the handlers still track what nat_manager has deleted.
ForgetNat_KeepTracking(ids) ==
    /\ nat' = Drop(nat, ids)
    /\ nat_db' = nat_db \ ids
    /\ nat_sig' = Unindexed(nat_sig, ids)
    /\ UNCHANGED nat_entries

ForgetNat(ids) ==
    /\ nat' = Drop(nat, ids)
    /\ nat_db' = nat_db \ ids
    /\ nat_entries' = nat_entries \ ids
    /\ nat_sig' = Unindexed(nat_sig, ids)

delete_nat_rule(t, i) ==
    /\ t \in DOMAIN registered /\ i \in NatOf(t) \cap nat_db
    /\ filters' \in RemovedNat(filters, nat_db, i)
    /\ ForgetNat({i})
    /\ UNCHANGED <<registered, rule_vars, created, suspect>>

\* A timeout escapes with the entry gone from nat_db but not from nat_entries_db.
DeleteNatTimeout(t, i) ==
    /\ t \in DOMAIN registered /\ i \in NatOf(t) \cap nat_db
    /\ filters' \in RemoveNatTimeouts(filters, nat_db, i)
    /\ nat_db' = nat_db \ {i}
    /\ nat_sig' = Unindexed(nat_sig, {i})
    /\ UNCHANGED <<registered, rule_vars, nat, nat_entries, created, suspect>>

\* One round of the NAT loop of flush_nat_rules and delete_tenant: every exception is
\* caught, that of an entry nat_db no longer has included.
NatRound(F, ids, i) ==
    LET live == nat_db \ {j \in ids : j < i}
    IN  IF i \notin nat_db THEN {F}
        ELSE RemovedNat(F, live, i) \cup RemoveNatTimeouts(F, live, i)

NatRemoval == INSTANCE Loop WITH N <- MaxCreated, Step <- NatRound
NatRemovedAll(F, ids) == NatRemoval!After(F, ids)[MaxCreated]

flush_nat_rules(t) ==
    /\ t \in DOMAIN registered
    /\ filters' \in NatRemovedAll(filters, NatOf(t))
    /\ ForgetNat(NatOf(t))
    /\ UNCHANGED <<registered, rule_vars, created, suspect>>

-----------------------------------------------------------------------------
(* Tenant removal and restart *)

\* Nothing is written to the audit log.
delete_tenant(t) ==
    /\ t \in DOMAIN registered
    /\ \E F \in RemovedAll(RulesOf(t)) : filters' \in NatRemovedAll(F, NatOf(t))
    /\ Forget(RulesOf(t))
    /\ ForgetNat(NatOf(t))
    /\ registered' = Drop(registered, {t})
    /\ UNCHANGED <<created, suspect>>

\* lifespan of a new process: the dictionaries start empty, the audit log records
\* the start, and the kernel still has the filters.
Restart ==
    /\ Restarts
    /\ registered' = <<>>
    /\ rules_db' = <<>>
    /\ sig_index' = [x \in Tenants \X RuleSpecs |-> Absent]
    /\ key_index' = [k \in Keys |-> Absent]
    /\ nat' = <<>>
    /\ nat_db' = {}
    /\ nat_entries' = {}
    /\ nat_sig' = [s \in NATSpecs |-> Absent]
    /\ suspect' = {}
    /\ UNCHANGED <<filters, created>>

Next ==
    \/ \E t \in Tenants :
          register_tenant(t) \/ delete_tenant(t) \/ flush_rules(t) \/ flush_nat_rules(t)
    \/ \E t \in Tenants, q \in RuleSpecs, k \in Keys \cup {NoKey} : add_rule(t, q, k)
    \/ \E t \in Tenants, i \in Ids :
          \/ delete_rule(t, i) \/ DeleteRuleTimeout(t, i) \/ RuleLoopTimeout(t, i)
          \/ delete_nat_rule(t, i) \/ DeleteNatTimeout(t, i)
    \/ \E t \in Tenants, s \in NATSpecs :
          add_snat_rule(t, s) \/ add_dnat_rule(t, s) \/ add_port_forward_rule(t, s)
    \/ Restart

Spec == Init /\ [][Next]_vars
-----------------------------------------------------------------------------
(* Properties *)

FirewallRule ==
    [tenant : Tenants, spec : RuleSpecs, fwd : Nat, rev : Nat, in_hw : BOOLEAN]

TenantsTyped ==
    /\ DOMAIN registered \subseteq Tenants
    /\ \A t \in DOMAIN registered :
          registered[t] \in [max_rules : RuleQuotas, max_nat_entries : NATQuotas]

RulesTyped ==
    /\ DOMAIN rules_db \subseteq 1..created
    /\ \A i \in DOMAIN rules_db :
          rules_db[i].tenant \in Tenants /\ rules_db[i].spec \in RuleSpecs
    /\ sig_index \in [Tenants \X RuleSpecs -> 0..created]
    /\ key_index \in [Keys -> 0..created]

NatTyped ==
    /\ DOMAIN nat \subseteq 1..created
    /\ \A i \in DOMAIN nat : nat[i] \in [tenant : Tenants, spec : NATSpecs]
    /\ nat_db \subseteq DOMAIN nat
    /\ nat_entries \subseteq DOMAIN nat
    /\ nat_sig \in [NATSpecs -> 0..created]

\* The types of the daemon's own tables.
DbTypeOK == created \in 0..MaxCreated /\ TenantsTyped /\ RulesTyped /\ NatTyped

\* Type invariant of the whole module.
TypeOK ==
    /\ DbTypeOK
    /\ \A i \in DOMAIN rules_db : rules_db[i] \in FirewallRule
    /\ \A f \in filters :
          /\ f.port \in Ports /\ f.handle \in Nat \ {NoHandle}
          /\ f.in_hw \in Offload /\ f.action \in {"redirect", "drop", "pedit"}
    /\ suspect \subseteq {q.priority : q \in RuleSpecs}

\* add_rule's promise of idempotency: whatever requests failed or were cut short
\* before, the signature index leads from a live rule's request back to that rule,
\* so no tenant ever has two rules for one request.
SignatureIndexComplete ==
    \A i \in DOMAIN rules_db : sig_index[<<rules_db[i].tenant, rules_db[i].spec>>] = i

\* The same for NAT entries; and every entry nat_manager keeps installed is tracked
\* by the handlers, so that some tenant can list it and delete it.
NatTracked ==
    /\ nat_db \subseteq nat_entries
    /\ \A i \in nat_db : nat_sig[nat[i].spec] = i

QuotaOf(t, kind) == IF t \in DOMAIN registered THEN registered[t][kind] ELSE 0

\* No tenant has more rules or NAT entries than it was registered with, and one that
\* is not registered (any more) has none: requests that were cut short, and entries
\* that change hands, included.
QuotasKept ==
    \A t \in Tenants :
        /\ Cardinality(RulesOf(t)) <= QuotaOf(t, "max_rules")
        /\ Cardinality(NatOf(t)) <= QuotaOf(t, "max_nat_entries")

TcAction(q) == IF q.action = "ALLOW" THEN "redirect" ELSE "drop"

Implements(f, q) ==
    f.prio = q.priority /\ f.match = q.match /\ f.action = TcAction(q)

InForce(q) == \A port \in Ports : \E f \in filters : f.port = port /\ Implements(f, q)

\* A rule in the database is in force: the kernel has its filter in both
\* directions, whatever other requests of its own or another tenant did since.
LiveRulesEnforced == \A i \in DOMAIN rules_db : InForce(rules_db[i].spec)

\* What can go wrong with handles at a priority is one of three things: the kernel
\* gave a rule's filter a number below one in use, so that _get_last_handle read
\* another's; a timeout cut the removal of a rule short and left the rule in the
\* database (both recorded in `suspect`); or remove_nat wipes the priority.
Trusted(i) == rules_db[i].spec.priority \notin suspect \cup {NAT_PRIORITY}

\* Nothing else ever takes a live rule out of force: no failed, timed-out or repeated
\* request, no flush, no deletion of a tenant, no rebuild of the NAT band and nothing
\* that happened at another priority, however the kernel numbers filters.
TrustedRulesEnforced ==
    \A i \in DOMAIN rules_db : Trusted(i) => InForce(rules_db[i].spec)

\* The handle stored with such a rule is that of the rule's own filter, so deleting
\* the rule can delete nobody else's (_get_last_handle).
HandlesAreOwn ==
    \A i \in DOMAIN rules_db, f \in filters :
        /\ Trusted(i)
        /\ \/ /\ f.port = INTERNET_PORT /\ f.prio = rules_db[i].spec.priority
              /\ f.handle = rules_db[i].fwd
           \/ /\ f.port = CLIENT_PORT /\ f.prio = rules_db[i].spec.priority
              /\ f.handle = rules_db[i].rev
        => Implements(f, rules_db[i].spec)

\* Without tc failures the kernel has exactly the filters of the rules and of the NAT
\* entries in the database, suspect priorities aside: after remove_nat has wiped and
\* rebuilt a priority band, after a tenant is gone, and after requests that found an
\* equivalent rule.
KernelMatchesDb ==
    {<<f.port, f.prio, f.match, f.action>> : f \in {f \in filters : f.prio \notin suspect}}
    = {<<port, q.priority, q.match, TcAction(q)>> :
          port \in Ports,
          q \in {rules_db[i].spec : i \in {i \in DOMAIN rules_db :
                                              rules_db[i].spec.priority \notin suspect}}}
      \cup {<<NatPort(s), NAT_PRIORITY, s.match, "pedit">> :
              s \in {nat[i].spec : i \in nat_entries}}
=============================================================================
