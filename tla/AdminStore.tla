------------------------------ MODULE AdminStore ------------------------------
(***************************************************************************)
(* The desired-state store of the admin API: crates/prism-admin.           *)
(*                                                                         *)
(* Firewalls, policies and rules are three maps, each behind a lock of its *)
(* own, and generations come from one atomic counter.  Handlers run on     *)
(* several threads and hold one lock at a time; an action is one critical  *)
(* section.  A firewall is its generation, a policy its firewall, a rule   *)
(* its policy: nothing depends on the other fields.  Clients read a        *)
(* firewall and send its generation along with what they change.           *)
(***************************************************************************)
EXTENDS Integers, FiniteSets

CONSTANTS
    Clients,        \* the requests that can be under way at a time
    Desired,        \* DesiredStateRequest.policies: how many rules each policy has
    MaxGeneration,  \* bound on the counter
    MaxId           \* bound on the identifiers given out

ASSUME StoreAssumption ==
    /\ \A d \in Desired : DOMAIN d \subseteq Nat /\ d \in [DOMAIN d -> Nat]
    /\ MaxGeneration \in Nat /\ MaxId \in Nat

VARIABLES
    generation,     \* AppStore.generation
    firewalls,      \* id -> generation
    policies,       \* id -> firewall
    rules,          \* id -> policy
    next_id,        \* Uuid::new_v4: an identifier nobody has
    call,           \* the handler running for each client
    base,           \* the firewall and generation each client saw last
    made            \* history: the rules created and not deleted by a request

vars == <<generation, firewalls, policies, rules, next_id, call, base, made>>
store == <<generation, firewalls, policies, rules, next_id>>

Ids == 1..MaxId
Idle == [pc |-> "idle"]
Unseen == [firewall |-> 0, generation |-> 0]

Put(f, k, v) == [x \in DOMAIN f \cup {k} |-> IF x = k THEN v ELSE f[x]]
Drop(f, S) == [x \in DOMAIN f \ S |-> f[x]]

Init ==
    /\ generation = 1
    /\ firewalls = <<>> /\ policies = <<>> /\ rules = <<>>
    /\ next_id = 1
    /\ call = [c \in Clients |-> Idle]
    /\ base = [c \in Clients |-> Unseen]
    /\ made = <<>>

\* Broken variant: the counter is only read.
next_generation_Load ==
    /\ generation < MaxGeneration
    /\ UNCHANGED generation

\* fetch_add
next_generation ==
    /\ generation < MaxGeneration
    /\ generation' = generation + 1

\* Uuid::new_v4
NewId ==
    /\ next_id <= MaxId
    /\ next_id' = next_id + 1

Becomes(c, state) == call' = [call EXCEPT ![c] = state]

Sees(c, f, g) == base' = [base EXCEPT ![c] = [firewall |-> f, generation |-> g]]

-----------------------------------------------------------------------------
(* Firewalls *)

\* The generation is taken before the lock.
create_firewall(c) ==
    /\ call[c] = Idle
    /\ next_generation
    /\ Becomes(c, [pc |-> "insert_firewall", generation |-> generation])
    /\ UNCHANGED <<firewalls, policies, rules, next_id, base, made>>

InsertFirewall(c) ==
    /\ call[c].pc = "insert_firewall"
    /\ NewId
    /\ firewalls' = Put(firewalls, next_id, call[c].generation)
    /\ Sees(c, next_id, call[c].generation)
    /\ Becomes(c, Idle)
    /\ UNCHANGED <<generation, policies, rules, made>>

get_firewall(c, f) ==
    /\ call[c] = Idle /\ f \in DOMAIN firewalls
    /\ Sees(c, f, firewalls[f])
    /\ UNCHANGED <<call, made>> /\ UNCHANGED store

\* The firewall is as the client saw it.
Current(c) ==
    /\ base[c].firewall \in DOMAIN firewalls
    /\ firewalls[base[c].firewall] = base[c].generation

\* Broken variant: the firewall counts its own changes.
update_firewall_Own(c) ==
    /\ call[c] = Idle /\ Current(c)
    /\ next_generation
    /\ firewalls' = [firewalls EXCEPT ![base[c].firewall] = @ + 1]
    /\ Sees(c, base[c].firewall, firewalls[base[c].firewall] + 1)
    /\ UNCHANGED <<policies, rules, next_id, call, made>>

\* Checked and changed under one lock; otherwise a conflict is answered.
update_firewall(c) ==
    /\ call[c] = Idle /\ Current(c)
    /\ next_generation
    /\ firewalls' = [firewalls EXCEPT ![base[c].firewall] = generation]
    /\ Sees(c, base[c].firewall, generation)
    /\ UNCHANGED <<policies, rules, next_id, call, made>>

\* Policies and rules stay.
delete_firewall(c, f) ==
    /\ call[c] = Idle /\ f \in DOMAIN firewalls
    /\ firewalls' = Drop(firewalls, {f})
    /\ UNCHANGED <<generation, policies, rules, next_id, call, base, made>>

-----------------------------------------------------------------------------
(* Policies and rules: the parent is looked up under its lock, the child    *)
(* inserted later under another                                             *)

create_policy(c, f) ==
    /\ call[c] = Idle /\ f \in DOMAIN firewalls
    /\ next_generation
    /\ Becomes(c, [pc |-> "insert_policy", firewall |-> f])
    /\ UNCHANGED <<firewalls, policies, rules, next_id, base, made>>

InsertPolicy(c) ==
    /\ call[c].pc = "insert_policy"
    /\ NewId
    /\ policies' = Put(policies, next_id, call[c].firewall)
    /\ Becomes(c, Idle)
    /\ UNCHANGED <<generation, firewalls, rules, base, made>>

create_rule(c, p) ==
    /\ call[c] = Idle /\ p \in DOMAIN policies
    /\ Becomes(c, [pc |-> "insert_rule", policy |-> p])
    /\ UNCHANGED <<base, made>> /\ UNCHANGED store

InsertRule(c) ==
    /\ call[c].pc = "insert_rule"
    /\ NewId
    /\ rules' = Put(rules, next_id, call[c].policy)
    /\ made' = Put(made, next_id, call[c].policy)
    /\ Becomes(c, Idle)
    /\ UNCHANGED <<generation, firewalls, policies, base>>

delete_rule(c, r) ==
    /\ call[c] = Idle /\ r \in DOMAIN rules
    /\ rules' = Drop(rules, {r})
    /\ made' = Drop(made, {r})
    /\ UNCHANGED <<generation, firewalls, policies, next_id, call, base>>

-----------------------------------------------------------------------------
(* apply_desired_state: eight critical sections in a row *)

\* What a push under way knows: the policies it found and the ones it has to make.
Push(pc, f, ids, todo) == [pc |-> pc, firewall |-> f, ids |-> ids, todo |-> todo]

\* The generation is compared, and the lock released.
apply_desired_state(c, d) ==
    /\ call[c] = Idle /\ Current(c)
    /\ Becomes(c, Push("collect", base[c].firewall, {}, d))
    /\ UNCHANGED <<base, made>> /\ UNCHANGED store

PoliciesOf(f) == {p \in DOMAIN policies : policies[p] = f}

PushCollect(c) ==
    /\ call[c].pc = "collect"
    /\ Becomes(c, Push("drop_rules", call[c].firewall, PoliciesOf(call[c].firewall), call[c].todo))
    /\ UNCHANGED <<base, made>> /\ UNCHANGED store

\* Broken variant: the rules of every policy are dropped.
RulesOf_All(ids) == DOMAIN rules

RulesOf(ids) == {r \in DOMAIN rules : rules[r] \in ids}

PushDropRules(c) ==
    /\ call[c].pc = "drop_rules"
    /\ rules' = Drop(rules, RulesOf(call[c].ids))
    /\ Becomes(c, Push("drop_policies", call[c].firewall, call[c].ids, call[c].todo))
    /\ UNCHANGED <<generation, firewalls, policies, next_id, base, made>>

\* Those the firewall has by now, whether or not they were collected.
PushDropPolicies(c) ==
    /\ call[c].pc = "drop_policies"
    /\ policies' = Drop(policies, PoliciesOf(call[c].firewall))
    /\ Becomes(c, Push("policies", call[c].firewall, {}, call[c].todo))
    /\ UNCHANGED <<generation, firewalls, rules, next_id, base, made>>

\* The next desired policy is inserted, then its rules one by one.
PushPolicy(c, i) ==
    /\ call[c].pc = "policies" /\ i \in DOMAIN call[c].todo
    /\ \A j \in DOMAIN call[c].todo : i <= j
    /\ next_generation /\ NewId
    /\ policies' = Put(policies, next_id, call[c].firewall)
    /\ Becomes(c, [pc |-> "rules", firewall |-> call[c].firewall, policy |-> next_id,
                   left |-> call[c].todo[i], todo |-> Drop(call[c].todo, {i})])
    /\ UNCHANGED <<firewalls, rules, base, made>>

PushRule(c) ==
    /\ call[c].pc = "rules" /\ call[c].left > 0
    /\ NewId
    /\ rules' = Put(rules, next_id, call[c].policy)
    /\ made' = Put(made, next_id, call[c].policy)
    /\ Becomes(c, [pc |-> "rules", firewall |-> call[c].firewall, policy |-> call[c].policy,
                   left |-> call[c].left - 1, todo |-> call[c].todo])
    /\ UNCHANGED <<generation, firewalls, policies, base>>

PushNext(c) ==
    /\ call[c].pc = "rules" /\ call[c].left = 0
    /\ Becomes(c, Push("policies", call[c].firewall, {}, call[c].todo))
    /\ UNCHANGED <<base, made>> /\ UNCHANGED store

PushGeneration(c) ==
    /\ call[c].pc = "policies" /\ call[c].todo = <<>>
    /\ next_generation
    /\ Becomes(c, [pc |-> "publish", firewall |-> call[c].firewall, generation |-> generation])
    /\ UNCHANGED <<firewalls, policies, rules, next_id, base, made>>

\* The firewall gets the new generation if it is still there; the client is told.
PushPublish(c) ==
    /\ call[c].pc = "publish"
    /\ firewalls' = IF call[c].firewall \in DOMAIN firewalls
                      THEN [firewalls EXCEPT ![call[c].firewall] = call[c].generation]
                      ELSE firewalls
    /\ Sees(c, call[c].firewall, call[c].generation)
    /\ Becomes(c, Idle)
    /\ UNCHANGED <<generation, policies, rules, next_id, made>>

Index == UNION {DOMAIN d : d \in Desired}

PushStep(c) ==
    \/ PushCollect(c) \/ PushDropRules(c) \/ PushDropPolicies(c)
    \/ \E i \in Index : PushPolicy(c, i)
    \/ PushRule(c) \/ PushNext(c) \/ PushGeneration(c) \/ PushPublish(c)

Next ==
    \E c \in Clients :
        \/ create_firewall(c) \/ InsertFirewall(c) \/ update_firewall(c)
        \/ \E f \in Ids : get_firewall(c, f) \/ delete_firewall(c, f) \/ create_policy(c, f)
        \/ InsertPolicy(c)
        \/ \E p \in Ids : create_rule(c, p) \/ delete_rule(c, p)
        \/ InsertRule(c)
        \/ \E d \in Desired : apply_desired_state(c, d)
        \/ PushStep(c)

Spec == Init /\ [][Next]_vars

-----------------------------------------------------------------------------
(* Properties *)

Given == 1..(next_id - 1)
Taken == 1..(generation - 1)

Todos == {Drop(d, S) : d \in Desired, S \in SUBSET Index}

Handlers ==
    {Idle}
    \cup [pc : {"insert_firewall"}, generation : Taken]
    \cup [pc : {"insert_policy"}, firewall : Given]
    \cup [pc : {"insert_rule"}, policy : Given]
    \cup [pc : {"collect", "drop_rules", "drop_policies", "policies"},
          firewall : Given, ids : SUBSET Given, todo : Todos]
    \cup [pc : {"rules"}, firewall : Given, policy : Given, left : Nat, todo : Todos]
    \cup [pc : {"publish"}, firewall : Given, generation : Taken]

\* Whatever refers to an identifier or a generation refers to one given out.
TypeOK ==
    /\ generation \in Nat \ {0} /\ next_id \in Nat \ {0}
    /\ DOMAIN firewalls \subseteq Given /\ \A f \in DOMAIN firewalls : firewalls[f] \in Taken
    /\ DOMAIN policies \subseteq Given /\ \A p \in DOMAIN policies : policies[p] \in Given
    /\ DOMAIN rules \subseteq Given /\ \A r \in DOMAIN rules : rules[r] \in Given
    /\ DOMAIN made \subseteq Given /\ \A r \in DOMAIN made : made[r] \in Given
    /\ call \in [Clients -> Handlers]
    /\ base \in [Clients -> [firewall : 0..(next_id - 1), generation : 0..(generation - 1)]]

\* "In-memory state store with generation tracking for optimistic concurrency"
\* (store.rs:8): what a client saw, once overtaken by somebody's change, is never taken
\* for current again, although a push that took its generation early may publish a
\* lower one over a later update's.
StaleStaysStale ==
    [][\A c \in Clients :
         (~Current(c) /\ base'[c] = base[c]) => ~Current(c)']_vars

\* A rule that was created and that no request has deleted is there for as long as its
\* policy is: pushes, overlapping ones included, take away only rules of policies that
\* go too.  Between a push's two removals the policy is still seen without its rules.
VisibleRulesKept ==
    \A r \in DOMAIN made :
        made[r] \in DOMAIN policies =>
            \/ r \in DOMAIN rules
            \/ \E c \in Clients :
                  call[c].pc = "drop_policies" /\ call[c].firewall = policies[made[r]]
===============================================================================
