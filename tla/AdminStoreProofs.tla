--------------------------- MODULE AdminStoreProofs ---------------------------
(***************************************************************************)
(* Proofs about AdminStore for any number of requests under way, any       *)
(* desired states and any bounds.                                          *)
(***************************************************************************)
EXTENDS AdminStore, TLAPS

-----------------------------------------------------------------------------
(* Types *)

Bases == [firewall : 0..(next_id - 1), generation : 0..(generation - 1)]

\* What holds of the maps, whatever handlers do.
MapsOK ==
    /\ DOMAIN firewalls \subseteq Given /\ \A f \in DOMAIN firewalls : firewalls[f] \in Taken
    /\ DOMAIN policies \subseteq Given /\ \A p \in DOMAIN policies : policies[p] \in Given
    /\ DOMAIN rules \subseteq Given /\ \A r \in DOMAIN rules : rules[r] \in Given
    /\ DOMAIN made \subseteq Given /\ \A r \in DOMAIN made : made[r] \in Given

LEMMA InitTypeOK == Init => TypeOK
  <1> SUFFICES ASSUME Init PROVE TypeOK
    OBVIOUS
  <1>1. DOMAIN firewalls = {} /\ DOMAIN policies = {} /\ DOMAIN rules = {} /\ DOMAIN made = {}
    BY DEF Init
  <1>2. call \in [Clients -> Handlers]
    BY DEF Init, Handlers
  <1>3. base \in [Clients -> [firewall : 0..(next_id - 1), generation : 0..(generation - 1)]]
    BY DEF Init, Unseen
  <1> QED
    BY <1>1, <1>2, <1>3 DEF Init, TypeOK

\* The counters only grow.
Grows ==
    /\ generation' \in Nat /\ next_id' \in Nat
    /\ generation <= generation' /\ next_id <= next_id'

LEMMA Intervals ==
    ASSUME NEW a \in Nat, NEW b \in Nat, a <= b
    PROVE  /\ 1..(a - 1) \subseteq 1..(b - 1) /\ 0..(a - 1) \subseteq 0..(b - 1)
           /\ 1..(b - 1) \subseteq 0..(b - 1)
  OBVIOUS

LEMMA GivenGrows ==
    ASSUME TypeOK, Grows
    PROVE  Given \subseteq Given' /\ Taken \subseteq Taken' /\ Bases \subseteq Bases'
  <1>0. /\ generation \in Nat /\ next_id \in Nat
        /\ generation' \in Nat /\ next_id' \in Nat
        /\ generation <= generation' /\ next_id <= next_id'
    BY DEF TypeOK, Grows
  <1>1. Given \subseteq Given' /\ Taken \subseteq Taken'
    BY <1>0, Intervals DEF Given, Taken
  <1>2. 0..(next_id - 1) \subseteq 0..(next_id' - 1)
    BY <1>0, Intervals
  <1>3. 0..(generation - 1) \subseteq 0..(generation' - 1)
    BY <1>0, Intervals
  <1> QED
    BY <1>1, <1>2, <1>3 DEF Bases

LEMMA HandlersGrow ==
    ASSUME TypeOK, Grows
    PROVE  Handlers \subseteq Handlers'
  <1>1. Given \subseteq Given' /\ Taken \subseteq Taken'
    BY GivenGrows
  <1> QED
    BY <1>1, Zenon DEF Handlers

\* A handler moves on.
LEMMA CallTypeOK ==
    ASSUME TypeOK, Grows, NEW c \in Clients, NEW s, s \in Handlers', Becomes(c, s)
    PROVE  call' \in [Clients -> Handlers']
  <1>1. call \in [Clients -> Handlers']
    BY HandlersGrow DEF TypeOK
  <1> QED
    BY <1>1 DEF Becomes

\* A client learns a firewall's generation.
LEMMA BaseTypeOK ==
    ASSUME TypeOK, Grows, NEW c \in Clients, NEW f \in Given', NEW g \in Taken', Sees(c, f, g)
    PROVE  base' \in [Clients -> Bases']
  <1>1. base \in [Clients -> Bases']
    BY GivenGrows DEF TypeOK, Bases
  <1>2. f \in 0..(next_id' - 1) /\ g \in 0..(generation' - 1)
    <2>1. Given' = 1..(next_id' - 1) /\ Taken' = 1..(generation' - 1)
      BY DEF Given, Taken
    <2>2. /\ generation' \in Nat /\ next_id' \in Nat
          /\ generation' <= generation' /\ next_id' <= next_id'
      BY DEF Grows
    <2>3. 1..(next_id' - 1) \subseteq 0..(next_id' - 1)
      BY <2>2, Intervals
    <2>4. 1..(generation' - 1) \subseteq 0..(generation' - 1)
      BY <2>2, Intervals
    <2> QED
      BY <2>1, <2>3, <2>4
  <1>3. [firewall |-> f, generation |-> g] \in Bases'
    BY <1>2 DEF Bases
  <1> QED
    BY <1>1, <1>3 DEF Sees

LEMMA SameTypeOK ==
    ASSUME TypeOK, Grows
    PROVE  /\ call \in [Clients -> Handlers'] /\ base \in [Clients -> Bases']
           /\ call' = call => call' \in [Clients -> Handlers']
           /\ base' = base => base' \in [Clients -> Bases']
  BY GivenGrows, HandlersGrow DEF TypeOK, Bases

LEMMA Together ==
    ASSUME TypeOK, Grows, MapsOK', call' \in [Clients -> Handlers'], base' \in [Clients -> Bases']
    PROVE  TypeOK'
  BY DEF TypeOK, MapsOK, Grows, Bases

\* What an identifier taken is good for.
LEMMA NewIdGrows ==
    ASSUME TypeOK, NewId, generation' = generation \/ generation' = generation + 1
    PROVE  Grows /\ next_id \in Given' /\ next_id \notin Given
  BY DEF TypeOK, NewId, Grows, Given

LEMMA NextGenerationGrows ==
    ASSUME TypeOK, next_generation, next_id' = next_id \/ next_id' = next_id + 1
    PROVE  Grows /\ generation \in Taken' /\ generation \notin Taken
  BY DEF TypeOK, next_generation, Grows, Taken

LEMMA SameGrows ==
    ASSUME TypeOK, next_id' = next_id, generation' = generation
    PROVE  Grows
  BY DEF TypeOK, Grows

\* Maps that lose entries, or gain one of what has been given out, stay well formed.
LEMMA MapsStep ==
    ASSUME TypeOK, Grows,
           \A f \in DOMAIN firewalls' :
              (f \in DOMAIN firewalls /\ firewalls'[f] = firewalls[f])
              \/ (f \in Given' /\ firewalls'[f] \in Taken'),
           \A p \in DOMAIN policies' :
              (p \in DOMAIN policies /\ policies'[p] = policies[p])
              \/ (p \in Given' /\ policies'[p] \in Given'),
           \A r \in DOMAIN rules' :
              (r \in DOMAIN rules /\ rules'[r] = rules[r])
              \/ (r \in Given' /\ rules'[r] \in Given'),
           \A r \in DOMAIN made' :
              (r \in DOMAIN made /\ made'[r] = made[r])
              \/ (r \in Given' /\ made'[r] \in Given')
    PROVE  MapsOK'
  <1>1. Given \subseteq Given' /\ Taken \subseteq Taken'
    BY GivenGrows
  <1>2. MapsOK
    BY DEF TypeOK, MapsOK
  <1>3. DOMAIN firewalls' \subseteq Given' /\ \A f \in DOMAIN firewalls' : firewalls'[f] \in Taken'
    BY <1>1, <1>2 DEF MapsOK
  <1>4. DOMAIN policies' \subseteq Given' /\ \A p \in DOMAIN policies' : policies'[p] \in Given'
    BY <1>1, <1>2 DEF MapsOK
  <1>5. DOMAIN rules' \subseteq Given' /\ \A r \in DOMAIN rules' : rules'[r] \in Given'
    BY <1>1, <1>2 DEF MapsOK
  <1>6. DOMAIN made' \subseteq Given' /\ \A r \in DOMAIN made' : made'[r] \in Given'
    BY <1>1, <1>2 DEF MapsOK
  <1> QED
    BY <1>3, <1>4, <1>5, <1>6 DEF MapsOK

-----------------------------------------------------------------------------
(* Each action keeps the types *)

LEMMA FirewallTypes ==
    ASSUME TypeOK, NEW c \in Clients,
           create_firewall(c) \/ InsertFirewall(c) \/ update_firewall(c)
           \/ \E f \in Ids : get_firewall(c, f) \/ delete_firewall(c, f)
    PROVE  TypeOK'
  <1>1. CASE create_firewall(c)
    <2>1. Grows /\ generation \in Taken'
      BY <1>1, NextGenerationGrows DEF create_firewall
    <2>2. [pc |-> "insert_firewall", generation |-> generation] \in Handlers'
      BY <2>1 DEF Handlers
    <2>3. call' \in [Clients -> Handlers']
      BY <1>1, <2>1, <2>2, CallTypeOK DEF create_firewall
    <2>4. MapsOK'
      BY <1>1, <2>1, MapsStep DEF create_firewall
    <2> QED
      BY <1>1, <2>1, <2>3, <2>4, SameTypeOK, Together DEF create_firewall
  <1>2. CASE InsertFirewall(c)
    <2>1. Grows /\ next_id \in Given' /\ next_id \notin Given
      BY <1>2, NewIdGrows DEF InsertFirewall
    <2>2. call[c].generation \in Taken'
      <3>1. call[c] \in Handlers /\ call[c].pc = "insert_firewall"
        BY <1>2 DEF TypeOK, InsertFirewall
      <3>2. call[c].generation \in Taken
        BY <3>1 DEF Handlers, Idle
      <3> QED
        BY <2>1, <3>2, GivenGrows
    <2>3. call' \in [Clients -> Handlers']
      <3>1. Idle \in Handlers'
        BY DEF Handlers, Idle
      <3> QED
        BY <1>2, <2>1, <3>1, CallTypeOK DEF InsertFirewall
    <2>4. base' \in [Clients -> Bases']
      BY <1>2, <2>1, <2>2, BaseTypeOK DEF InsertFirewall
    <2>5. MapsOK'
      <3>1. \A f \in DOMAIN firewalls' :
              (f \in DOMAIN firewalls /\ firewalls'[f] = firewalls[f])
              \/ (f \in Given' /\ firewalls'[f] \in Taken')
        BY <1>2, <2>1, <2>2 DEF InsertFirewall, Put
      <3> QED
        BY <1>2, <2>1, <3>1, MapsStep DEF InsertFirewall
    <2> QED
      BY <2>1, <2>3, <2>4, <2>5, Together
  <1>3. CASE update_firewall(c)
    <2>1. Grows /\ generation \in Taken'
      BY <1>3, NextGenerationGrows DEF update_firewall
    <2>2. base[c].firewall \in DOMAIN firewalls
      BY <1>3 DEF update_firewall, Current
    <2>3. base[c].firewall \in Given'
      BY <2>1, <2>2, GivenGrows DEF TypeOK
    <2>4. base' \in [Clients -> Bases']
      BY <1>3, <2>1, <2>3, BaseTypeOK DEF update_firewall
    <2>5. MapsOK'
      <3>1. \A f \in DOMAIN firewalls' :
              (f \in DOMAIN firewalls /\ firewalls'[f] = firewalls[f])
              \/ (f \in Given' /\ firewalls'[f] \in Taken')
        BY <1>3, <2>1, <2>3 DEF update_firewall
      <3> QED
        BY <1>3, <2>1, <3>1, MapsStep DEF update_firewall
    <2> QED
      BY <1>3, <2>1, <2>4, <2>5, SameTypeOK, Together DEF update_firewall
  <1>4. ASSUME NEW f \in Ids, get_firewall(c, f) PROVE TypeOK'
    <2>1. Grows
      BY <1>4, SameGrows DEF get_firewall, store
    <2>2. f \in Given' /\ firewalls[f] \in Taken'
      BY <1>4, <2>1, GivenGrows DEF get_firewall, TypeOK
    <2>3. base' \in [Clients -> Bases']
      BY <1>4, <2>1, <2>2, BaseTypeOK DEF get_firewall
    <2>4. MapsOK'
      BY <1>4, <2>1, MapsStep DEF get_firewall, store
    <2> QED
      BY <1>4, <2>1, <2>3, <2>4, SameTypeOK, Together DEF get_firewall
  <1>5. ASSUME NEW f \in Ids, delete_firewall(c, f) PROVE TypeOK'
    <2>1. Grows
      BY <1>5, SameGrows DEF delete_firewall
    <2>2. \A x \in DOMAIN firewalls' : x \in DOMAIN firewalls /\ firewalls'[x] = firewalls[x]
      BY <1>5 DEF delete_firewall, Drop
    <2>3. MapsOK'
      BY <1>5, <2>1, <2>2, MapsStep DEF delete_firewall
    <2> QED
      BY <1>5, <2>1, <2>3, SameTypeOK, Together DEF delete_firewall
  <1> QED
    BY <1>1, <1>2, <1>3, <1>4, <1>5

LEMMA RuleTypes ==
    ASSUME TypeOK, NEW c \in Clients,
           \/ \E f \in Ids : create_policy(c, f)
           \/ InsertPolicy(c) \/ InsertRule(c)
           \/ \E p \in Ids : create_rule(c, p) \/ delete_rule(c, p)
    PROVE  TypeOK'
  <1>0. Idle \in Handlers'
    BY DEF Handlers, Idle
  <1>1. ASSUME NEW f \in Ids, create_policy(c, f) PROVE TypeOK'
    <2>1. Grows
      BY <1>1, NextGenerationGrows DEF create_policy
    <2>2. f \in Given'
      BY <1>1, <2>1, GivenGrows DEF create_policy, TypeOK
    <2>3. [pc |-> "insert_policy", firewall |-> f] \in Handlers'
      BY <2>2 DEF Handlers
    <2>4. call' \in [Clients -> Handlers']
      BY <1>1, <2>1, <2>3, CallTypeOK DEF create_policy
    <2>5. MapsOK'
      BY <1>1, <2>1, MapsStep DEF create_policy
    <2> QED
      BY <1>1, <2>1, <2>4, <2>5, SameTypeOK, Together DEF create_policy
  <1>2. CASE InsertPolicy(c)
    <2>1. Grows /\ next_id \in Given' /\ next_id \notin Given
      BY <1>2, NewIdGrows DEF InsertPolicy
    <2>2. call[c].firewall \in Given'
      <3>1. call[c] \in Handlers /\ call[c].pc = "insert_policy"
        BY <1>2 DEF TypeOK, InsertPolicy
      <3>2. call[c].firewall \in Given
        BY <3>1 DEF Handlers, Idle
      <3> QED
        BY <2>1, <3>2, GivenGrows
    <2>3. call' \in [Clients -> Handlers']
      BY <1>0, <1>2, <2>1, CallTypeOK DEF InsertPolicy
    <2>4. \A p \in DOMAIN policies' :
            (p \in DOMAIN policies /\ policies'[p] = policies[p])
            \/ (p \in Given' /\ policies'[p] \in Given')
      BY <1>2, <2>1, <2>2 DEF InsertPolicy, Put
    <2>5. MapsOK'
      BY <1>2, <2>1, <2>4, MapsStep DEF InsertPolicy
    <2> QED
      BY <1>2, <2>1, <2>3, <2>5, SameTypeOK, Together DEF InsertPolicy
  <1>3. CASE InsertRule(c)
    <2>1. Grows /\ next_id \in Given' /\ next_id \notin Given
      BY <1>3, NewIdGrows DEF InsertRule
    <2>2. call[c].policy \in Given'
      <3>1. call[c] \in Handlers /\ call[c].pc = "insert_rule"
        BY <1>3 DEF TypeOK, InsertRule
      <3>2. call[c].policy \in Given
        BY <3>1 DEF Handlers, Idle
      <3> QED
        BY <2>1, <3>2, GivenGrows
    <2>3. call' \in [Clients -> Handlers']
      BY <1>0, <1>3, <2>1, CallTypeOK DEF InsertRule
    <2>4. \A r \in DOMAIN rules' :
            (r \in DOMAIN rules /\ rules'[r] = rules[r])
            \/ (r \in Given' /\ rules'[r] \in Given')
      BY <1>3, <2>1, <2>2 DEF InsertRule, Put
    <2>5. \A r \in DOMAIN made' :
            (r \in DOMAIN made /\ made'[r] = made[r])
            \/ (r \in Given' /\ made'[r] \in Given')
      BY <1>3, <2>1, <2>2 DEF InsertRule, Put
    <2>6. MapsOK'
      BY <1>3, <2>1, <2>4, <2>5, MapsStep DEF InsertRule
    <2> QED
      BY <1>3, <2>1, <2>3, <2>6, SameTypeOK, Together DEF InsertRule
  <1>4. ASSUME NEW p \in Ids, create_rule(c, p) PROVE TypeOK'
    <2>1. Grows
      BY <1>4, SameGrows DEF create_rule, store
    <2>2. p \in Given'
      BY <1>4, <2>1, GivenGrows DEF create_rule, TypeOK
    <2>3. [pc |-> "insert_rule", policy |-> p] \in Handlers'
      BY <2>2 DEF Handlers
    <2>4. call' \in [Clients -> Handlers']
      BY <1>4, <2>1, <2>3, CallTypeOK DEF create_rule
    <2>5. MapsOK'
      BY <1>4, <2>1, MapsStep DEF create_rule, store
    <2> QED
      BY <1>4, <2>1, <2>4, <2>5, SameTypeOK, Together DEF create_rule
  <1>5. ASSUME NEW r \in Ids, delete_rule(c, r) PROVE TypeOK'
    <2>1. Grows
      BY <1>5, SameGrows DEF delete_rule
    <2>2. \A x \in DOMAIN rules' : x \in DOMAIN rules /\ rules'[x] = rules[x]
      BY <1>5 DEF delete_rule, Drop
    <2>3. \A x \in DOMAIN made' : x \in DOMAIN made /\ made'[x] = made[x]
      BY <1>5 DEF delete_rule, Drop
    <2>4. MapsOK'
      BY <1>5, <2>1, <2>2, <2>3, MapsStep DEF delete_rule
    <2> QED
      BY <1>5, <2>1, <2>4, SameTypeOK, Together DEF delete_rule
  <1> QED
    BY <1>1, <1>2, <1>3, <1>4, <1>5

\* What is left of a desired state.
LEMMA DesiredIsTodo ==
    ASSUME NEW d \in Desired
    PROVE  d \in Todos
  <1>1. Drop(d, {}) = d
    BY StoreAssumption DEF Drop
  <1> QED
    BY <1>1 DEF Todos

LEMMA TodoRest ==
    ASSUME NEW t \in Todos, NEW i \in Index
    PROVE  Drop(t, {i}) \in Todos /\ (i \in DOMAIN t => t[i] \in Nat)
  <1>1. PICK d \in Desired, S \in SUBSET Index : t = Drop(d, S)
    BY DEF Todos
  <1>2. Drop(t, {i}) = Drop(d, S \cup {i})
    BY <1>1 DEF Drop
  <1>3. i \in DOMAIN t => t[i] \in Nat
    BY <1>1, StoreAssumption DEF Drop
  <1> QED
    BY <1>2, <1>3 DEF Todos

\* A push on its way through the store.
LEMMA PushFields ==
    ASSUME TypeOK, NEW c \in Clients
    PROVE  /\ call[c].pc \in {"collect", "drop_rules", "drop_policies", "policies"} =>
                 call[c].firewall \in Given /\ call[c].ids \in SUBSET Given /\ call[c].todo \in Todos
           /\ call[c].pc = "rules" =>
                 /\ call[c].firewall \in Given /\ call[c].policy \in Given
                 /\ call[c].left \in Nat /\ call[c].todo \in Todos
           /\ call[c].pc = "publish" => call[c].firewall \in Given /\ call[c].generation \in Taken
           /\ call[c].pc = "insert_firewall" => call[c].generation \in Taken
           /\ call[c].pc = "insert_rule" => call[c].policy \in Given
  <1>1. call[c] \in Handlers
    BY DEF TypeOK
  <1> QED
    BY <1>1 DEF Handlers, Idle

LEMMA PushHandler ==
    ASSUME NEW pc \in {"collect", "drop_rules", "drop_policies", "policies"},
           NEW f \in Given', NEW ids \in SUBSET (Given'), NEW t \in Todos
    PROVE  Push(pc, f, ids, t) \in Handlers'
  BY DEF Push, Handlers

LEMMA PushTypes ==
    ASSUME TypeOK, NEW c \in Clients,
           (\E d \in Desired : apply_desired_state(c, d)) \/ PushStep(c)
    PROVE  TypeOK'
  <1>0. Idle \in Handlers'
    BY DEF Handlers, Idle
  <1>1. ASSUME NEW d \in Desired, apply_desired_state(c, d) PROVE TypeOK'
    <2>1. Grows
      BY <1>1, SameGrows DEF apply_desired_state, store
    <2>2. base[c].firewall \in Given'
      BY <1>1, <2>1, GivenGrows DEF apply_desired_state, Current, TypeOK
    <2>3. Push("collect", base[c].firewall, {}, d) \in Handlers'
      BY <2>2, DesiredIsTodo, PushHandler
    <2>4. call' \in [Clients -> Handlers']
      BY <1>1, <2>1, <2>3, CallTypeOK DEF apply_desired_state
    <2>5. MapsOK'
      BY <1>1, <2>1, MapsStep DEF apply_desired_state, store
    <2> QED
      BY <1>1, <2>1, <2>4, <2>5, SameTypeOK, Together DEF apply_desired_state
  <1>2. CASE PushCollect(c)
    <2>1. Grows
      BY <1>2, SameGrows DEF PushCollect, store
    <2>2. call[c].firewall \in Given' /\ call[c].todo \in Todos
      BY <1>2, <2>1, GivenGrows, PushFields DEF PushCollect
    <2>3. PoliciesOf(call[c].firewall) \in SUBSET (Given')
      BY <2>1, GivenGrows DEF PoliciesOf, TypeOK
    <2>4. Push("drop_rules", call[c].firewall, PoliciesOf(call[c].firewall), call[c].todo) \in Handlers'
      BY <2>2, <2>3, PushHandler
    <2>5. call' \in [Clients -> Handlers']
      BY <1>2, <2>1, <2>4, CallTypeOK DEF PushCollect
    <2>6. MapsOK'
      BY <1>2, <2>1, MapsStep DEF PushCollect, store
    <2> QED
      BY <1>2, <2>1, <2>5, <2>6, SameTypeOK, Together DEF PushCollect
  <1>3. CASE PushDropRules(c)
    <2>1. Grows
      BY <1>3, SameGrows DEF PushDropRules
    <2>2. call[c].firewall \in Given' /\ call[c].ids \in SUBSET (Given') /\ call[c].todo \in Todos
      BY <1>3, <2>1, GivenGrows, PushFields DEF PushDropRules
    <2>3. Push("drop_policies", call[c].firewall, call[c].ids, call[c].todo) \in Handlers'
      BY <2>2, PushHandler
    <2>4. call' \in [Clients -> Handlers']
      BY <1>3, <2>1, <2>3, CallTypeOK DEF PushDropRules
    <2>5. \A x \in DOMAIN rules' : x \in DOMAIN rules /\ rules'[x] = rules[x]
      BY <1>3 DEF PushDropRules, Drop
    <2>6. MapsOK'
      BY <1>3, <2>1, <2>5, MapsStep DEF PushDropRules
    <2> QED
      BY <1>3, <2>1, <2>4, <2>6, SameTypeOK, Together DEF PushDropRules
  <1>4. CASE PushDropPolicies(c)
    <2>1. Grows
      BY <1>4, SameGrows DEF PushDropPolicies
    <2>2. call[c].firewall \in Given' /\ call[c].todo \in Todos
      BY <1>4, <2>1, GivenGrows, PushFields DEF PushDropPolicies
    <2>3. Push("policies", call[c].firewall, {}, call[c].todo) \in Handlers'
      BY <2>2, PushHandler
    <2>4. call' \in [Clients -> Handlers']
      BY <1>4, <2>1, <2>3, CallTypeOK DEF PushDropPolicies
    <2>5. \A x \in DOMAIN policies' : x \in DOMAIN policies /\ policies'[x] = policies[x]
      BY <1>4 DEF PushDropPolicies, Drop
    <2>6. MapsOK'
      BY <1>4, <2>1, <2>5, MapsStep DEF PushDropPolicies
    <2> QED
      BY <1>4, <2>1, <2>4, <2>6, SameTypeOK, Together DEF PushDropPolicies
  <1>5. ASSUME NEW i \in Index, PushPolicy(c, i) PROVE TypeOK'
    <2>1. Grows /\ next_id \in Given' /\ next_id \notin Given
      BY <1>5, NewIdGrows DEF PushPolicy, next_generation
    <2>2. call[c].firewall \in Given' /\ call[c].todo \in Todos
      BY <1>5, <2>1, GivenGrows, PushFields DEF PushPolicy
    <2>3. Drop(call[c].todo, {i}) \in Todos /\ call[c].todo[i] \in Nat
      BY <1>5, <2>2, TodoRest DEF PushPolicy
    <2>4. [pc |-> "rules", firewall |-> call[c].firewall, policy |-> next_id,
           left |-> call[c].todo[i], todo |-> Drop(call[c].todo, {i})] \in Handlers'
      BY <2>1, <2>2, <2>3 DEF Handlers
    <2>5. call' \in [Clients -> Handlers']
      BY <1>5, <2>1, <2>4, CallTypeOK DEF PushPolicy
    <2>6. \A p \in DOMAIN policies' :
            (p \in DOMAIN policies /\ policies'[p] = policies[p])
            \/ (p \in Given' /\ policies'[p] \in Given')
      BY <1>5, <2>1, <2>2 DEF PushPolicy, Put
    <2>7. MapsOK'
      BY <1>5, <2>1, <2>6, MapsStep DEF PushPolicy
    <2> QED
      BY <1>5, <2>1, <2>5, <2>7, SameTypeOK, Together DEF PushPolicy
  <1>6. CASE PushRule(c)
    <2>1. Grows /\ next_id \in Given' /\ next_id \notin Given
      BY <1>6, NewIdGrows DEF PushRule
    <2>2. call[c].firewall \in Given' /\ call[c].policy \in Given'
          /\ call[c].todo \in Todos /\ call[c].left \in Nat
      BY <1>6, <2>1, GivenGrows, PushFields DEF PushRule
    <2>3. call[c].left - 1 \in Nat
      BY <1>6, <2>2 DEF PushRule
    <2>4. [pc |-> "rules", firewall |-> call[c].firewall, policy |-> call[c].policy,
           left |-> call[c].left - 1, todo |-> call[c].todo] \in Handlers'
      BY <2>2, <2>3 DEF Handlers
    <2>5. call' \in [Clients -> Handlers']
      BY <1>6, <2>1, <2>4, CallTypeOK DEF PushRule
    <2>6. \A r \in DOMAIN rules' :
            (r \in DOMAIN rules /\ rules'[r] = rules[r])
            \/ (r \in Given' /\ rules'[r] \in Given')
      BY <1>6, <2>1, <2>2 DEF PushRule, Put
    <2>7. \A r \in DOMAIN made' :
            (r \in DOMAIN made /\ made'[r] = made[r])
            \/ (r \in Given' /\ made'[r] \in Given')
      BY <1>6, <2>1, <2>2 DEF PushRule, Put
    <2>8. MapsOK'
      BY <1>6, <2>1, <2>6, <2>7, MapsStep DEF PushRule
    <2> QED
      BY <1>6, <2>1, <2>5, <2>8, SameTypeOK, Together DEF PushRule
  <1>7. CASE PushNext(c)
    <2>1. Grows
      BY <1>7, SameGrows DEF PushNext, store
    <2>2. call[c].firewall \in Given' /\ call[c].todo \in Todos
      BY <1>7, <2>1, GivenGrows, PushFields DEF PushNext
    <2>3. Push("policies", call[c].firewall, {}, call[c].todo) \in Handlers'
      BY <2>2, PushHandler
    <2>4. call' \in [Clients -> Handlers']
      BY <1>7, <2>1, <2>3, CallTypeOK DEF PushNext
    <2>5. MapsOK'
      BY <1>7, <2>1, MapsStep DEF PushNext, store
    <2> QED
      BY <1>7, <2>1, <2>4, <2>5, SameTypeOK, Together DEF PushNext
  <1>8. CASE PushGeneration(c)
    <2>1. Grows /\ generation \in Taken'
      BY <1>8, NextGenerationGrows DEF PushGeneration
    <2>2. call[c].firewall \in Given'
      BY <1>8, <2>1, GivenGrows, PushFields DEF PushGeneration
    <2>3. [pc |-> "publish", firewall |-> call[c].firewall, generation |-> generation] \in Handlers'
      BY <2>1, <2>2 DEF Handlers
    <2>4. call' \in [Clients -> Handlers']
      BY <1>8, <2>1, <2>3, CallTypeOK DEF PushGeneration
    <2>5. MapsOK'
      BY <1>8, <2>1, MapsStep DEF PushGeneration
    <2> QED
      BY <1>8, <2>1, <2>4, <2>5, SameTypeOK, Together DEF PushGeneration
  <1>9. CASE PushPublish(c)
    <2>1. Grows
      BY <1>9, SameGrows DEF PushPublish
    <2>2. call[c].firewall \in Given' /\ call[c].generation \in Taken'
      BY <1>9, <2>1, GivenGrows, PushFields DEF PushPublish
    <2>3. call' \in [Clients -> Handlers']
      BY <1>0, <1>9, <2>1, CallTypeOK DEF PushPublish
    <2>4. base' \in [Clients -> Bases']
      BY <1>9, <2>1, <2>2, BaseTypeOK DEF PushPublish
    <2>5. \A f \in DOMAIN firewalls' :
            (f \in DOMAIN firewalls /\ firewalls'[f] = firewalls[f])
            \/ (f \in Given' /\ firewalls'[f] \in Taken')
      BY <1>9, <2>2 DEF PushPublish
    <2>6. MapsOK'
      BY <1>9, <2>1, <2>5, MapsStep DEF PushPublish
    <2> QED
      BY <2>1, <2>3, <2>4, <2>6, Together
  <1> QED
    BY <1>1, <1>2, <1>3, <1>4, <1>5, <1>6, <1>7, <1>8, <1>9 DEF PushStep

LEMMA NextTypeOK ==
    ASSUME TypeOK, [Next]_vars
    PROVE  TypeOK'
  <1>1. CASE UNCHANGED vars
    BY <1>1 DEF vars, TypeOK, Given, Taken, Handlers
  <1>2. CASE Next
    BY <1>2, FirewallTypes, RuleTypes, PushTypes DEF Next
  <1> QED
    BY <1>1, <1>2

\* What the store and its handlers refer to has been given out: every identifier and
\* every generation in the maps, in a handler under way (create_*, apply_desired_state)
\* and in the hands of a client.
THEOREM AdminTypeCorrect == Spec => []TypeOK
  <1>1. Init => TypeOK
    BY InitTypeOK
  <1>2. TypeOK /\ [Next]_vars => TypeOK'
    BY NextTypeOK
  <1> QED
    BY <1>1, <1>2, PTL DEF Spec

-----------------------------------------------------------------------------
(* Generations *)

\* A handler has taken a generation that nobody has seen yet.
Holds(c) == call[c].pc \in {"insert_firewall", "publish"}

\* Such a generation is nobody else's.
GenerationsApart ==
    \A c \in Clients : Holds(c) =>
        /\ \A f \in DOMAIN firewalls : firewalls[f] # call[c].generation
        /\ \A d \in Clients : base[d].generation # call[c].generation
        /\ \A d \in Clients \ {c} : Holds(d) => call[d].generation # call[c].generation

\* Handlers that neither take nor publish a generation.
LEMMA ApartQuiet ==
    ASSUME TypeOK, GenerationsApart, NEW c \in Clients, NEW s,
           s.pc \notin {"insert_firewall", "publish"}, Becomes(c, s),
           firewalls' = firewalls, base' = base
    PROVE  GenerationsApart'
  <1>1. \A d \in Clients : Holds(d)' => d # c /\ Holds(d) /\ call'[d] = call[d]
    BY DEF TypeOK, Becomes, Holds
  <1> QED
    BY <1>1 DEF GenerationsApart

\* A generation is taken: it is larger than any in use.
LEMMA ApartTake ==
    ASSUME TypeOK, GenerationsApart, NEW c \in Clients, NEW s,
           s.generation = generation, Becomes(c, s),
           firewalls' = firewalls, base' = base
    PROVE  GenerationsApart'
  <1>1. call' \in [Clients -> {call[d] : d \in Clients} \cup {s}]
        /\ call'[c].generation = generation
    BY DEF TypeOK, Becomes
  <1>2. \A d \in Clients \ {c} : call'[d] = call[d]
    BY DEF TypeOK, Becomes
  <1>3. generation \notin Taken /\ generation \notin 0..(generation - 1)
    BY DEF TypeOK, Taken
  <1>4. \A f \in DOMAIN firewalls : firewalls[f] # generation
    BY <1>3 DEF TypeOK
  <1>5. \A d \in Clients : base[d].generation # generation
    BY <1>3 DEF TypeOK
  <1>6. \A d \in Clients : Holds(d) => call[d].generation # generation
    BY <1>3, PushFields DEF Holds
  <1>7. \A d \in Clients \ {c} : Holds(d)' => Holds(d)
    BY <1>2 DEF Holds
  <1>8. SUFFICES ASSUME NEW d \in Clients, Holds(d)'
                 PROVE  /\ \A f \in DOMAIN firewalls : firewalls[f] # call'[d].generation
                        /\ \A e \in Clients : base[e].generation # call'[d].generation
                        /\ \A e \in Clients \ {d} :
                              Holds(e)' => call'[e].generation # call'[d].generation
    BY DEF GenerationsApart
  <1>9. CASE d = c
    BY <1>1, <1>2, <1>4, <1>5, <1>6, <1>7, <1>9
  <1>10. CASE d # c
    <2>1. Holds(d) /\ call'[d] = call[d]
      BY <1>2, <1>7, <1>8, <1>10
    <2>2. \A e \in Clients \ {d} : Holds(e)' => call'[e].generation # call'[d].generation
      <3> SUFFICES ASSUME NEW e \in Clients \ {d}, Holds(e)'
                   PROVE  call'[e].generation # call'[d].generation
        OBVIOUS
      <3>1. CASE e = c
        BY <1>1, <1>6, <2>1, <3>1
      <3>2. CASE e # c
        BY <1>2, <1>7, <2>1, <3>2 DEF GenerationsApart
      <3> QED
        BY <3>1, <3>2
    <2> QED
      BY <2>1, <2>2 DEF GenerationsApart
  <1> QED
    BY <1>9, <1>10

\* A generation is published: the handler that had it is done with it.
LEMMA ApartPublish ==
    ASSUME TypeOK, GenerationsApart, NEW c \in Clients, Holds(c), Becomes(c, Idle),
           NEW k, Sees(c, k, call[c].generation),
           \A f \in DOMAIN firewalls' :
              (f \in DOMAIN firewalls /\ firewalls'[f] = firewalls[f])
              \/ firewalls'[f] = call[c].generation
    PROVE  GenerationsApart'
  <1>1. \A d \in Clients : Holds(d)' => d # c /\ Holds(d) /\ call'[d] = call[d]
    BY DEF TypeOK, Becomes, Holds, Idle
  <1>2. \A d \in Clients : base'[d].generation \in {base[d].generation, call[c].generation}
    BY DEF TypeOK, Sees
  <1>3. SUFFICES ASSUME NEW d \in Clients, Holds(d)'
                 PROVE  /\ \A f \in DOMAIN firewalls' : firewalls'[f] # call'[d].generation
                        /\ \A e \in Clients : base'[e].generation # call'[d].generation
                        /\ \A e \in Clients \ {d} :
                              Holds(e)' => call'[e].generation # call'[d].generation
    BY DEF GenerationsApart
  <1>4. d # c /\ Holds(d) /\ call'[d] = call[d] /\ call[c].generation # call[d].generation
    BY <1>1, <1>3 DEF GenerationsApart
  <1>5. \A f \in DOMAIN firewalls' : firewalls'[f] # call'[d].generation
    BY <1>4 DEF GenerationsApart
  <1>6. \A e \in Clients : base'[e].generation # call'[d].generation
    BY <1>2, <1>4 DEF GenerationsApart
  <1>7. \A e \in Clients \ {d} : Holds(e)' => call'[e].generation # call'[d].generation
    BY <1>1, <1>4 DEF GenerationsApart
  <1> QED
    BY <1>5, <1>6, <1>7

LEMMA NextApart ==
    ASSUME TypeOK, GenerationsApart, [Next]_vars
    PROVE  GenerationsApart'
  <1>1. CASE UNCHANGED vars
    BY <1>1 DEF vars, GenerationsApart, Holds
  <1>2. ASSUME NEW c \in Clients, create_firewall(c) \/ PushGeneration(c)
        PROVE  GenerationsApart'
    BY <1>2, ApartTake DEF create_firewall, PushGeneration
  <1>3. ASSUME NEW c \in Clients, InsertFirewall(c)
        PROVE  GenerationsApart'
    BY <1>3, ApartPublish DEF InsertFirewall, Holds, Put
  <1>4. ASSUME NEW c \in Clients, PushPublish(c)
        PROVE  GenerationsApart'
    BY <1>4, ApartPublish DEF PushPublish, Holds
  <1>5. ASSUME NEW c \in Clients, update_firewall(c)
        PROVE  GenerationsApart'
    <2>1. generation \notin Taken
      BY DEF TypeOK, Taken
    <2>2. \A d \in Clients : Holds(d) => call[d].generation # generation
      BY <2>1, PushFields DEF Holds
    <2>3. \A d \in Clients : base'[d].generation \in {base[d].generation, generation}
      BY <1>5 DEF update_firewall, Sees, TypeOK
    <2>4. \A f \in DOMAIN firewalls' : f \in DOMAIN firewalls /\ firewalls'[f] \in {firewalls[f], generation}
      BY <1>5 DEF update_firewall
    <2>5. call' = call
      BY <1>5 DEF update_firewall
    <2> QED
      BY <2>2, <2>3, <2>4, <2>5 DEF GenerationsApart, Holds
  <1>6. ASSUME NEW c \in Clients, NEW f \in Ids, get_firewall(c, f)
        PROVE  GenerationsApart'
    <2>1. \A d \in Clients : base'[d].generation \in {base[d].generation, firewalls[f]}
      BY <1>6 DEF get_firewall, Sees, TypeOK
    <2>2. call' = call /\ firewalls' = firewalls /\ f \in DOMAIN firewalls
      BY <1>6 DEF get_firewall, store
    <2> QED
      BY <2>1, <2>2 DEF GenerationsApart, Holds
  <1>7. ASSUME NEW c \in Clients, NEW f \in Ids, delete_firewall(c, f)
        PROVE  GenerationsApart'
    BY <1>7 DEF delete_firewall, Drop, GenerationsApart, Holds
  <1>8. ASSUME NEW c \in Clients, NEW r \in Ids, delete_rule(c, r)
        PROVE  GenerationsApart'
    BY <1>8 DEF delete_rule, GenerationsApart, Holds
  <1>9. ASSUME NEW c \in Clients, NEW i \in Ids, create_policy(c, i) \/ create_rule(c, i)
        PROVE  GenerationsApart'
    BY <1>9, ApartQuiet DEF create_policy, create_rule, store
  <1>10. ASSUME NEW c \in Clients, InsertPolicy(c) \/ InsertRule(c)
         PROVE  GenerationsApart'
    BY <1>10, ApartQuiet DEF InsertPolicy, InsertRule, Idle
  <1>11. ASSUME NEW c \in Clients, NEW d \in Desired, apply_desired_state(c, d)
         PROVE  GenerationsApart'
    BY <1>11, ApartQuiet DEF apply_desired_state, Push, store
  <1>12. ASSUME NEW c \in Clients,
                PushCollect(c) \/ PushDropRules(c) \/ PushDropPolicies(c) \/ PushNext(c)
         PROVE  GenerationsApart'
    BY <1>12, ApartQuiet DEF PushCollect, PushDropRules, PushDropPolicies, PushNext, Push, store
  <1>13. ASSUME NEW c \in Clients, NEW i \in Index, PushPolicy(c, i)
         PROVE  GenerationsApart'
    BY <1>13, ApartQuiet DEF PushPolicy
  <1>14. ASSUME NEW c \in Clients, PushRule(c)
         PROVE  GenerationsApart'
    BY <1>14, ApartQuiet DEF PushRule
  <1> QED
    BY <1>1, <1>2, <1>3, <1>4, <1>5, <1>6, <1>7, <1>8, <1>9, <1>10, <1>11, <1>12, <1>13, <1>14
       DEF Next, PushStep

\* Where a firewall's generation can come from in a step: it is new, an update's, or one
\* that a handler held.
LEMMA FirewallSteps ==
    ASSUME TypeOK, [Next]_vars
    PROVE  \A f \in DOMAIN firewalls' :
              \/ f \in DOMAIN firewalls /\ firewalls'[f] = firewalls[f]
              \/ f = next_id
              \/ firewalls'[f] = generation
              \/ \E d \in Clients : Holds(d) /\ firewalls'[f] = call[d].generation
  <1>1. CASE firewalls' = firewalls
    BY <1>1
  <1>2. ASSUME NEW c \in Clients, InsertFirewall(c)
        PROVE  \A f \in DOMAIN firewalls' :
                  f = next_id \/ (f \in DOMAIN firewalls /\ firewalls'[f] = firewalls[f])
    BY <1>2 DEF InsertFirewall, Put
  <1>3. ASSUME NEW c \in Clients, update_firewall(c)
        PROVE  \A f \in DOMAIN firewalls' :
                  \/ firewalls'[f] = generation
                  \/ f \in DOMAIN firewalls /\ firewalls'[f] = firewalls[f]
    BY <1>3 DEF update_firewall
  <1>4. ASSUME NEW c \in Clients, NEW k \in Ids, delete_firewall(c, k)
        PROVE  \A f \in DOMAIN firewalls' : f \in DOMAIN firewalls /\ firewalls'[f] = firewalls[f]
    BY <1>4 DEF delete_firewall, Drop
  <1>5. ASSUME NEW c \in Clients, PushPublish(c)
        PROVE  Holds(c) /\ \A f \in DOMAIN firewalls' :
                  \/ firewalls'[f] = call[c].generation
                  \/ f \in DOMAIN firewalls /\ firewalls'[f] = firewalls[f]
    BY <1>5 DEF PushPublish, Holds
  <1>6. \/ firewalls' = firewalls
        \/ \E c \in Clients :
              \/ InsertFirewall(c) \/ update_firewall(c) \/ PushPublish(c)
              \/ \E k \in Ids : delete_firewall(c, k)
    BY DEF Next, PushStep, vars, store, create_firewall, get_firewall, create_policy,
           InsertPolicy, create_rule, InsertRule, delete_rule, apply_desired_state,
           PushCollect, PushDropRules, PushDropPolicies, PushPolicy, PushRule, PushNext,
           PushGeneration
  <1> QED
    BY <1>1, <1>2, <1>3, <1>4, <1>5, <1>6

\* What a client saw of a firewall, once overtaken, is never taken for current again:
\* the generation check of update_firewall and of apply_desired_state cannot be fooled
\* by a generation that comes back, in whatever order handlers take and publish theirs.
THEOREM StaleNeverCurrent == Spec => StaleStaysStale
  <1>1. Init => TypeOK /\ GenerationsApart
    <2>1. Init => GenerationsApart
      BY DEF Init, Idle, GenerationsApart, Holds
    <2> QED
      BY <2>1, InitTypeOK
  <1>2. TypeOK /\ GenerationsApart /\ [Next]_vars => (TypeOK /\ GenerationsApart)'
    BY NextTypeOK, NextApart
  <1>3. TypeOK /\ GenerationsApart /\ [Next]_vars
           => [\A c \in Clients :
                 (~Current(c) /\ base'[c] = base[c]) => ~Current(c)']_vars
    <2> SUFFICES ASSUME TypeOK, GenerationsApart, [Next]_vars,
                        NEW c \in Clients, ~Current(c), base'[c] = base[c], Current(c)'
                 PROVE  FALSE
      OBVIOUS
    <2> DEFINE k == base[c].firewall
               g == base[c].generation
    <2>1. k \in DOMAIN firewalls' /\ firewalls'[k] = g
      BY DEF Current
    <2>2. ~(k \in DOMAIN firewalls /\ firewalls'[k] = firewalls[k])
      BY <2>1 DEF Current
    <2>3. k \in 0..(next_id - 1) /\ g \in 0..(generation - 1)
      BY DEF TypeOK
    <2>4. k # next_id /\ g # generation
      BY <2>3 DEF TypeOK
    <2>5. \A d \in Clients : Holds(d) => g # call[d].generation
      BY DEF GenerationsApart
    <2> QED
      BY <2>1, <2>2, <2>4, <2>5, FirewallSteps
  <1> QED
    BY <1>1, <1>2, <1>3, PTL DEF Spec, StaleStaysStale

-----------------------------------------------------------------------------
(* Rules *)

RulesAsMade == \A r \in DOMAIN made \cap DOMAIN rules : rules[r] = made[r]

\* The policies a push has collected are its firewall's for as long as they are there.
CollectedOwn ==
    \A c \in Clients : call[c].pc = "drop_rules" =>
        \A p \in call[c].ids \cap DOMAIN policies : policies[p] = call[c].firewall

RulesInv == RulesAsMade /\ CollectedOwn /\ VisibleRulesKept

\* Handlers that leave the three maps alone, or their firewalls only.
LEMMA RulesQuiet ==
    ASSUME TypeOK, RulesInv, NEW c \in Clients, NEW s, Becomes(c, s), s.pc # "drop_rules",
           call[c].pc # "drop_policies",
           policies' = policies, rules' = rules, made' = made
    PROVE  RulesInv'
  <1>1. \A d \in Clients : d # c => call'[d] = call[d]
    BY DEF TypeOK, Becomes
  <1>2. call'[c].pc # "drop_rules"
    BY DEF TypeOK, Becomes
  <1>3. RulesAsMade'
    BY DEF RulesInv, RulesAsMade
  <1>4. CollectedOwn'
    BY <1>1, <1>2 DEF RulesInv, CollectedOwn
  <1>5. VisibleRulesKept'
    BY <1>1 DEF RulesInv, VisibleRulesKept
  <1> QED
    BY <1>3, <1>4, <1>5 DEF RulesInv

\* A policy is added, that no rule has and no push has collected.
LEMMA RulesNewPolicy ==
    ASSUME TypeOK, RulesInv, NEW c \in Clients, NEW s, Becomes(c, s), s.pc # "drop_rules",
           call[c].pc # "drop_policies", NEW f,
           policies' = Put(policies, next_id, f), rules' = rules, made' = made
    PROVE  RulesInv'
  <1>1. \A d \in Clients : d # c => call'[d] = call[d]
    BY DEF TypeOK, Becomes
  <1>2. call'[c].pc # "drop_rules"
    BY DEF TypeOK, Becomes
  <1>3. next_id \notin Given
    BY DEF TypeOK, Given
  <1>4. /\ DOMAIN policies' = DOMAIN policies \cup {next_id}
        /\ \A p \in DOMAIN policies : policies'[p] = policies[p]
    BY <1>3 DEF Put, TypeOK
  <1>5. RulesAsMade'
    BY DEF RulesInv, RulesAsMade
  <1>6. CollectedOwn'
    <2> SUFFICES ASSUME NEW d \in Clients, call'[d].pc = "drop_rules",
                        NEW p \in call'[d].ids \cap DOMAIN policies'
                 PROVE  policies'[p] = call'[d].firewall
      BY DEF CollectedOwn
    <2>1. d # c /\ call'[d] = call[d]
      BY <1>1, <1>2
    <2>2. call[d].ids \in SUBSET Given
      BY <2>1, PushFields
    <2>3. p \in DOMAIN policies
      BY <1>3, <1>4, <2>1, <2>2
    <2> QED
      BY <1>4, <2>1, <2>3 DEF RulesInv, CollectedOwn
  <1>7. VisibleRulesKept'
    <2> SUFFICES ASSUME NEW r \in DOMAIN made, made[r] \in DOMAIN policies', r \notin DOMAIN rules
                 PROVE  \E d \in Clients :
                           call'[d].pc = "drop_policies" /\ call'[d].firewall = policies'[made[r]]
      BY DEF VisibleRulesKept
    <2>1. made[r] \in DOMAIN policies
      BY <1>3, <1>4 DEF TypeOK
    <2>2. PICK d \in Clients : call[d].pc = "drop_policies" /\ call[d].firewall = policies[made[r]]
      BY <2>1 DEF RulesInv, VisibleRulesKept
    <2> QED
      BY <1>1, <1>4, <2>1, <2>2
  <1> QED
    BY <1>5, <1>6, <1>7 DEF RulesInv

\* A rule is added.
LEMMA RulesNewRule ==
    ASSUME TypeOK, RulesInv, NEW c \in Clients, NEW s, Becomes(c, s), s.pc # "drop_rules",
           call[c].pc # "drop_policies", NEW p,
           rules' = Put(rules, next_id, p), made' = Put(made, next_id, p), policies' = policies
    PROVE  RulesInv'
  <1>1. \A d \in Clients : d # c => call'[d] = call[d]
    BY DEF TypeOK, Becomes
  <1>2. call'[c].pc # "drop_rules"
    BY DEF TypeOK, Becomes
  <1>3. next_id \notin Given
    BY DEF TypeOK, Given
  <1>4. /\ DOMAIN rules' = DOMAIN rules \cup {next_id} /\ rules'[next_id] = p
        /\ \A r \in DOMAIN rules : rules'[r] = rules[r]
    BY <1>3 DEF Put, TypeOK
  <1>5. /\ DOMAIN made' = DOMAIN made \cup {next_id} /\ made'[next_id] = p
        /\ \A r \in DOMAIN made : made'[r] = made[r]
    BY <1>3 DEF Put, TypeOK
  <1>6. DOMAIN rules \subseteq Given /\ DOMAIN made \subseteq Given
    BY DEF TypeOK
  <1>7. RulesAsMade'
    BY <1>3, <1>4, <1>5, <1>6 DEF RulesInv, RulesAsMade
  <1>8. CollectedOwn'
    BY <1>1, <1>2 DEF RulesInv, CollectedOwn
  <1>9. VisibleRulesKept'
    BY <1>1, <1>4, <1>5 DEF RulesInv, VisibleRulesKept
  <1> QED
    BY <1>7, <1>8, <1>9 DEF RulesInv

LEMMA NextRules ==
    ASSUME TypeOK, RulesInv, [Next]_vars
    PROVE  RulesInv'
  <1>1. CASE UNCHANGED vars
    BY <1>1 DEF vars, RulesInv, RulesAsMade, CollectedOwn, VisibleRulesKept
  <1>2. ASSUME UNCHANGED <<call, policies, rules, made>>
        PROVE  RulesInv'
    BY <1>2 DEF RulesInv, RulesAsMade, CollectedOwn, VisibleRulesKept
  <1>3. ASSUME NEW c \in Clients, create_firewall(c) \/ InsertFirewall(c)
        PROVE  RulesInv'
    BY <1>3, RulesQuiet DEF create_firewall, InsertFirewall, Idle
  <1>4. ASSUME NEW c \in Clients, update_firewall(c)
        PROVE  RulesInv'
    BY <1>2, <1>4 DEF update_firewall
  <1>5. ASSUME NEW c \in Clients, NEW f \in Ids, get_firewall(c, f) \/ delete_firewall(c, f)
        PROVE  RulesInv'
    BY <1>2, <1>5 DEF get_firewall, delete_firewall, store
  <1>6. ASSUME NEW c \in Clients, NEW i \in Ids, create_policy(c, i) \/ create_rule(c, i)
        PROVE  RulesInv'
    BY <1>6, RulesQuiet DEF create_policy, create_rule, store, Idle
  <1>7. ASSUME NEW c \in Clients, InsertPolicy(c)
        PROVE  RulesInv'
    BY <1>7, RulesNewPolicy DEF InsertPolicy, Idle
  <1>8. ASSUME NEW c \in Clients, InsertRule(c)
        PROVE  RulesInv'
    BY <1>8, RulesNewRule DEF InsertRule, Idle
  <1>9. ASSUME NEW c \in Clients, NEW r \in Ids, delete_rule(c, r)
        PROVE  RulesInv'
    BY <1>9 DEF delete_rule, Drop, RulesInv, RulesAsMade, CollectedOwn, VisibleRulesKept
  <1>10. ASSUME NEW c \in Clients, NEW d \in Desired, apply_desired_state(c, d)
         PROVE  RulesInv'
    BY <1>10, RulesQuiet DEF apply_desired_state, Push, store, Idle
  <1>11. ASSUME NEW c \in Clients, PushCollect(c)
         PROVE  RulesInv'
    <2>1. \A d \in Clients : d # c => call'[d] = call[d]
      BY <1>11 DEF PushCollect, Becomes, TypeOK
    <2>2. /\ call'[c].firewall = call[c].firewall /\ call'[c].ids = PoliciesOf(call[c].firewall)
          /\ call[c].pc = "collect" /\ policies' = policies /\ rules' = rules /\ made' = made
      BY <1>11 DEF PushCollect, Becomes, TypeOK, Push, store
    <2>3. CollectedOwn'
      BY <2>1, <2>2 DEF RulesInv, CollectedOwn, PoliciesOf
    <2>4. VisibleRulesKept'
      BY <2>1, <2>2 DEF RulesInv, VisibleRulesKept
    <2> QED
      BY <2>2, <2>3, <2>4 DEF RulesInv, RulesAsMade
  <1>12. ASSUME NEW c \in Clients, PushDropRules(c)
         PROVE  RulesInv'
    <2>1. \A d \in Clients : d # c => call'[d] = call[d]
      BY <1>12 DEF PushDropRules, Becomes, TypeOK
    <2>2. /\ call[c].pc = "drop_rules" /\ call'[c].pc = "drop_policies"
          /\ call'[c].firewall = call[c].firewall
          /\ policies' = policies /\ made' = made
      BY <1>12 DEF PushDropRules, Becomes, TypeOK, Push
    <2>3. /\ DOMAIN rules' = {r \in DOMAIN rules : rules[r] \notin call[c].ids}
          /\ \A r \in DOMAIN rules' : rules'[r] = rules[r]
      BY <1>12 DEF PushDropRules, RulesOf, Drop
    <2>4. RulesAsMade'
      BY <2>2, <2>3 DEF RulesInv, RulesAsMade
    <2>5. CollectedOwn'
      BY <2>1, <2>2 DEF RulesInv, CollectedOwn
    <2>6. VisibleRulesKept'
      <3> SUFFICES ASSUME NEW r \in DOMAIN made, made[r] \in DOMAIN policies, r \notin DOMAIN rules'
                   PROVE  \E d \in Clients :
                             call'[d].pc = "drop_policies" /\ call'[d].firewall = policies[made[r]]
        BY <2>2 DEF VisibleRulesKept
      <3>1. CASE r \notin DOMAIN rules
        BY <2>1, <2>2, <3>1 DEF RulesInv, VisibleRulesKept
      <3>2. CASE r \in DOMAIN rules
        <4>1. made[r] \in call[c].ids
          BY <2>3, <3>2 DEF RulesInv, RulesAsMade
        <4>2. policies[made[r]] = call[c].firewall
          BY <2>2, <4>1 DEF RulesInv, CollectedOwn
        <4> QED
          BY <2>2, <4>2
      <3> QED
        BY <3>1, <3>2
    <2> QED
      BY <2>4, <2>5, <2>6 DEF RulesInv
  <1>13. ASSUME NEW c \in Clients, PushDropPolicies(c)
         PROVE  RulesInv'
    <2>1. \A d \in Clients : d # c => call'[d] = call[d]
      BY <1>13 DEF PushDropPolicies, Becomes, TypeOK
    <2>2. call'[c].pc = "policies" /\ rules' = rules /\ made' = made
      BY <1>13 DEF PushDropPolicies, Becomes, TypeOK, Push
    <2>3. /\ DOMAIN policies' = {p \in DOMAIN policies : policies[p] # call[c].firewall}
          /\ \A p \in DOMAIN policies' : policies'[p] = policies[p]
      BY <1>13 DEF PushDropPolicies, PoliciesOf, Drop
    <2>4. CollectedOwn'
      BY <2>1, <2>2, <2>3 DEF RulesInv, CollectedOwn
    <2>5. VisibleRulesKept'
      BY <2>1, <2>2, <2>3 DEF RulesInv, VisibleRulesKept
    <2> QED
      BY <2>2, <2>4, <2>5 DEF RulesInv, RulesAsMade
  <1>14. ASSUME NEW c \in Clients, NEW i \in Index, PushPolicy(c, i)
         PROVE  RulesInv'
    BY <1>14, RulesNewPolicy DEF PushPolicy
  <1>15. ASSUME NEW c \in Clients, PushRule(c)
         PROVE  RulesInv'
    BY <1>15, RulesNewRule DEF PushRule
  <1>16. ASSUME NEW c \in Clients, PushNext(c) \/ PushGeneration(c) \/ PushPublish(c)
         PROVE  RulesInv'
    BY <1>16, RulesQuiet DEF PushNext, PushGeneration, PushPublish, Push, Idle, store
  <1> QED
    BY <1>1, <1>3, <1>4, <1>5, <1>6, <1>7, <1>8, <1>9, <1>10, <1>11, <1>12, <1>13, <1>14,
       <1>15, <1>16 DEF Next, PushStep

\* A rule that nobody has deleted is there while its policy is, outside the gap between
\* the two removals of apply_desired_state, however many pushes overlap.
THEOREM RulesStayVisible == Spec => []VisibleRulesKept
  <1>1. Init => TypeOK /\ RulesInv
    <2>1. Init => RulesInv
      <3> SUFFICES ASSUME Init PROVE RulesInv
        OBVIOUS
      <3>1. DOMAIN made = {} /\ \A c \in Clients : call[c].pc = "idle"
        BY DEF Init, Idle
      <3> QED
        BY <3>1 DEF RulesInv, RulesAsMade, CollectedOwn, VisibleRulesKept
    <2> QED
      BY <2>1, InitTypeOK
  <1>2. TypeOK /\ RulesInv /\ [Next]_vars => (TypeOK /\ RulesInv)'
    BY NextTypeOK, NextRules
  <1>3. RulesInv => VisibleRulesKept
    BY DEF RulesInv
  <1> QED
    BY <1>1, <1>2, <1>3, PTL DEF Spec
================================================================================
