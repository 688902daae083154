--------------------------- MODULE SNATStateProofs ---------------------------
(***************************************************************************)
(* Proofs about SNATState for every pool, every set of public addresses    *)
(* and connections, and every timeout.                                     *)
(***************************************************************************)
EXTENDS SNATState, FiniteSetTheorems, WellFoundedInduction, TLAPS

\* What TypeOK lacks to be enough for a step: the tables agree, and a sweep
\* never works with a clock value from the future.
PoolInv ==
    /\ TypeOK
    /\ TablesAgree
    /\ sweep_now <= clock
    /\ sweep_now # NoSweep => Sweeping

\* The pool is an interval of naturals with pool_size elements.
LEMMA PoolFacts ==
    /\ pool_size \in Nat \ {0}
    /\ EffectiveMax \in Nat
    /\ EffectiveMax = PORT_MIN + pool_size - 1
    /\ PORT_MIN \in Nat
    /\ Pool \subseteq Nat
    /\ PORT_MIN \in Pool
    /\ \A p \in Pool : PORT_MIN <= p /\ p <= EffectiveMax
    /\ IsFiniteSet(Pool)
    /\ Cardinality(Pool) = pool_size
  <1>1. pool_size \in Nat \ {0}
    BY PortAssumption DEF pool_size, DEFAULT_POOL_SIZE
  <1>2. /\ EffectiveMax \in Nat
        /\ EffectiveMax = PORT_MIN + pool_size - 1
        /\ PORT_MIN \in Nat
        /\ PORT_MIN <= EffectiveMax
    BY <1>1, PortAssumption DEF EffectiveMax
  <1>3. IsFiniteSet(Pool) /\ Cardinality(Pool) = pool_size
    BY <1>1, <1>2, FS_Interval DEF Pool
  <1> QED
    BY <1>1, <1>2, <1>3 DEF Pool

\* Min of a non-empty set of naturals is its least element.
LEMMA MinFacts ==
    ASSUME NEW S \in SUBSET Nat, S # {}
    PROVE  Min(S) \in S /\ \A y \in S : Min(S) <= y
  <1> DEFINE Less == {ss \in Nat \X Nat : ss[1] < ss[2]}
  <1>1. IsWellFoundedOn(Less, Nat)
    BY NatLessThanWellFounded, Zenon DEF OpToRel
  <1> HIDE DEF Less
  <1>2. PICK x \in S : \A y \in S : ~(<<y, x>> \in Less)
    BY <1>1, WFMin, Zenon
  <1>3. ASSUME NEW y \in S, y < x PROVE FALSE
    <2>1. <<y, x>> \in Less
      BY <1>3 DEF Less
    <2> QED
      BY <2>1, <1>2
  <1>4. \A y \in S : x <= y
    BY <1>3
  <1> QED
    BY <1>4 DEF Min

\* A search that returns a port returns a free port of the pool.
LEMMA FoundIsFree ==
    ASSUME PoolInv, NEW ip \in PublicIPs, find_available_port(ip) # None
    PROVE  find_available_port(ip) \in Pool \ allocated[ip]
  <1>1. next_port[ip] \in Pool
    BY DEF PoolInv, TypeOK
  <1>2. FreeFromHint(ip) \subseteq Pool \ allocated[ip]
    BY <1>1, PoolFacts DEF FreeFromHint, Pool
  <1>3. FreeBelowHint(ip) \subseteq Pool \ allocated[ip]
    BY <1>1, PoolFacts DEF FreeBelowHint, Pool
  <1>4. FreeFromHint(ip) \in SUBSET Nat /\ FreeBelowHint(ip) \in SUBSET Nat
    BY <1>2, <1>3, PoolFacts
  <1> QED
    BY <1>2, <1>3, <1>4, MinFacts DEF find_available_port

\* The hint stays inside the pool.
LEMMA NextHintInPool ==
    ASSUME NEW p \in Pool
    PROVE  NextHint(p) \in Pool
  BY PoolFacts DEF NextHint, Pool

\* The branch of allocate_port commented "Should not happen if exhaustion check
\* passed" does not happen: a pool with a free port is searched successfully.
LEMMA SearchSucceeds ==
    PoolInv => SearchFindsPort
  <1> SUFFICES ASSUME PoolInv, NEW ip \in PublicIPs, ~is_exhausted(ip)
               PROVE  find_available_port(ip) \in Pool \ allocated[ip]
    BY DEF SearchFindsPort
  <1>1. next_port[ip] \in Pool /\ allocated[ip] \in SUBSET Pool
    BY DEF PoolInv, TypeOK
  <1>2. allocated[ip] # Pool
    <2>1. Cardinality(allocated[ip]) \in Nat
      BY <1>1, PoolFacts, FS_Subset, FS_CardinalityType
    <2> QED
      BY <2>1, PoolFacts DEF is_exhausted
  <1>3. PICK p \in Pool : p \notin allocated[ip]
    BY <1>1, <1>2
  <1>4. p \in FreeFromHint(ip) \/ p \in FreeBelowHint(ip)
    BY <1>1, <1>3, PoolFacts DEF FreeFromHint, FreeBelowHint, Pool
  <1>5. find_available_port(ip) # None
    <2>1. FreeFromHint(ip) \in SUBSET Nat /\ FreeBelowHint(ip) \in SUBSET Nat
      BY <1>1, PoolFacts DEF FreeFromHint, FreeBelowHint, Pool
    <2> QED
      BY <1>4, <2>1, MinFacts DEF find_available_port, None
  <1> QED
    BY <1>5, FoundIsFree

LEMMA InitPoolInv == Init => PoolInv
  <1> SUFFICES ASSUME Init PROVE PoolInv
    OBVIOUS
  <1>1. TypeOK
    BY PoolFacts, TimeAssumption DEF Init, TypeOK, NoSweep
  <1>2. TablesAgree
    BY DEF Init, TablesAgree
  <1> QED
    BY <1>1, <1>2 DEF Init, PoolInv, NoSweep

\* allocate_port keeps the pool's bookkeeping intact.
LEMMA ConnectPoolInv ==
    ASSUME PoolInv, NEW ip \in PublicIPs, NEW c \in Connections,
           NEW t \in Timeouts, Connect(ip, c, t)
    PROVE  PoolInv'
  <1> DEFINE port == find_available_port(ip)
             a == [ip |-> ip, port |-> port, conn |-> c,
                   allocated_at |-> clock, timeout |-> t]
  <1>1. port \in Pool \ allocated[ip]
    BY FoundIsFree DEF Connect, allocate_port
  <1>2. /\ allocated' = [allocated EXCEPT ![ip] = @ \cup {port}]
        /\ allocations' = [allocations EXCEPT ![ip] = Put(@, port, a)]
        /\ next_port' = [next_port EXCEPT ![ip] = NextHint(port)]
        /\ grants' = grants \cup {a}
        /\ clock' = clock /\ sweep_now' = sweep_now
    BY DEF Connect, allocate_port
  <1> HIDE DEF port
  <1>3. a \in PortAllocation
    BY <1>1, TimeAssumption DEF PortAllocation, PoolInv, TypeOK
  <1>4. NextHint(port) \in Pool
    BY <1>1, NextHintInPool
  <1> HIDE DEF a
  <1>5. \A i \in PublicIPs \ {ip} : allocations'[i] = allocations[i]
    BY <1>2 DEF PoolInv, TypeOK
  <1>6. allocations'[ip] = Put(allocations[ip], port, a) /\ DOMAIN allocations' = PublicIPs
    BY <1>2 DEF PoolInv, TypeOK
  <1>7. /\ DOMAIN allocations'[ip] = allocated[ip] \cup {port}
        /\ allocations'[ip][port] = a
        /\ \A p \in allocated[ip] : allocations'[ip][p] = allocations[ip][p]
    BY <1>1, <1>6 DEF Put, PoolInv, TablesAgree
  <1>8. TypeOK'
    <2>1. allocated' \in [PublicIPs -> SUBSET Pool]
      BY <1>1, <1>2 DEF PoolInv, TypeOK
    <2>2. \A i \in PublicIPs :
             /\ DOMAIN allocations'[i] \subseteq Pool
             /\ \A p \in DOMAIN allocations'[i] : allocations'[i][p] \in PortAllocation
      BY <1>1, <1>3, <1>5, <1>7 DEF PoolInv, TypeOK, TablesAgree
    <2>3. next_port' \in [PublicIPs -> Pool]
      BY <1>2, <1>4 DEF PoolInv, TypeOK
    <2> QED
      BY <2>1, <2>2, <2>3, <1>2, <1>3, <1>6 DEF PoolInv, TypeOK
  <1>9. TablesAgree'
    <2>1. a.ip = ip /\ a.port = port
      BY DEF a
    <2>2. /\ \A i \in PublicIPs \ {ip} : allocated'[i] = allocated[i]
          /\ allocated'[ip] = allocated[ip] \cup {port}
      BY <1>2 DEF PoolInv, TypeOK
    <2>3. \A i \in PublicIPs : DOMAIN allocations'[i] = allocated'[i]
      BY <2>2, <1>5, <1>7 DEF PoolInv, TablesAgree
    <2>4. ASSUME NEW i \in PublicIPs, NEW p \in allocated'[i]
          PROVE  allocations'[i][p].ip = i /\ allocations'[i][p].port = p
      <3>1. CASE i # ip
        BY <3>1, <2>2, <1>5 DEF PoolInv, TablesAgree
      <3>2. CASE i = ip /\ p = port
        BY <3>2, <2>1, <1>7
      <3>3. CASE i = ip /\ p \in allocated[ip]
        BY <3>3, <1>7 DEF PoolInv, TablesAgree
      <3> QED
        BY <3>1, <3>2, <3>3, <2>2
    <2> QED
      BY <2>3, <2>4 DEF TablesAgree
  <1> QED
    BY <1>2, <1>8, <1>9 DEF PoolInv

\* release_port keeps it intact, whoever's allocation it frees.
LEMMA DisconnectPoolInv ==
    ASSUME PoolInv, NEW g \in grants, Disconnect(g)
    PROVE  PoolInv'
  <1>1. g \in PortAllocation /\ g.ip \in PublicIPs
    BY DEF PoolInv, TypeOK, PortAllocation
  <1>2. /\ allocated' = [allocated EXCEPT ![g.ip] = @ \ {g.port}]
        /\ allocations' = [allocations EXCEPT ![g.ip] = Drop(@, {g.port})]
        /\ next_port' = next_port
        /\ grants' = grants \ {g}
        /\ clock' = clock /\ sweep_now' = sweep_now
    BY DEF Disconnect, release_port
  <1>3. DOMAIN allocations' = PublicIPs /\ \A i \in PublicIPs \ {g.ip} : allocations'[i] = allocations[i]
    BY <1>2 DEF PoolInv, TypeOK
  <1>4. /\ DOMAIN allocations'[g.ip] = allocated[g.ip] \ {g.port}
        /\ \A p \in allocated[g.ip] \ {g.port} : allocations'[g.ip][p] = allocations[g.ip][p]
    BY <1>1, <1>2 DEF Drop, PoolInv, TypeOK, TablesAgree
  <1>5. /\ \A i \in PublicIPs \ {g.ip} : allocated'[i] = allocated[i]
        /\ allocated'[g.ip] = allocated[g.ip] \ {g.port}
        /\ allocated' \in [PublicIPs -> SUBSET Pool]
    BY <1>1, <1>2 DEF PoolInv, TypeOK
  <1>6. \A i \in PublicIPs :
           /\ DOMAIN allocations'[i] = allocated'[i]
           /\ allocated'[i] \subseteq allocated[i]
           /\ \A p \in allocated'[i] : allocations'[i][p] = allocations[i][p]
    BY <1>3, <1>4, <1>5 DEF PoolInv, TablesAgree
  <1>7. TypeOK'
    <2>1. \A i \in PublicIPs :
             /\ DOMAIN allocations'[i] \subseteq Pool
             /\ \A p \in DOMAIN allocations'[i] : allocations'[i][p] \in PortAllocation
      BY <1>6 DEF PoolInv, TypeOK, TablesAgree
    <2> QED
      BY <1>2, <1>3, <1>5, <2>1 DEF PoolInv, TypeOK
  <1>8. TablesAgree'
    BY <1>6, Zenon DEF PoolInv, TablesAgree
  <1> QED
    BY <1>2, <1>7, <1>8 DEF PoolInv

\* A sweep keeps it intact.
LEMMA SweepPoolInv ==
    ASSUME PoolInv, release_expired
    PROVE  PoolInv'
  <1>1. /\ allocated' = [i \in PublicIPs |-> allocated[i] \ ExpiredPorts(i, sweep_now)]
        /\ allocations' = [i \in PublicIPs |-> Drop(allocations[i], ExpiredPorts(i, sweep_now))]
        /\ next_port' = next_port /\ grants' = grants
        /\ clock' = clock /\ sweep_now' = NoSweep
    BY DEF release_expired
  <1>2. \A i \in PublicIPs :
           /\ allocated'[i] = allocated[i] \ ExpiredPorts(i, sweep_now)
           /\ DOMAIN allocations'[i] = allocated[i] \ ExpiredPorts(i, sweep_now)
           /\ \A p \in DOMAIN allocations'[i] : allocations'[i][p] = allocations[i][p]
    BY <1>1 DEF Drop, PoolInv, TablesAgree
  <1>3. TypeOK'
    <2>1. allocated' \in [PublicIPs -> SUBSET Pool]
      BY <1>1 DEF PoolInv, TypeOK
    <2>2. \A i \in PublicIPs :
             /\ DOMAIN allocations'[i] \subseteq Pool
             /\ \A p \in DOMAIN allocations'[i] : allocations'[i][p] \in PortAllocation
      BY <1>2 DEF PoolInv, TypeOK, TablesAgree
    <2>3. DOMAIN allocations' = PublicIPs
      BY <1>1
    <2> QED
      BY <1>1, <2>1, <2>2, <2>3 DEF PoolInv, TypeOK
  <1>4. TablesAgree'
    <2>1. \A i \in PublicIPs :
             /\ DOMAIN allocations'[i] = allocated'[i]
             /\ allocated'[i] \subseteq allocated[i]
             /\ \A p \in allocated'[i] : allocations'[i][p] = allocations[i][p]
      BY <1>2
    <2>2. ASSUME NEW i \in PublicIPs, NEW p \in allocated'[i]
          PROVE  allocations'[i][p].ip = i /\ allocations'[i][p].port = p
      BY <2>1 DEF PoolInv, TablesAgree
    <2> QED
      BY <2>1, <2>2 DEF TablesAgree
  <1> QED
    BY <1>1, <1>3, <1>4 DEF PoolInv, TypeOK, NoSweep

LEMMA NextPoolInv ==
    ASSUME PoolInv, [Next]_vars
    PROVE  PoolInv'
  <1>1. ASSUME NEW ip \in PublicIPs, NEW c \in Connections, NEW t \in Timeouts,
               Connect(ip, c, t)
        PROVE  PoolInv'
    BY <1>1, ConnectPoolInv
  <1>2. ASSUME NEW g \in grants, Disconnect(g)
        PROVE  PoolInv'
    BY <1>2, DisconnectPoolInv
  <1>3. ASSUME NEW g \in grants, Abandon(g)
        PROVE  PoolInv'
    BY <1>3 DEF Abandon, PoolInv, TypeOK, TablesAgree
  <1>4. CASE release_expired_Read
    BY <1>4 DEF release_expired_Read, PoolInv, TypeOK, TablesAgree
  <1>5. CASE release_expired
    BY <1>5, SweepPoolInv
  <1>6. CASE Tick
    <2>1. clock' \in 0..MaxTime /\ sweep_now' <= clock'
      BY <1>6, TimeAssumption DEF Tick, PoolInv, TypeOK, NoSweep
    <2> QED
      BY <1>6, <2>1 DEF Tick, PoolInv, TypeOK, TablesAgree
  <1>7. CASE UNCHANGED vars
    BY <1>7 DEF vars, PoolInv, TypeOK, TablesAgree
  <1> QED
    BY <1>1, <1>2, <1>3, <1>4, <1>5, <1>6, <1>7 DEF Next

\* The pool's bookkeeping is right in every reachable state.
THEOREM PoolCorrect == Spec => []PoolInv
  <1>1. Init => PoolInv
    BY InitPoolInv
  <1>2. PoolInv /\ [Next]_vars => PoolInv'
    BY NextPoolInv
  <1> QED
    BY <1>1, <1>2, PTL DEF Spec

\* Every variable stays in its type; in particular no port outside the
\* configured pool is ever handed out or hinted at.
THEOREM TypeCorrect == Spec => []TypeOK
  <1>1. PoolInv => TypeOK
    BY DEF PoolInv
  <1> QED
    BY <1>1, PoolCorrect, PTL

\* `_allocated` and `_allocations` never drift apart.
THEOREM TablesAlwaysAgree == Spec => []TablesAgree
  <1>1. PoolInv => TablesAgree
    BY DEF PoolInv
  <1> QED
    BY <1>1, PoolCorrect, PTL

\* The "should not happen" branch of allocate_port is unreachable for every
\* pool size and every history of allocations and releases.
THEOREM SearchAlwaysFindsPort == Spec => []SearchFindsPort
  BY PoolCorrect, SearchSucceeds, PTL

-----------------------------------------------------------------------------
(* Uniqueness *)

\* The inductive strengthening of UniqueLivePort.  Without a sweep nothing but
\* its own connection frees an allocation, so even timed-out connections stay
\* recorded; with one, only the live ones do.
OwnerInv ==
    \A g \in grants :
        (Live(g) \/ ~Sweeping) =>
            /\ g.port \in DOMAIN allocations[g.ip]
            /\ allocations[g.ip][g.port] = g

\* An allocation that has not expired now had not expired earlier.
LEMMA ExpiryMonotone ==
    ASSUME NEW a \in PortAllocation, NEW s \in Int, NEW u \in Int, s <= u, Expired(a, s)
    PROVE  Expired(a, u)
  <1>1. a.allocated_at \in Nat /\ a.timeout \in Nat
    BY TimeAssumption DEF PortAllocation
  <1>2. s - a.allocated_at >= a.timeout
    BY DEF Expired
  <1>3. u - a.allocated_at >= a.timeout
    BY <1>1, <1>2
  <1> QED
    BY <1>3 DEF Expired

LEMMA ConnectOwnerInv ==
    ASSUME PoolInv, OwnerInv, NEW ip \in PublicIPs, NEW c \in Connections,
           NEW t \in Timeouts, Connect(ip, c, t)
    PROVE  OwnerInv'
  <1> DEFINE port == find_available_port(ip)
             a == [ip |-> ip, port |-> port, conn |-> c,
                   allocated_at |-> clock, timeout |-> t]
  <1>1. port \in Pool \ allocated[ip]
    BY FoundIsFree DEF Connect, allocate_port
  <1>2. /\ allocations' = [allocations EXCEPT ![ip] = Put(@, port, a)]
        /\ grants' = grants \cup {a}
        /\ clock' = clock
    BY DEF Connect, allocate_port
  <1>3. a.ip = ip /\ a.port = port
    OBVIOUS
  <1> HIDE DEF port, a
  <1>4. /\ DOMAIN allocations'[ip] = allocated[ip] \cup {port}
        /\ allocations'[ip][port] = a
        /\ \A p \in allocated[ip] : allocations'[ip][p] = allocations[ip][p]
        /\ \A i \in PublicIPs \ {ip} : allocations'[i] = allocations[i]
    BY <1>1, <1>2 DEF Put, PoolInv, TypeOK, TablesAgree
  <1>5. ASSUME NEW g \in grants, (Live(g) \/ ~Sweeping)'
        PROVE  g.port \in DOMAIN allocations'[g.ip] /\ allocations'[g.ip][g.port] = g
    <2>1. Live(g) \/ ~Sweeping
      BY <1>2, <1>5 DEF Live
    <2>2. g.ip \in PublicIPs
      BY DEF PoolInv, TypeOK, PortAllocation
    <2>3. g.port \in DOMAIN allocations[g.ip] /\ allocations[g.ip][g.port] = g
      BY <2>1 DEF OwnerInv
    <2> QED
      BY <1>4, <2>2, <2>3 DEF PoolInv, TablesAgree
  <1> QED
    BY <1>2, <1>3, <1>4, <1>5 DEF OwnerInv

\* Unless sweeps and late releases are combined, a connection that releases
\* its port frees its own allocation and nobody else's.
LEMMA DisconnectOwnerInv ==
    ASSUME PoolInv, OwnerInv, ~(Sweeping /\ LateRelease), NEW g \in grants, Disconnect(g)
    PROVE  OwnerInv'
  <1>1. /\ allocations' = [allocations EXCEPT ![g.ip] = Drop(@, {g.port})]
        /\ grants' = grants \ {g}
        /\ clock' = clock
    BY DEF Disconnect, release_port
  <1>2. Live(g) \/ ~Sweeping
    BY TimeAssumption DEF Disconnect, Live
  <1>3. allocations[g.ip][g.port] = g
    BY <1>2 DEF OwnerInv
  <1>4. ASSUME NEW h \in grants, h # g, (Live(h) \/ ~Sweeping)'
        PROVE  h.port \in DOMAIN allocations'[h.ip] /\ allocations'[h.ip][h.port] = h
    <2>1. Live(h) \/ ~Sweeping
      BY <1>1, <1>4 DEF Live
    <2>2. g.ip \in PublicIPs /\ h.ip \in PublicIPs
      BY DEF PoolInv, TypeOK, PortAllocation
    <2>3. h.port \in DOMAIN allocations[h.ip] /\ allocations[h.ip][h.port] = h
      BY <2>1 DEF OwnerInv
    <2>4. ~(h.ip = g.ip /\ h.port = g.port)
      BY <1>3, <1>4, <2>3
    <2>5. CASE h.ip # g.ip
      BY <1>1, <2>2, <2>3, <2>5 DEF PoolInv, TypeOK
    <2>6. CASE h.ip = g.ip /\ h.port # g.port
      <3>1. allocations'[g.ip] = Drop(allocations[g.ip], {g.port})
        BY <1>1, <2>2 DEF PoolInv, TypeOK
      <3> QED
        BY <2>3, <2>6, <3>1 DEF Drop
    <2> QED
      BY <2>4, <2>5, <2>6
  <1> QED
    BY <1>1, <1>4 DEF OwnerInv

LEMMA SweepOwnerInv ==
    ASSUME PoolInv, OwnerInv, release_expired
    PROVE  OwnerInv'
  <1>1. /\ allocations' = [i \in PublicIPs |-> Drop(allocations[i], ExpiredPorts(i, sweep_now))]
        /\ grants' = grants /\ clock' = clock
    BY DEF release_expired
  <1>2. Sweeping /\ sweep_now \in Int /\ clock \in Int /\ sweep_now <= clock
    BY TimeAssumption DEF release_expired, PoolInv, TypeOK
  <1>3. ASSUME NEW g \in grants, Live(g)
        PROVE  g.port \in DOMAIN allocations'[g.ip] /\ allocations'[g.ip][g.port] = g
    <2>1. g \in PortAllocation /\ g.ip \in PublicIPs
      BY DEF PoolInv, TypeOK, PortAllocation
    <2>2. g.port \in DOMAIN allocations[g.ip] /\ allocations[g.ip][g.port] = g
      BY <1>3 DEF OwnerInv
    <2>3. ~Expired(g, sweep_now)
      BY <1>2, <1>3, <2>1, ExpiryMonotone DEF Live
    <2>4. g.port \notin ExpiredPorts(g.ip, sweep_now)
      BY <2>2, <2>3 DEF ExpiredPorts
    <2> QED
      BY <1>1, <2>1, <2>2, <2>4 DEF Drop
  <1>4. \A g \in grants : Live(g)' <=> Live(g)
    BY <1>1 DEF Live
  <1> QED
    BY <1>1, <1>2, <1>3, <1>4 DEF OwnerInv

LEMMA TickOwnerInv ==
    ASSUME PoolInv, OwnerInv, Tick
    PROVE  OwnerInv'
  <1>1. clock \in Int /\ clock' \in Int /\ clock <= clock'
    BY TimeAssumption DEF Tick, PoolInv, TypeOK
  <1>2. \A g \in grants : Live(g)' => Live(g)
    BY <1>1, ExpiryMonotone DEF PoolInv, TypeOK, Live
  <1> QED
    BY <1>2 DEF Tick, OwnerInv

LEMMA NextOwnerInv ==
    ASSUME PoolInv, OwnerInv, ~(Sweeping /\ LateRelease), [Next]_vars
    PROVE  OwnerInv'
  <1>1. ASSUME NEW ip \in PublicIPs, NEW c \in Connections, NEW t \in Timeouts,
               Connect(ip, c, t)
        PROVE  OwnerInv'
    BY <1>1, ConnectOwnerInv
  <1>2. ASSUME NEW g \in grants, Disconnect(g)
        PROVE  OwnerInv'
    BY <1>2, DisconnectOwnerInv
  <1>3. ASSUME NEW g \in grants, Abandon(g)
        PROVE  OwnerInv'
    BY <1>3 DEF Abandon, OwnerInv, Live
  <1>4. CASE release_expired_Read
    BY <1>4 DEF release_expired_Read, OwnerInv, Live
  <1>5. CASE release_expired
    BY <1>5, SweepOwnerInv
  <1>6. CASE Tick
    BY <1>6, TickOwnerInv
  <1>7. CASE UNCHANGED vars
    BY <1>7 DEF vars, OwnerInv, Live
  <1> QED
    BY <1>1, <1>2, <1>3, <1>4, <1>5, <1>6, <1>7 DEF Next

\* Unless expired ports are swept AND connections release them afterwards, no two
\* live connections share a source port: for every pool, timeout and history.
THEOREM LivePortsUnique ==
    ASSUME ~(Sweeping /\ LateRelease)
    PROVE  Spec => []UniqueLivePort
  <1>1. Init => OwnerInv
    BY DEF Init, OwnerInv
  <1>2. PoolInv /\ OwnerInv /\ [Next]_vars => OwnerInv'
    BY NextOwnerInv
  <1>3. OwnerInv => UniqueLivePort
    BY DEF OwnerInv, UniqueLivePort
  <1> QED
    BY <1>1, <1>2, <1>3, PoolCorrect, PTL DEF Spec

-----------------------------------------------------------------------------
(* The pool implements exclusive leases *)

Leased == {g \in grants : Live(g)}

\* A grant is valid in the abstract sense exactly while it is live.
LEMMA ValidIsLive ==
    ASSUME NEW g \in PortAllocation, NEW u \in Int
    PROVE  LeaseView!Valid(g, u) <=> ~Expired(g, u)
  <1>1. g.allocated_at \in Nat /\ g.timeout \in Nat
    BY TimeAssumption DEF PortAllocation
  <1> QED
    BY <1>1 DEF LeaseView!Valid, Expired

\* The callers' view after a step that changes neither grants nor the clock.
LEMMA SameView ==
    ASSUME grants' = grants, clock' = clock
    PROVE  UNCHANGED LeaseView!vars
  BY DEF LeaseView!vars, Live

\* allocate_port grants a lease on a port that no live connection holds; with a
\* timeout of zero it is over at once, and nothing is seen.
LEMMA ConnectGrants ==
    ASSUME PoolInv, OwnerInv, NEW ip \in PublicIPs, NEW c \in Connections,
           NEW t \in Timeouts, Connect(ip, c, t)
    PROVE  [LeaseView!Next]_LeaseView!vars
  <1> DEFINE port == find_available_port(ip)
             a == [ip |-> ip, port |-> port, conn |-> c,
                   allocated_at |-> clock, timeout |-> t]
  <1>1. port \in Pool \ allocated[ip]
    BY FoundIsFree DEF Connect, allocate_port
  <1>2. grants' = grants \cup {a} /\ clock' = clock
    BY DEF Connect, allocate_port
  <1>3. clock \in Nat
    BY TimeAssumption DEF PoolInv, TypeOK
  <1>4. a \in PortAllocation
    BY <1>1, <1>3 DEF PortAllocation
  <1>5. \A m \in Leased : (m.ip # ip \/ m.port # port) /\ m.conn # c
    <2>1. \A m \in Leased : m.conn # c
      BY DEF Leased, Connect
    <2>2. \A m \in Leased : m.port \in DOMAIN allocations[m.ip]
      BY DEF Leased, OwnerInv
    <2>3. DOMAIN allocations[ip] = allocated[ip]
      BY DEF PoolInv, TablesAgree
    <2> QED
      BY <1>1, <2>1, <2>2, <2>3
  <1>6. CASE Live(a)
    <2>1. LeaseView!Valid(a, clock)
      BY <1>3, <1>4, <1>6, ValidIsLive DEF Live
    <2>2. Leased' = Leased \cup {a}
      BY <1>2, <1>6 DEF Leased, Live
    <2>3. LeaseView!Grant(ip, port, c, t)
      BY <1>2, <1>5, <2>1, <2>2 DEF LeaseView!Grant, Leased
    <2> QED
      BY <1>1, <2>3 DEF LeaseView!Next
  <1>7. CASE ~Live(a)
    <2>1. Leased' = Leased
      BY <1>2, <1>7 DEF Leased, Live
    <2> QED
      BY <1>2, <2>1 DEF LeaseView!vars, Leased
  <1> QED
    BY <1>6, <1>7

\* A connection that ends, told or untold, gives up its own lease only.
LEMMA EndGivesUp ==
    ASSUME NEW g \in grants, grants' = grants \ {g}, clock' = clock
    PROVE  [LeaseView!Next]_LeaseView!vars
  <1>1. CASE Live(g)
    <2>1. Leased' = Leased \ {g} /\ g \in Leased
      BY <1>1 DEF Leased, Live
    <2>2. LeaseView!GiveUp(g)
      BY <2>1 DEF LeaseView!GiveUp, Leased
    <2> QED
      BY <2>1, <2>2 DEF LeaseView!Next, Leased
  <1>2. CASE ~Live(g)
    <2>1. Leased' = Leased
      BY <1>2 DEF Leased, Live
    <2> QED
      BY <2>1 DEF LeaseView!vars, Leased
  <1> QED
    BY <1>1, <1>2

\* The clock ends the leases whose time is over.
LEMMA TickAdvances ==
    ASSUME PoolInv, Tick
    PROVE  LeaseView!Next
  <1>1. clock \in Nat /\ clock' = clock + 1 /\ clock' \in Int /\ grants' = grants
    BY TimeAssumption DEF Tick, PoolInv, TypeOK
  <1>2. \A g \in grants : g \in PortAllocation
    BY DEF PoolInv, TypeOK
  <1>3. \A g \in grants : LeaseView!Valid(g, clock') <=> ~Expired(g, clock')
    BY <1>1, <1>2, ValidIsLive
  <1>4. \A g \in grants : ~Expired(g, clock') => ~Expired(g, clock)
    BY <1>1, <1>2, ExpiryMonotone
  <1>5. Leased' = {g \in Leased : LeaseView!Valid(g, clock')}
    BY <1>1, <1>3, <1>4 DEF Leased, Live
  <1>6. LeaseView!Advance
    BY <1>1, <1>5 DEF LeaseView!Advance, Leased
  <1> QED
    BY <1>6 DEF LeaseView!Next

\* Every step of the pool is a step of the lease service or is not seen.
LEMMA StepSimulates ==
    ASSUME PoolInv, OwnerInv, [Next]_vars
    PROVE  [LeaseView!Next]_LeaseView!vars
  <1>1. ASSUME NEW ip \in PublicIPs, NEW c \in Connections, NEW t \in Timeouts,
               Connect(ip, c, t)
        PROVE  [LeaseView!Next]_LeaseView!vars
    BY <1>1, ConnectGrants
  <1>2. ASSUME NEW g \in grants, Disconnect(g) \/ Abandon(g)
        PROVE  [LeaseView!Next]_LeaseView!vars
    <2>1. grants' = grants \ {g} /\ clock' = clock
      BY <1>2 DEF Disconnect, Abandon
    <2> QED
      BY <2>1, EndGivesUp
  <1>3. CASE release_expired_Read \/ release_expired
    <2>1. grants' = grants /\ clock' = clock
      BY <1>3 DEF release_expired_Read, release_expired
    <2> QED
      BY <2>1, SameView
  <1>4. CASE Tick
    BY <1>4, TickAdvances
  <1>5. CASE UNCHANGED vars
    <2>1. grants' = grants /\ clock' = clock
      BY <1>5 DEF vars
    <2> QED
      BY <2>1, SameView
  <1> QED
    BY <1>1, <1>2, <1>3, <1>4, <1>5 DEF Next

\* Unless sweeps and late releases come together, the pool with its tables, hint and
\* sweeps implements exclusive leases, for every pool, timeout and history.
THEOREM PoolImplementsLease ==
    ASSUME ~(Sweeping /\ LateRelease)
    PROVE  Spec => ImplementsLease
  <1>1. Init => LeaseView!Init
    BY DEF Init, LeaseView!Init
  <1>2. Init => OwnerInv
    BY DEF Init, OwnerInv
  <1>3. PoolInv /\ OwnerInv /\ [Next]_vars => OwnerInv'
    BY NextOwnerInv
  <1>4. PoolInv /\ OwnerInv /\ [Next]_vars => [LeaseView!Next]_LeaseView!vars
    BY StepSimulates
  <1> QED
    BY <1>1, <1>2, <1>3, <1>4, PoolCorrect, PTL DEF Spec, ImplementsLease, LeaseView!Spec

-----------------------------------------------------------------------------
(* Sweeps *)

\* What a step frees without a connection giving anything back.
FreesOnlyExpired ==
    grants' = grants =>
        \A ip \in PublicIPs : \A p \in allocated[ip] \ allocated'[ip] :
            Expired(allocations[ip][p], clock)

LEMMA SweepFreesOnlyExpired ==
    ASSUME PoolInv, release_expired
    PROVE  FreesOnlyExpired
  <1> SUFFICES ASSUME NEW ip \in PublicIPs, NEW p \in allocated[ip] \ allocated'[ip]
               PROVE  Expired(allocations[ip][p], clock)
    BY DEF FreesOnlyExpired
  <1>1. p \in ExpiredPorts(ip, sweep_now)
    BY DEF release_expired
  <1>2. allocations[ip][p] \in PortAllocation /\ Expired(allocations[ip][p], sweep_now)
    BY <1>1 DEF ExpiredPorts, PoolInv, TypeOK
  <1>3. sweep_now \in Int /\ clock \in Int /\ sweep_now <= clock
    BY TimeAssumption DEF release_expired, PoolInv, TypeOK
  <1> QED
    BY <1>2, <1>3, ExpiryMonotone

\* A sweep never frees what has not expired by the time it runs, although it judges
\* by a clock value from before it got the lock.
THEOREM SweepsFreeOnlyExpired == Spec => SweepOnlyExpired
  <1>1. ASSUME PoolInv, [Next]_vars
        PROVE  FreesOnlyExpired
    <2>1. ASSUME NEW ip \in PublicIPs, NEW c \in Connections, NEW t \in Timeouts,
                 Connect(ip, c, t)
          PROVE  \A i \in PublicIPs : allocated[i] \subseteq allocated'[i]
      BY <1>1, <2>1 DEF Connect, allocate_port, PoolInv, TypeOK
    <2>2. ASSUME NEW g \in grants, Disconnect(g)
          PROVE  grants' # grants
      BY <2>2 DEF Disconnect
    <2>3. ASSUME NEW g \in grants, Abandon(g)
          PROVE  allocated' = allocated
      BY <2>3 DEF Abandon
    <2>4. CASE release_expired
      BY <1>1, <2>4, SweepFreesOnlyExpired
    <2>5. CASE release_expired_Read \/ Tick \/ UNCHANGED vars
      BY <2>5 DEF release_expired_Read, Tick, vars, FreesOnlyExpired
    <2> QED
      BY <1>1, <2>1, <2>2, <2>3, <2>4, <2>5 DEF Next, FreesOnlyExpired
  <1>2. PoolInv /\ [Next]_vars => [FreesOnlyExpired]_vars
    BY <1>1
  <1> QED
    BY <1>2, PoolCorrect, PTL DEF Spec, SweepOnlyExpired, FreesOnlyExpired

-----------------------------------------------------------------------------
(* Round robin *)

\* Remainders on one lap and on the next.
LEMMA Laps ==
    ASSUME NEW n \in Nat \ {0}
    PROVE  /\ \A x \in 0..(n - 1) : x % n = x
           /\ \A x \in n..(2 * n - 1) : x % n = x - n
  <1>1. ASSUME NEW x \in 0..(n - 1) PROVE x % n = x
    OBVIOUS
  <1>2. ASSUME NEW x \in n..(2 * n - 1) PROVE x % n = x - n
    OBVIOUS
  <1> QED
    BY <1>1, <1>2

\* How far a walk up from the hint, and round the end of the pool, has to go.
LEMMA DistanceIs ==
    ASSUME PoolInv, NEW ip \in PublicIPs, NEW q \in Pool
    PROVE  Distance(ip, q) = IF next_port[ip] <= q THEN q - next_port[ip]
                                                   ELSE q - next_port[ip] + pool_size
  <1>1. PICK h \in Pool : h = next_port[ip]
    BY DEF PoolInv, TypeOK
  <1>2. PICK n \in Nat \ {0} : n = pool_size
    BY PoolFacts
  <1>3. /\ h \in Nat /\ q \in Nat /\ PORT_MIN \in Nat
        /\ PORT_MIN <= h /\ h <= PORT_MIN + n - 1
        /\ PORT_MIN <= q /\ q <= PORT_MIN + n - 1
    BY <1>2, PoolFacts
  <1>4. CASE h <= q
    <2>1. PICK x \in n..(2 * n - 1) : x = q - h + n
      BY <1>3, <1>4
    <2>2. x % n = x - n
      BY Laps
    <2>3. x - n = q - h
      BY <1>3, <2>1
    <2> QED
      BY <1>1, <1>2, <1>4, <2>1, <2>2, <2>3 DEF Distance
  <1>5. CASE ~(h <= q)
    <2>1. q - h + n \in 0..(n - 1)
      BY <1>3, <1>5
    <2> QED
      BY <1>1, <1>2, <1>5, <2>1, Laps DEF Distance
  <1> QED
    BY <1>4, <1>5

\* The two scans find what that walk meets first.
LEMMA FoundIsNearest ==
    ASSUME PoolInv, NEW ip \in PublicIPs, find_available_port(ip) # None
    PROVE  \A q \in Pool \ allocated[ip] :
               Distance(ip, find_available_port(ip)) <= Distance(ip, q)
  <1> SUFFICES ASSUME NEW q \in Pool \ allocated[ip]
               PROVE  Distance(ip, find_available_port(ip)) <= Distance(ip, q)
    OBVIOUS
  <1>1. PICK p \in Pool : p = find_available_port(ip)
    BY FoundIsFree
  <1>2. PICK h \in Pool : h = next_port[ip]
    BY DEF PoolInv, TypeOK
  <1>3. PICK n \in Nat \ {0} : n = pool_size
    BY PoolFacts
  <1>4. /\ h \in Nat /\ p \in Nat /\ q \in Nat /\ PORT_MIN \in Nat
        /\ PORT_MIN <= p /\ p <= PORT_MIN + n - 1
        /\ PORT_MIN <= q /\ q <= PORT_MIN + n - 1
        /\ EffectiveMax = PORT_MIN + n - 1
    BY <1>3, PoolFacts
  <1>5. /\ Distance(ip, p) = IF h <= p THEN p - h ELSE p - h + n
        /\ Distance(ip, q) = IF h <= q THEN q - h ELSE q - h + n
    BY <1>2, <1>3, DistanceIs
  <1>6. FreeFromHint(ip) \in SUBSET Nat /\ FreeBelowHint(ip) \in SUBSET Nat
    BY <1>2, <1>4 DEF FreeFromHint, FreeBelowHint
  <1>7. CASE FreeFromHint(ip) # {}
    <2>1. p \in FreeFromHint(ip) /\ \A y \in FreeFromHint(ip) : p <= y
      BY <1>1, <1>6, <1>7, MinFacts DEF find_available_port
    <2>2. h <= p
      BY <1>2, <1>4, <2>1 DEF FreeFromHint
    <2>3. h <= q => p <= q
      BY <1>2, <1>4, <2>1 DEF FreeFromHint
    <2> QED
      BY <1>1, <1>4, <1>5, <2>2, <2>3
  <1>8. CASE FreeFromHint(ip) = {}
    <2>1. p \in FreeBelowHint(ip) /\ \A y \in FreeBelowHint(ip) : p <= y
      BY <1>1, <1>6, <1>8, MinFacts DEF find_available_port
    <2>2. p < h
      BY <1>2, <1>4, <2>1 DEF FreeBelowHint
    <2>3. q < h
      BY <1>2, <1>4, <1>8 DEF FreeFromHint
    <2>4. p <= q
      BY <1>2, <1>4, <2>1, <2>3 DEF FreeBelowHint
    <2> QED
      BY <1>1, <1>4, <1>5, <2>2, <2>3, <2>4
  <1> QED
    BY <1>7, <1>8

LEMMA HintMovesOn ==
    ASSUME NEW p \in Pool
    PROVE  NextHint(p) = PORT_MIN + ((p + 1 - PORT_MIN) % pool_size)
  <1>1. PICK n \in Nat \ {0} : n = pool_size
    BY PoolFacts
  <1>2. /\ p \in Nat /\ PORT_MIN \in Nat /\ EffectiveMax = PORT_MIN + n - 1
        /\ PORT_MIN <= p /\ p <= PORT_MIN + n - 1
    BY <1>1, PoolFacts
  <1>3. CASE p + 1 > EffectiveMax
    <2>1. p + 1 - PORT_MIN = n /\ n \in n..(2 * n - 1)
      BY <1>2, <1>3
    <2>2. n % n = 0
      BY <2>1, Laps
    <2> QED
      BY <1>1, <1>2, <1>3, <2>1, <2>2 DEF NextHint
  <1>4. CASE ~(p + 1 > EffectiveMax)
    <2>1. p + 1 - PORT_MIN \in 0..(n - 1)
      BY <1>2, <1>4
    <2>2. (p + 1 - PORT_MIN) % n = p + 1 - PORT_MIN
      BY <2>1, Laps
    <2> QED
      BY <1>1, <1>2, <1>4, <2>2 DEF NextHint
  <1> QED
    BY <1>3, <1>4

\* What a step that hands out a port does.
HandsOutNearest ==
    \A ip \in PublicIPs : \A p \in allocated'[ip] \ allocated[ip] :
        /\ \A q \in Pool \ allocated[ip] : Distance(ip, p) <= Distance(ip, q)
        /\ next_port'[ip] = PORT_MIN + ((p + 1 - PORT_MIN) % pool_size)

\* Ports are handed out round robin, for every pool size and however allocations,
\* releases and sweeps have scattered the free ports: _find_available_port returns
\* the free port that a walk round the pool from the hint meets first, and the hint
\* moves on to the port after it.
THEOREM PortsHandedOutInTurn == Spec => RoundRobin
  <1>1. ASSUME PoolInv, [Next]_vars
        PROVE  HandsOutNearest
    <2>1. ASSUME NEW ip \in PublicIPs, NEW c \in Connections, NEW t \in Timeouts,
                 Connect(ip, c, t)
          PROVE  HandsOutNearest
      <3>1. PICK p : p = find_available_port(ip)
        OBVIOUS
      <3>2. /\ p # None
            /\ allocated' = [allocated EXCEPT ![ip] = @ \cup {p}]
            /\ next_port' = [next_port EXCEPT ![ip] = NextHint(p)]
        BY <2>1, <3>1 DEF Connect, allocate_port
      <3>3. p \in Pool /\ next_port'[ip] = NextHint(p)
        BY <1>1, <3>1, <3>2, FoundIsFree DEF PoolInv, TypeOK
      <3>4. /\ \A i \in PublicIPs : i # ip => allocated'[i] = allocated[i]
            /\ allocated'[ip] = allocated[ip] \cup {p}
        BY <1>1, <3>2 DEF PoolInv, TypeOK
      <3>5. \A q \in Pool \ allocated[ip] : Distance(ip, p) <= Distance(ip, q)
        BY <1>1, <3>1, <3>2, FoundIsNearest
      <3>6. next_port'[ip] = PORT_MIN + ((p + 1 - PORT_MIN) % pool_size)
        BY <3>3, HintMovesOn
      <3> QED
        BY <3>4, <3>5, <3>6 DEF HandsOutNearest
    <2>2. ASSUME \A i \in PublicIPs : allocated'[i] \subseteq allocated[i]
          PROVE  HandsOutNearest
      BY <2>2 DEF HandsOutNearest
    <2>3. ASSUME NEW g \in grants, Disconnect(g)
          PROVE  \A i \in PublicIPs : allocated'[i] \subseteq allocated[i]
      BY <1>1, <2>3 DEF Disconnect, release_port, PoolInv, TypeOK
    <2>4. ASSUME NEW g \in grants, Abandon(g)
          PROVE  allocated' = allocated
      BY <2>4 DEF Abandon
    <2>5. CASE release_expired
      BY <2>2, <2>5 DEF release_expired
    <2>6. CASE release_expired_Read \/ Tick \/ UNCHANGED vars
      BY <2>2, <2>6 DEF release_expired_Read, Tick, vars
    <2> QED
      BY <1>1, <2>1, <2>2, <2>3, <2>4, <2>5, <2>6 DEF Next
  <1>2. PoolInv /\ [Next]_vars => [HandsOutNearest]_vars
    BY <1>1
  <1> QED
    BY <1>2, PoolCorrect, PTL DEF Spec, RoundRobin, HandsOutNearest
=============================================================================
