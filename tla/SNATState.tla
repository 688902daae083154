------------------------------ MODULE SNATState ------------------------------
(***************************************************************************)
(* Source-port pools of masquerade SNAT: class SNATState of                *)
(* tc-firewall/src/snat_state.py, as driven through                        *)
(* allocate_masquerade_port / release_masquerade_port of nat_manager.py    *)
(* and by whoever calls release_expired.                                   *)
(*                                                                         *)
(* Every public method runs under self._lock, so each is one action,       *)
(* except release_expired, which reads the clock BEFORE it takes the lock  *)
(* and is therefore two.  Besides the object's own fields the module keeps *)
(* the callers' side of the contract: `grants`, the ports connections have *)
(* been handed and have not yet given back.                                *)
(***************************************************************************)
EXTENDS Integers, FiniteSets, FiniteSetsExt

CONSTANTS
    PublicIPs,      \* public addresses that masquerade rules use
    Connections,    \* outbound connections (src, dst, dst port, protocol)
    Timeouts,       \* timeouts an allocation may be made with
    PORT_MIN,       \* 1024 in the code
    PORT_MAX,       \* 65535 in the code
    PoolSizeArg,    \* the pool_size argument of SNATState()
    Sweeping,       \* does anybody call release_expired?
    LateRelease,    \* may a connection release a port after its timeout?
    MaxTime         \* bound on the modelled clock

ASSUME PortAssumption ==
    /\ PORT_MIN \in Nat
    /\ PORT_MAX \in Nat
    /\ PORT_MIN <= PORT_MAX
    /\ PoolSizeArg \in Nat \ {0}

ASSUME TimeAssumption ==
    /\ Timeouts \subseteq Nat
    /\ MaxTime \in Nat
    /\ Sweeping \in BOOLEAN
    /\ LateRelease \in BOOLEAN

DEFAULT_POOL_SIZE == PORT_MAX - PORT_MIN + 1

pool_size == IF PoolSizeArg <= DEFAULT_POOL_SIZE THEN PoolSizeArg
                                                 ELSE DEFAULT_POOL_SIZE

EffectiveMax == PORT_MIN + pool_size - 1

Pool == PORT_MIN..EffectiveMax

\* "No port" (Python's None) and "no sweep under way"; neither is a port or a time.
None == -1
NoSweep == -1

\* A PortAllocation; src_ip, dst_ip, dst_port and protocol are the connection.
PortAllocation ==
    [ip : PublicIPs, port : Pool, conn : Connections,
     allocated_at : Nat, timeout : Timeouts]

VARIABLES
    allocated,      \* _allocated:   ip -> set of ports in use
    allocations,    \* _allocations: ip -> (port -> PortAllocation)
    next_port,      \* _next_port:   ip -> round-robin hint
    grants,         \* callers' view: allocations not yet released by their owner
    clock,          \* time.time()
    sweep_now       \* `now` of the release_expired call under way, or NoSweep

pool_vars == <<allocated, allocations, next_port>>
vars == <<allocated, allocations, next_port, grants, clock, sweep_now>>

Init ==
    /\ allocated = [ip \in PublicIPs |-> {}]
    /\ allocations = [ip \in PublicIPs |-> <<>>]
    /\ next_port = [ip \in PublicIPs |-> PORT_MIN]
    /\ grants = {}
    /\ clock = 0
    /\ sweep_now = NoSweep

-----------------------------------------------------------------------------
(* Searching the pool *)

is_exhausted(ip) == Cardinality(allocated[ip]) >= pool_size

\* The two scans of _find_available_port: from the hint up, then from the
\* bottom up to the hint.
FreeFromHint(ip) == {p \in next_port[ip]..EffectiveMax : p \notin allocated[ip]}
FreeBelowHint(ip) == {p \in PORT_MIN..(next_port[ip] - 1) : p \notin allocated[ip]}

\* Broken variant: the second scan is missing, the search does not wrap.
find_available_port_NoWrap(ip) ==
    IF FreeFromHint(ip) # {} THEN Min(FreeFromHint(ip)) ELSE None

\* Broken variant: every search starts at the bottom of the pool.
find_available_port_FromBottom(ip) ==
    LET free == FreeFromHint(ip) \cup FreeBelowHint(ip)
    IN  IF free # {} THEN Min(free) ELSE None

\* Broken variant: the hint is trusted.
find_available_port_Hint(ip) == next_port[ip]

find_available_port(ip) ==
    IF FreeFromHint(ip) # {} THEN Min(FreeFromHint(ip))
    ELSE IF FreeBelowHint(ip) # {} THEN Min(FreeBelowHint(ip))
    ELSE None

\* Broken variant: the hint is not wrapped at the end of the pool.
NextHint_NoWrap(p) == p + 1

\* The hint after handing out port p.  Only the first scan tests for the end
\* of the pool; the second stops below the old hint, where p + 1 is in range.
NextHint(p) == IF p + 1 > EffectiveMax THEN PORT_MIN ELSE p + 1

-----------------------------------------------------------------------------
(* Operations *)

\* A dictionary f with f[k] = v set, and f without the keys in S.
Put(f, k, v) == [x \in DOMAIN f \cup {k} |-> IF x = k THEN v ELSE f[x]]
Drop(f, S) == [x \in DOMAIN f \ S |-> f[x]]

Expired(a, now) == now - a.allocated_at >= a.timeout

\* allocate_port: nothing changes when the pool is exhausted or when no port is
\* found; otherwise the port enters both tables and the caller holds it.
allocate_port(ip, c, t) ==
    LET port == find_available_port(ip)
        a == [ip |-> ip, port |-> port, conn |-> c,
              allocated_at |-> clock, timeout |-> t]
    IN  /\ ~is_exhausted(ip)
        /\ port # None
        /\ allocated' = [allocated EXCEPT ![ip] = @ \cup {port}]
        /\ allocations' = [allocations EXCEPT ![ip] = Put(@, port, a)]
        /\ next_port' = [next_port EXCEPT ![ip] = NextHint(port)]
        /\ grants' = grants \cup {a}
        /\ UNCHANGED <<clock, sweep_now>>

Connect(ip, c, t) ==
    /\ \A g \in grants : g.conn # c
    /\ allocate_port(ip, c, t)

\* Broken variant: the port leaves `_allocated` but its details stay.
release_port_KeepDetails(ip, port) ==
    /\ allocated' = [allocated EXCEPT ![ip] = @ \ {port}]
    /\ UNCHANGED <<allocations, next_port>>

\* release_port frees whatever allocation the port has now: the caller passes
\* no token that would tell its own allocation from a later one.
release_port(ip, port) ==
    /\ allocated' = [allocated EXCEPT ![ip] = @ \ {port}]
    /\ allocations' = [allocations EXCEPT ![ip] = Drop(@, {port})]
    /\ UNCHANGED next_port

\* release_masquerade_port: "Called when a connection terminates or times out."
Disconnect(g) ==
    /\ LateRelease \/ ~Expired(g, clock)
    /\ grants' = grants \ {g}
    /\ release_port(g.ip, g.port)
    /\ UNCHANGED <<clock, sweep_now>>

\* release_expired, the part before the lock is taken.
release_expired_Read ==
    /\ Sweeping
    /\ sweep_now = NoSweep
    /\ sweep_now' = clock
    /\ UNCHANGED <<allocated, allocations, next_port, grants, clock>>

\* Broken variant: an allocation expires one time unit early.
ExpiredPorts_Early(ip, now) ==
    {p \in DOMAIN allocations[ip] : Expired(allocations[ip][p], now + 1)}

ExpiredPorts(ip, now) ==
    {p \in DOMAIN allocations[ip] : Expired(allocations[ip][p], now)}

\* release_expired, the sweep under the lock.
release_expired ==
    /\ sweep_now # NoSweep
    /\ allocated' = [ip \in PublicIPs |-> allocated[ip] \ ExpiredPorts(ip, sweep_now)]
    /\ allocations' = [ip \in PublicIPs |->
                         Drop(allocations[ip], ExpiredPorts(ip, sweep_now))]
    /\ sweep_now' = NoSweep
    /\ UNCHANGED <<next_port, grants, clock>>

\* A connection dies without telling anybody; its port is left to the sweep.
Abandon(g) ==
    /\ grants' = grants \ {g}
    /\ UNCHANGED <<allocated, allocations, next_port, clock, sweep_now>>

Tick ==
    /\ clock < MaxTime
    /\ clock' = clock + 1
    /\ UNCHANGED <<allocated, allocations, next_port, grants, sweep_now>>

Next ==
    \/ \E ip \in PublicIPs, c \in Connections, t \in Timeouts : Connect(ip, c, t)
    \/ \E g \in grants : Disconnect(g)
    \/ \E g \in grants : Abandon(g)
    \/ release_expired_Read
    \/ release_expired
    \/ Tick

Spec == Init /\ [][Next]_vars

-----------------------------------------------------------------------------
(* Properties *)

TypeOK ==
    /\ allocated \in [PublicIPs -> SUBSET Pool]
    /\ DOMAIN allocations = PublicIPs
    /\ \A ip \in PublicIPs :
          /\ DOMAIN allocations[ip] \subseteq Pool
          /\ \A p \in DOMAIN allocations[ip] : allocations[ip][p] \in PortAllocation
    /\ next_port \in [PublicIPs -> Pool]
    /\ grants \subseteq PortAllocation
    /\ clock \in 0..MaxTime
    /\ sweep_now \in (0..MaxTime) \cup {NoSweep}

\* The two tables that allocate_port, release_port and release_expired update
\* side by side never drift apart: a port is in `_allocated` exactly when
\* `_allocations` has its details, filed under the right address and port.
TablesAgree ==
    \A ip \in PublicIPs :
        /\ DOMAIN allocations[ip] = allocated[ip]
        /\ \A p \in allocated[ip] :
              allocations[ip][p].ip = ip /\ allocations[ip][p].port = p

\* allocate_port comments its second `return None` with "Should not happen if
\* exhaustion check passed": whenever the pool is not exhausted the search finds
\* a port that is free and inside the pool, wherever the hint has got to.
SearchFindsPort ==
    \A ip \in PublicIPs :
        ~is_exhausted(ip) => find_available_port(ip) \in Pool \ allocated[ip]

\* A connection is live until its timeout has elapsed.
Live(g) == ~Expired(g, clock)

\* Every live connection's port is still recorded as that connection's.
LiveRecorded ==
    \A g \in grants :
        Live(g) => /\ g.port \in DOMAIN allocations[g.ip]
                   /\ allocations[g.ip][g.port] = g

\* "Each new outbound connection gets a unique source port from the pool"
\* (snat_state.py:4-5): two connections that have neither timed out nor released
\* never hold the same port of the same public address.
UniqueLivePort ==
    \A g, h \in grants :
        (Live(g) /\ Live(h) /\ g.ip = h.ip /\ g.port = h.port) => g = h

\* The pool as its callers see it: a connection's lease is exclusive, and ends only
\* by its own release or by its timeout, whatever tables, hint and sweeps do.
LeaseView ==
    INSTANCE PortLease WITH
        Addresses <- PublicIPs, Ports <- Pool, Owners <- Connections,
        Durations <- Timeouts, leases <- {g \in grants : Live(g)}, now <- clock

ImplementsLease == LeaseView!Spec

\* The port handed out is the free port that a circular walk from the hint
\* meets first, and the hint moves on to its circular successor.
Distance(ip, p) == (p - next_port[ip] + pool_size) % pool_size

RoundRobin ==
    [][\A ip \in PublicIPs : \A p \in allocated'[ip] \ allocated[ip] :
          /\ \A q \in Pool \ allocated[ip] : Distance(ip, p) <= Distance(ip, q)
          /\ next_port'[ip] = PORT_MIN + ((p + 1 - PORT_MIN) % pool_size)]_vars

\* release_expired, which compares against a clock value read before it got the
\* lock, frees nothing whose timeout has not elapsed when the sweep runs.
SweepOnlyExpired ==
    [][grants' = grants =>
         \A ip \in PublicIPs : \A p \in allocated[ip] \ allocated'[ip] :
            Expired(allocations[ip][p], clock)]_vars
=============================================================================
