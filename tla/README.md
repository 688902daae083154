# Prism: TLA+ models and proofs

Prism is a firewall for BlueField-3 DPUs. The repository holds a Python daemon that
programs the eSwitch through `tc` (`tc-firewall`), Rust services for session offload
(`crates/`), a C firewall on DOCA Flow (`doca-firewall`), and the tools of a test bench
(`api-server`, `traffic-gen`, `receiver`, `tui`, `ui`). This directory models the parts
that keep state, checks them with TLC and proves their main invariants with TLAPS.

## 1. Inventory

| Component | State | Operations | Interacts with | What is hard |
|---|---|---|---|---|
| SNAT port pools, `snat_state.py` | per public address: ports in use, their details, round-robin hint | `allocate_port`, `release_port`, `release_expired` | `nat_manager.py` (masquerade) | sweeps racing late releases; clock read outside the lock; pool limits |
| HA pair, `ha.py` | role, generation and its file, time of the last heartbeat | heartbeat loops, `promote`, `demote`, split-brain resolution | peer daemon over HTTP, operator, kernel rules | lost and delayed heartbeats, partitions, crashes, ties |
| tc commands, `tc_manager.py` | none of its own (the kernel's filters) | add, remove, look up a handle | the kernel; used by rules and NAT | failing and hanging commands; handle lookup |
| Rules, NAT, tenants: `main.py`, `nat_manager.py`, `tenants.py` | rules, NAT entries in two dictionaries, idempotency indexes, tenants and quotas | the REST endpoints | tc, audit log | partial failure between kernel and tables; cross-tenant sharing |
| Audit log, `audit.py` | ring of entries, file | `log_*` | all handlers | completeness |
| Offload daemon, `prism-offload-daemon` | session table, hardware handles, idle tracker | ProgramSession, FlushSessions, QuerySession, aging loop | datapath over gRPC, DOCA | aging against flush and re-programming; duplicated calls |
| Datapath, `prism-datapath` | connection table, set of offloaded flows, queue to the client | packet pipeline, eviction, client retries | offload daemon | full queue, retries, marks that are never cleared |
| Admin store, `prism-admin` | firewalls, policies, rules, generations | CRUD, `apply_desired_state` | REST clients | checks and updates under separate locks |
| DOCA firewall, `doca-firewall` | policy table, CT entries, counters | add/remove rule, evaluate, offload | DOCA, REST | table limit, default rule, entries that outlive rules |
| API orchestrator, `api-server/src/main.py` | set of WebSocket clients | connect, leave, broadcast once a second | the three services over HTTP, browsers | a set that changes while it is iterated over between awaits; orphaned sockets |
| Traffic generator, `traffic-gen` | worker threads, stop event, two levels of statistics | start, stop, workers | receiver, through the firewall under test | workers that outlive a stop; resets under two locks; overlapping requests |
| Traffic receiver, `receiver` | listeners, their sockets and threads | start, stop, accept loops | generator, ports of the host | starts that fail half-way; accept loops that die; overlapping requests |
| Test library, `api-server` (`test_runner.py`, ...) | running test, history | run and stop tests | TRex, SSH | not reached from `main.py` |
| Bindings, UI, TUI, deployment | none of interest | | | |

What makes each correct: a pool never gives one port to two live connections and never
loses one; an HA pair ends up with one active node, the right one, and a demoted node
forwards nothing; a stored rule is in force and only its tenant's requests affect it; the
tables, the indexes, the quotas and the kernel agree; no offloaded session is lost from the
table or left in hardware for ever; a write based on an outdated view of the store is
refused; and the demonstration shows what it claims: traffic that is let through is counted,
and whoever watches the stream is sent snapshots. The hazards behind these
statements are listed, line by line, in `PROJECT.json`.

## 2. Modules

`SNATState`, `HA`, `TcFirewall` (which extends `TcManager`), `OffloadDaemon`, `AdminStore`,
`Orchestrator` and `Testbed` (which composes `TrafficGen` and `Receiver`) are
specifications. `PortLease` is the abstract specification that `SNATState` implements.
`Loop` is a `for` loop over numbered things whose rounds have several outcomes; `TcFirewall`
instantiates it with the bodies of its three loops.
`MC*` modules fix small instances; `*Proofs` modules hold the theorems. Definitions named
like a function of the code model that function. A definition called *broken variant* is
a plausible mistake in the definition that follows it: substituting it must violate the
property `PROJECT.json` pairs it with, which shows that the property can fail.

### SNATState

`allocated`, `allocations`, `next_port` are the object's three dictionaries. Each method
runs under the object's lock and is one action, but `release_expired` reads the clock
before it takes the lock and is two (`release_expired_Read`, `release_expired`).
`grants` is the callers' side: ports that connections were given and have not returned.
The search is two scans described by sets, `FreeFromHint` and `FreeBelowHint`. A pool is
created full-sized at the first allocation in the code; here it exists from the start,
which no operation can tell. `Sweeping` says whether anybody calls `release_expired`,
`LateRelease` whether connections may release after their timeout. In the repository only
tests call the masquerade functions and `release_expired`; the callers modelled are those
their documentation describes. That an expired port is eventually freed is therefore not
claimed: no caller's fairness could be assumed.

`PortLease` says what a pool is for without tables, hints or sweeps: a lease of a port
begins when nobody else holds the port, and ends when its owner gives it up or its time is
over. The refinement maps the leases to the grants that are still valid, so a sweep, which
only tidies up, is a stutter (`SNATState!ImplementsLease`).

### HA

Two daemons; no method awaits between a read and a write, so each is one action. A heartbeat
is a message that may be lost, delayed and overtaken. Of time, only what the monitor
distinguishes is kept: the last heartbeat is recent, stale, or never came.
`_persist_generation` opens the file with `"w"`, which empties it, and then writes: a crash
in between (`CrashWhilePersisting`) loses the generation on any disk, and on the nodes of
`DiskErrors` an `OSError`, which is swallowed, leaves the old value or an empty file. The
history variable `torn` records the nodes this has happened to; properties about generations
make an exception for them and for nothing else. (The file is under `/var/run`, which most
systems clear at boot: a reboot of the DPU, as opposed to a restart of the daemon, loses the
generation too and is not modelled.) `docs/PRODUCTION_READINESS_V2.md:64`, "No persistent
generation storage -- daemon restart resets generation to 1", describes an earlier state of
the code; after a write that was cut short it is still what happens.

The model is of `HAManager` as a daemon would run it that calls `init_ha_manager` with a peer
and `start()`. At this commit none does: `main.py:37` imports `init_ha_manager` and never
calls it, only tests call `start()`, and `get_ha_manager()` builds a manager without a peer,
although `ha.py:311` says "initialized by main.py based on CLI args". So `tc-firewall` as it
stands is a peerless ACTIVE node that answers heartbeats and sends none, and its operators'
`/ha/demote` and `/ha/promote` are all that changes its role (`WithPeer = {}`). `running` is
the flag that `start()` raises and `stop()` lowers. Fairness and the two liveness properties
are about nodes whose loops run; they say what the protocol does once it is wired up.

`peer_generation` and `peer_role` are only reported by `get_status()` and are left out.
`main.py` never sets the flush callback that `_demote` would call, so a demotion changes the
role and nothing else.

### TcManager and TcFirewall

`TcManager` turns a set of installed filters into the set of outcomes of a command: it
works, fails (`TcError`), or is killed by the timeout with its work done or not. The
kernel is external: it refuses a second filter with the same match at one port and
priority, and numbers filters by the lowest free handle (`HandleReuse`, what Linux does)
or by the highest plus one (what `_get_last_handle` presumes). Matches are opaque; the
swap of source and destination in the reverse direction is a bijection and is not shown.

`TcFirewall` has one action per mutating endpoint. The handlers are `async def`s without
`await`, so requests do not interleave; what interrupts them is tc. Loops over
dictionaries are instances of `Loop` over ids, which are numbered in creation order; the
rounds are `RemoveRound`, `NatRound` and, for the entries that `remove_nat` installs again,
`ReapplyRound`. A
request that a timeout cuts short is an action of its own (`DeleteRuleTimeout`,
`RuleLoopTimeout`, `DeleteNatTimeout`). `nat` holds the `NATEntry` objects that `nat_db`
and `nat_entries_db` share. A NAT request is its signature; `mode`, comments and the
masquerade exhaustion check, which can only refuse, are left out, as are NAT `in_hw`
flags, which nothing reads. Ids never collide (the code truncates UUIDs to 32 bits).
`Restart` empties the tables and keeps the filters.

The history variable `suspect` collects the priorities at which a handle may be wrong: the
kernel gave a rule's filter a number below one in use, so that `_get_last_handle` read
another's (`OutOfTurn`), or a timeout cut the removal of a rule short and the rule stayed in
the database with a handle that may be gone. Together with the priority of the NAT band,
which `remove_nat` wipes, these are the exceptions of `TrustedRulesEnforced` and
`HandlesAreOwn`, which assume nothing else of the kernel; `LiveRulesEnforced` is the
statement without exceptions, and `tc_handles` refutes it.

### OffloadDaemon

`table` is the session table, `hw` the hardware entries with their packet counters (the
backend is the repository's in-memory one), `call[c]` the handler of client `c`, `ager` and
`tracker` the aging loop. Handlers run on several threads, so an action is one access to the
table or to the hardware; iterating over the table visits key after key while others change
it. The hardware calls of one `program_session` are merged, as nobody knows a handle before
it is in the table. Poll intervals are the unit of time. The server does not check whether a
key is in use (`grpc_server.rs:123`), and clients repeat calls whose answer was lost
(`offload_client.rs:39-58`), so any key may be programmed at any time. `insert` then forgets
the old session and with it the handles nobody else has; the history variable `replaced`
collects them, and `HwOwned` and `IdleRemoved` say that no entry gets lost in another way.

### AdminStore

The three maps of `store.rs` have a lock each, handlers hold one lock at a time and run on
several threads, so an action is one critical section: creations are two, a push
(`apply_desired_state`) is as many as it has policies and rules and six more. A firewall is
its generation, a policy its firewall, a rule its policy; nothing depends on the other
fields. Generations are taken from an atomic counter before or under the lock, as in the
code. `base` is the clients' side: the firewall and generation each saw last, which is what
it sends along. `made` is history. Deleting a firewall leaves its policies, as the code
does. The reconciler only counts and logs. A handler's future that is dropped at an await
because its client has gone, say between the two removals of a push (`store.rs:255-260`), is
not modelled: every request that begins can run to its end.

### Orchestrator

The asyncio tasks behind `/ws/metrics`: a handler per client and the broadcaster. An action
runs from one await to the next. `connected_clients` is a Python set, a table of slots that
an iteration walks through by position and that raises when its size has changed; so a
client may be added ahead of the walk or behind it, and one who leaves while another comes
goes unnoticed. `ws` tells a connection whose peer is gone from one whose handler died.

### TrafficGen, Receiver and Testbed

`TrafficGen` has the steps of `start()` and `stop()` and of each worker thread between the
accesses other threads can fall between: the stop event, the list of workers, the aggregate
statistics and those per port. `stop()` may give up on a worker at any join; `ps` in a
worker tells whether the `PortStats` object it holds is still the one shown. `Receiver` has
the list of listeners with whether each was stopped, and for each port its socket and accept
loop. A start may fail at any listener, for whatever reason: another program has the port, one
of our own loops still has it, or there is no descriptor or thread (`StartFails`). A closed
socket frees its port only when its thread has left `accept()`. An `OSError` of `accept()`
ends a loop that should run (`LoopFails`, `listener.py:126-127`): the port stays bound
("failed"), connections pile up in its backlog, and `/api/stats` goes on saying `running`. A
stop closes that socket as well, so the next start gets over it. `Testbed` composes the two:
an attempt may always fail, and succeeds if the receiver has the port and room in its backlog.

Flask serves each request on a thread of its own and neither class has a lock, so requests of
one program may overlap: the receiver's page never disables its buttons, the generator's only
after its next poll, and scripts do as they like. In the model a request may arrive at any
time. Two that overlap can leave things wrong for good: the second of two starts of the
receiver clears the list that the first is filling, whose listeners live on where no stop
finds them; a stop that overlaps a start of the generator clears the list of workers that are
still being started, or joins one that has not been and raises. The history variable
`overlapped` records the programs that have had two requests under way at a time; what needs
them one after the other says so with `Orderly`, and what does not (`AggregateCoversPorts`,
`TypeOK`) is claimed without it. That `threading.Thread.start` fails for want of threads is
not modelled for the generator.

## 3. Runs

| Run | Instance | Shows |
|---|---|---|
| `snat_pool` | 1 address, 3 connections, 3 ports, sweeps, releases in time | tables agree; a search in a pool with room succeeds; live connections never share a port; ports are taken round-robin; a sweep frees only expired ports; the pools implement `PortLease` |
| `ha_pair` | generations up to 3, 1 heartbeat in flight from each node, loops started and stopped, crashes at any time and inside a write, operators, a disk with errors on one node | a generation falls only after a write that failed or was cut short; only outranked nodes step down; fencing only after a tie; split brain ends; an active node that is gone is replaced |
| `tc_rules` | 2 tenants, 2 rules at one priority, 1 NAT mapping, errors, timeouts, restarts, handles reused | stored rules stay in force and handles are their own, suspect priorities aside |
| `tc_faults` | 2 tenants, a rule with a key, 2 mappings on one port, errors, timeouts, restarts | signature index complete, NAT entries tracked and indexed, quotas kept |
| `tc_exact` | 3 rules on 2 priorities, 4 mappings of all kinds, handles reused, no failures | the kernel holds exactly what the tables say, suspect priorities aside |
| `offload` | the 2 directions of a connection, 1 client beside the aging loop, 3 handles, refused entries, keys programmed again | no hardware entry is lost unless replaced; a session of one direction keeps its entry; sessions without an entry are found; idle entries are removed |
| `admin` | 2 clients, pushes of no policy or of one with a rule, 6 generations, 4 identifiers | an outdated view never becomes current again; rules go only with their policies |
| `testbed` | 2 ports, one of them in the profile, 2 worker threads, 1 request of each program at a time, failing starts, dying accept loops | what both sides report as running is borne out, a dead loop aside; the two levels of statistics agree; stops take effect; connections that are let through keep being counted |
| `orch_stream` | 3 clients, 4 slots | nobody who is there is dropped; while the broadcaster lives, who stays is served and orphans are swept out |

Three runs violate what the repository says of the program; `findings` quotes the lines.

* `snat_late`: a sweep reclaims a port and `allocate_port` hands it out again; the first
  owner's late release then frees the second owner's port, and a third connection gets it.
* `tc_handles`: Linux gives a new filter the lowest free handle, `_get_last_handle` takes
  the highest; deleting the new rule then deletes another rule's filter.
* `orch_dies`: a client that connects or leaves during a send changes the set under the
  iteration, the exception ends the broadcaster, and nobody is sent a snapshot again.

Met while modelling, without a run of their own:

* HA: generations count a node's own promotions, so the node promoted last may have the
  lower one and give way to the stale active node; a standby that times out reaches the
  generation of its active peer (`ha.py:142` calls a tie abnormal), and after a tie only the
  node that hears the other first is fenced; a node may step down before a peer that is no
  longer active; a demoted node keeps its tc rules; a crash inside the write of the generation
  file takes a node back to generation 1, so that a stale peer outranks it.
* Rules and NAT: rules may use the priority of the NAT band, which `remove_nat` wipes;
  idempotency keys are shared by tenants, so a key used by another tenant returns that
  tenant's rule; a tenant that posts an existing NAT mapping becomes the owner of the entry;
  `check_in_hw` ignores the handle it is given; `delete_tenant` writes no audit entry for
  the rules it removes.
* Offload daemon: programming a key that is in use leaves the old hardware entry with nobody
  to remove it; the aging loop judges and evicts by key, so a session flushed and
  programmed anew meanwhile is evicted in the place of the one that was judged, and
  `idle_tracker` hands the age of a key's old session on to the new one.
* Admin store: two pushes with one expected generation may both pass the check, succeed and
  leave a mixture of policies; a push publishes its generation over that of an update that
  came in between; a policy may be created for a firewall deleted meanwhile.
* Traffic tools: a worker that `stop()` has given up on goes on beside the new ones after
  the next `start()`; when a listener cannot bind, `start()` raises with the listeners
  before it running and the receiver not, no stop reaches them, and later starts fail on
  their ports; an accept loop that dies goes unnoticed; requests that overlap, see above.
* Datapath: the binary runs its pipeline on synthetic packets only, with offload requests
  logged. Its client would repeat a call whose answer was lost, and so program a key twice;
  a full queue would leave a flow marked as offloaded that is not.

Bounds. Three ports and three connections are enough for a full pool, a wrapped search and a
hint inside a run of used ports; clock values 0 to 2 for an allocation, its timeout and a
reuse. Three generations suffice for a tie and an inversion. One heartbeat in flight per
node is lost, or arrives after its sender has changed, crashed or restarted; one that
overtakes another is left to the proofs, which allow any number. Three or four created ids
give two rules of one tenant, one of another and a re-creation after deletion, which is what
collisions of handles and indexes need. Quotas are 1 or 2: in `tc_faults`, which has one
rule and two mappings, a tenant reaches the limit of one rule and those of one and of two
NAT entries; that of two rules is there for a request repeated after a timeout, and
`QuotasAlwaysKept` covers any. Three handles allow a session of both directions and one of
one direction, or a key programmed three times; overlapping requests are left to the proofs,
which allow any number. Six generations and four identifiers let two pushes overlap with
each other, with updates and with rules created in between. Two threads let a worker of an
earlier session meet one of the next. Two requests of one program at a time take the
testbed's liveness properties beyond what TLC does in minutes; the proofs, which cover its
safety properties, allow any number. Three clients let one stay while one comes and another
leaves. Tenants are symmetric in `tc_rules` and `tc_faults`, which check invariants only.
The SNAT and admin runs do not check deadlock, as a bounded clock and bounded counters end
their behaviours, nor do the orchestrator's, as a broadcaster without clients waits.

Fairness (`HA!FairSpec`): the two loops that `start()` creates keep iterating while `running`
holds (weak fairness of sending and of the monitor, both guarded by it; nothing makes anybody
call `start()`), a link on which heartbeats keep being sent delivers some (strong fairness of
delivery), what a dead peer sent is delivered or lost, and time passes while the peer is
silent. Nothing is assumed of operators, of starts, stops and crashes, or of spurious timeouts.
`OffloadDaemon!FairSpec`: the runtime keeps scheduling the aging loop and the handlers that
have started; nothing is assumed of clients. That counters stop at `MaxPackets` is what
makes every session idle in the end. `Orchestrator!FairSpec`: the loop keeps scheduling the
broadcaster, whose awaits end (requests have a timeout, a send to a dead peer fails).
`Testbed!FairSpec`: threads that have started keep running (weak fairness), and a worker
that keeps trying is let through at times (strong fairness of `Establish`, which is what the
demonstration presumes of an open port). Operators are free, and so is what can fail.

## 4. Proofs

All theorems hold for every value of the constants that satisfies the named assumptions.

* `SNATStateProofs`. `PoolInv` (types, hint in the pool, tables agree) is inductive: the
  tables must agree for the hint and the counts to mean anything, and the hint must lie in
  the pool for the two scans to cover it. `TypeCorrect`, `TablesAlwaysAgree` and
  `SearchAlwaysFindsPort` follow; the last needs that a set smaller than the pool leaves a
  port out. `LivePortsUnique` adds that a live grant is what the table records, which is
  inductive unless sweeps and late releases come together: exactly `snat_late`.
  `SweepsFreeOnlyExpired` needs that the clock a sweep read is not ahead of the present one.
  `PoolImplementsLease` is step simulation under the same assumption as `LivePortsUnique`: an
  allocation grants a lease, a release gives one up, a tick ends those whose time is over,
  and everything else leaves the valid grants alone. `PortsHandedOutInTurn` computes the
  distance of a port from the hint on this lap and on the next, and shows that each scan
  finds the nearest free port of its lap.
* `HAProofs`. `HAInv` adds to the types that the file of a node is current unless a write of
  it has failed or was cut short, and that no heartbeat in flight has a generation its sender
  has not reached, with the same exception. `GenerationsMonotone`, `FencedByTie` and
  `OutrankedStepDown` follow, on any disk and with any number of heartbeats in flight.
* `OffloadDaemonProofs`. For any number of handlers. `HardwareOwned` follows the handles a
  handler holds: until its entry is in the table a handle is the handler's, from then on it is
  the table's, and what takes an entry from the table removes its handle from hardware, or is
  an insert and records it as replaced. `SessionsStayBacked`: a handle belongs to one session,
  so whoever removes an entry from hardware has taken its session from the table before.
  Neither assumes anything of the clients.
* `AdminStoreProofs`. For any number of requests under way. `StaleNeverCurrent` rests on
  `GenerationsApart`: a generation that a handler has taken and not yet published is on no
  firewall, in no client's hands and with no other handler, in whatever order they are
  published. `RulesStayVisible` rests on what a push has collected: these policies are its
  firewall's for as long as they exist, because identifiers are not used twice.
* `OrchestratorProofs`. For any number of clients. `StreamInv` is the types with
  `OpenRegistered`; its core: a round notes as broken only sockets that are not open, and a
  socket it has noted is not opened again before the round ends.
* `TestbedProofs`. `ReportedAsServing` rests on `RcvInv`: a start has served every port it is
  past, the flag is down meanwhile, and a served port can be lost to nobody but a stop (a loop
  that dies leaves it bound).
  `ShownPortsHaveWorkers` rests on `GenInv`: from the moment start() clears the event until
  stop() sets it no worker that serves a shown port ends, and the ports that have no worker
  are those still to be spawned. Both
  invariants are types, which hold whatever overlaps, and an order, which holds as long as no
  two requests of the program have (`OneAfterTheOther`, `OneAtATime`).
  `AggregateAlwaysCovers` rests on `CountInv`, which adds that no port's counter exceeds the
  value where it saturates (the aggregate saturates where all of them together do) and that a
  worker which records into a listed `PortStats` has its port there. The sum is the fold of
  the community modules: `SumsExist` shows that the fold satisfies its equation on a finite
  set, `FoldInduction` is the induction over the sets it goes through, and from these follow
  `TotalBound`, `TotalGrows` (one more for a port is one more in the sum) and `TotalShrinks` (a
  new counter in the place of another makes the sum no larger, which is what a start that
  overlaps another does). It holds for any number of requests that overlap. It assumes that
  there are finitely many threads; ports are finitely many because the receiver lists them.
  `AlwaysTyped` follows from the three invariants together.
* `LoopProofs`. `LoopRule`: what holds before a loop and is kept by each round holds of every
  outcome after any round. The induction theorems of the library take an operator as a
  parameter, which the provers cannot instantiate; here the predicate is a constant of the
  module, and `INSTANCE` replaces it. The induction itself comes from the well-founded order
  on finite sets (`LeastElement`, `UpTo`), and `AfterUnfolds` shows that the loop's recursive
  function satisfies its equation.
* `TcFirewallProofs`. `DbInv` is the types of the tables with `SignatureIndexComplete`,
  `NatTracked` and `QuotasKept`. It mentions neither the kernel nor faults, so it covers
  every tc failure, timeout and numbering of filters. Its core: a new id is larger than
  any in tables or indexes, and a rule is stored only when the index names no live rule.
  `KernelInv` relates the tables to the filters, through the three loops (`RemovalEffect`,
  `ReapplyEffect`, `NatRemovalEffect`, each from `LoopRule`). `AlwaysTyped`,
  `RulesAlwaysEnforced` and `HandlesAlwaysOwn` follow and assume nothing of the kernel's
  numbering, of tc or of the rules' priorities: what each can do wrong is recorded in
  `suspect` when it happens, and the theorems are about everything else. The invariant adds to
  the two properties that filters of one port and priority have different handles and
  different matches, that no two stored rules have priority and match in common, and that a
  handle stored for a rule off the suspect priorities is that of its own filter: it is the
  highest when it is read, because the filter was added just before and in turn.

Every invariant and every action property that a passing run checks is proved, but for
`KernelMatchesDb`, which needs that nothing fails and nobody restarts the daemon: it is
model-checked. So are the liveness properties (`SplitBrainResolves`, `FailoverHappens`,
`DanglingSwept`, `IdleRemoved`, `StopQuiets`, `StopReleases`, `TrafficFlows`, `SteadyServed`,
`OrphansSwept`): the prover does not do fairness.

## 5. Not modelled, and plan

* Read-only endpoints, statistics and their parsing, logging; the audit log, which no
  handler reads back; `conntrack.py`, which parses output for display; set-up scripts, UI,
  TUI and bindings; `flush_rules` of `tc_manager.py` and `flush_nat` of `nat_manager.py`,
  which nobody calls.
* The UDP listener of the receiver, which no profile sends to, and its counters and client
  threads, which no decision reads.
* The datapath's pipeline: no program runs it against the offload daemon (see above), so
  the composition would model a system that does not exist yet.
* The test library of the API server (`test_runner.py` and what it uses): its entry point
  imports none of it.
* The DOCA firewall: its rule table is one array under one lock; its CT entries live in
  hardware pipes whose behaviour the source does not show.

Worth proving next: the safety core of the liveness properties, such as that a stop under
way in the receiver has only its own listeners left to wait for. Worth modelling next: the
rule table of the DOCA firewall against a reference definition of first match, and the
datapath when it gets a packet loop.
