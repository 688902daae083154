---------------------------------- MODULE HA ----------------------------------
(***************************************************************************)
(* The active/standby protocol of tc-firewall: class HAManager of          *)
(* tc-firewall/src/ha.py and the /ha endpoints of main.py, on the two DPUs *)
(* of a pair.                                                              *)
(*                                                                         *)
(* Each daemon is one asyncio loop, and no method of HAManager awaits      *)
(* between reading and writing its fields, so each method is one action.   *)
(* Heartbeats are HTTP requests with a timeout: a request the sender has   *)
(* given up on may still be delivered, so requests can be lost, delayed    *)
(* and overtaken.  Time is abstracted to what the monitor tells apart:     *)
(* whether the last heartbeat is recent, is older than the timeout, or was *)
(* never received.                                                         *)
(*                                                                         *)
(* This is the protocol as HAManager implements it, for a pair whose       *)
(* daemons build it with init_ha_manager and start it with start().  At    *)
(* this commit main.py imports init_ha_manager but calls neither, and only *)
(* the tests do: get_ha_manager() makes each daemon a peerless ACTIVE      *)
(* node whose two loops do not run, which is WithPeer = {} here.           *)
(***************************************************************************)
EXTENDS Integers, FiniteSets

CONSTANTS
    Nodes,          \* the daemons
    Peer,           \* Peer[n]: the node that n's peer_url points to
    WithPeer,       \* nodes started with a peer_url
    DiskErrors,     \* nodes on which writing the generation file may raise OSError
    Crashes,        \* may daemons stop and come back?
    Operator,       \* may an operator use /ha/promote and /ha/demote at any time?
    MaxGeneration,  \* bound on generations
    MaxInFlight     \* MaxInFlight[n]: bound on n's undelivered heartbeats

ASSUME PeerAssumption ==
    /\ Peer \in [Nodes -> Nodes]
    /\ \A n \in Nodes : Peer[n] # n /\ Peer[Peer[n]] = n
    /\ WithPeer \subseteq Nodes

ASSUME BoundAssumption ==
    /\ MaxGeneration \in Nat /\ MaxInFlight \in [Nodes -> Nat]
    /\ DiskErrors \subseteq Nodes /\ Crashes \in BOOLEAN
    /\ Operator \in BOOLEAN

HAState == {"ACTIVE", "STANDBY", "FENCING"}

\* A heartbeat body; its sender identifies the addressee, Peer[from].
Heartbeat == [from : Nodes, generation : Nat, role : HAState]

\* The generation file is absent, empty or unreadable.
NoFile == 0

VARIABLES
    up,             \* is the daemon running?
    role,
    generation,     \* while the daemon is down: its value when it stopped
    disk,           \* contents of _gen_file, or NoFile
    heard,          \* last_heartbeat_received: "never", "recent" or "stale"
    running,        \* _running: do the sender's and the monitor's loops run?
    net,            \* heartbeats in flight
    torn            \* history: has a write of n's generation file failed or been cut short?

vars == <<up, role, generation, disk, heard, running, net, torn>>

\* __init__
InitialRole(n) == IF n \in WithPeer THEN "STANDBY" ELSE "ACTIVE"

\* Broken variant: the file is not read.
load_generation_Ignore(n) == 1

\* Broken variant: a missing file counts as generation 0.
load_generation_Raw(n) == disk[n]

load_generation(n) == IF disk[n] = NoFile THEN 1 ELSE disk[n]

Init ==
    /\ up = [n \in Nodes |-> TRUE]
    /\ role = [n \in Nodes |-> InitialRole(n)]
    /\ generation = [n \in Nodes |-> 1]
    /\ disk = [n \in Nodes |-> NoFile]
    /\ heard = [n \in Nodes |-> "never"]
    /\ running = [n \in Nodes |-> FALSE]
    /\ net = {}
    /\ torn = [n \in Nodes |-> FALSE]

-----------------------------------------------------------------------------
(* Role changes *)

\* What the file may hold after _persist_generation: OSError is swallowed, and
\* open(..., "w") has already emptied the file if the write itself fails.
PersistOutcomes(n, g) == {g} \cup IF n \in DiskErrors THEN {disk[n], NoFile} ELSE {}

\* Broken variant: a standby is left as it is.
promote_Nothing(n) == FALSE

promote(n) ==
    /\ role[n] # "ACTIVE"
    /\ generation[n] < MaxGeneration
    /\ generation' = [generation EXCEPT ![n] = @ + 1]
    /\ role' = [role EXCEPT ![n] = "ACTIVE"]
    /\ \E d \in PersistOutcomes(n, generation[n] + 1) :
          /\ disk' = [disk EXCEPT ![n] = d]
          /\ torn' = [torn EXCEPT ![n] = @ \/ d # generation[n] + 1]
    /\ UNCHANGED <<up, heard, running, net>>

\* main.py sets no _flush_callback, so nothing is flushed.
_demote(n) == role' = [role EXCEPT ![n] = "STANDBY"]

-----------------------------------------------------------------------------
(* Heartbeats *)

\* _heartbeat_sender, one iteration.
SendHeartbeat(n) ==
    /\ running[n]
    /\ Cardinality({m \in net : m.from = n}) < MaxInFlight[n]
    /\ net' = net \cup {[from |-> n, generation |-> generation[n], role |-> role[n]]}
    /\ UNCHANGED <<up, role, generation, disk, heard, running, torn>>

\* Broken variant: a tie demotes as if it were lost.
resolve_split_brain_TieDemotes(n, g) ==
    \/ /\ generation[n] > g
       /\ UNCHANGED role
    \/ /\ generation[n] <= g
       /\ _demote(n)

\* Broken variant: the winner fences itself.
resolve_split_brain_WinnerFences(n, g) ==
    \/ /\ generation[n] < g
       /\ _demote(n)
    \/ /\ generation[n] >= g
       /\ role' = [role EXCEPT ![n] = "FENCING"]

\* Broken variant: the loser waits to be demoted by somebody else.
resolve_split_brain_Waits(n, g) ==
    \/ /\ generation[n] # g
       /\ UNCHANGED role
    \/ /\ generation[n] = g
       /\ role' = [role EXCEPT ![n] = "FENCING"]

_resolve_split_brain(n, g) ==
    \/ /\ generation[n] > g              \* we win: peer_must_demote
       /\ UNCHANGED role
    \/ /\ generation[n] < g              \* we lose: self_demoted
       /\ _demote(n)
    \/ /\ generation[n] = g              \* fencing_equal_generation
       /\ role' = [role EXCEPT ![n] = "FENCING"]

\* POST /ha/heartbeat.  The sender ignores the reply.
receive_heartbeat(n, m) ==
    /\ up[n] /\ Peer[m.from] = n
    /\ net' = net \ {m}
    /\ heard' = [heard EXCEPT ![n] = "recent"]
    /\ IF role[n] = "ACTIVE" /\ m.role = "ACTIVE"
         THEN _resolve_split_brain(n, m.generation)
         ELSE UNCHANGED role
    /\ UNCHANGED <<up, generation, disk, running, torn>>

\* The request never arrives, or arrives while the daemon is down.
LoseHeartbeat(m) ==
    /\ net' = net \ {m}
    /\ UNCHANGED <<up, role, generation, disk, heard, running, torn>>

\* heartbeat_timeout_ms pass without a heartbeat: peer_alive becomes false.
HeartbeatTimeout(n) ==
    /\ up[n] /\ heard[n] = "recent"
    /\ heard' = [heard EXCEPT ![n] = "stale"]
    /\ UNCHANGED <<up, role, generation, disk, running, net, torn>>

\* The peer was alive but is now unresponsive.
PeerLost(n) == running[n] /\ role[n] = "STANDBY" /\ heard[n] = "stale"

\* _heartbeat_monitor, an iteration that acts.
MonitorPromote(n) == PeerLost(n) /\ promote(n)

-----------------------------------------------------------------------------
(* Operator, process lifecycle *)

\* Without Operator, /ha/promote is used once, to give a pair that has just
\* started its first active node.
OperatorMay == Operator \/ \A m \in Nodes : generation[m] = 1

\* POST /ha/promote
OperatorPromote(n) == up[n] /\ OperatorMay /\ promote(n)

\* POST /ha/demote
OperatorDemote(n) ==
    /\ up[n] /\ Operator
    /\ role[n] # "STANDBY"
    /\ _demote(n)
    /\ UNCHANGED <<up, generation, disk, heard, running, net, torn>>

\* A peerless manager starts no task.
start(n) ==
    /\ up[n] /\ n \in WithPeer
    /\ running' = [running EXCEPT ![n] = TRUE]
    /\ UNCHANGED <<up, role, generation, disk, heard, net, torn>>

\* Role, generation and clocks stay, and the daemon still answers heartbeats.
stop(n) ==
    /\ up[n]
    /\ running' = [running EXCEPT ![n] = FALSE]
    /\ UNCHANGED <<up, role, generation, disk, heard, net, torn>>

\* The process ends and its fields are lost; the generation file stays.
Exit(n) ==
    /\ up[n] /\ Crashes
    /\ up' = [up EXCEPT ![n] = FALSE]
    /\ role' = [role EXCEPT ![n] = InitialRole(n)]
    /\ heard' = [heard EXCEPT ![n] = "never"]
    /\ running' = [running EXCEPT ![n] = FALSE]
    /\ UNCHANGED <<generation, net>>

Crash(n) == Exit(n) /\ UNCHANGED <<disk, torn>>

\* It ends inside promote(), between open(..., "w"), which empties the file
\* whatever the disk, and the write.
CrashWhilePersisting(n) ==
    /\ PeerLost(n) \/ OperatorMay
    /\ role[n] # "ACTIVE"
    /\ Exit(n)
    /\ disk' = [disk EXCEPT ![n] = NoFile]
    /\ torn' = [torn EXCEPT ![n] = TRUE]

Restart(n) ==
    /\ ~up[n]
    /\ up' = [up EXCEPT ![n] = TRUE]
    /\ role' = [role EXCEPT ![n] = InitialRole(n)]
    /\ generation' = [generation EXCEPT ![n] = load_generation(n)]
    /\ heard' = [heard EXCEPT ![n] = "never"]
    /\ UNCHANGED <<disk, running, net, torn>>

Next ==
    \/ \E n \in Nodes :
          \/ SendHeartbeat(n)
          \/ HeartbeatTimeout(n)
          \/ MonitorPromote(n)
          \/ OperatorPromote(n)
          \/ OperatorDemote(n)
          \/ start(n)
          \/ stop(n)
          \/ Crash(n)
          \/ CrashWhilePersisting(n)
          \/ Restart(n)
          \/ \E m \in net : receive_heartbeat(n, m)
    \/ \E m \in net : LoseHeartbeat(m)

Spec == Init /\ [][Next]_vars

-----------------------------------------------------------------------------
(* Fairness: the loops that start() creates iterate while _running holds, the
   link does not lose every heartbeat, and time passes once the peer is silent
   for good.  Nothing is assumed of who calls start() or stop(), of operators,
   crashes or spurious timeouts: a daemon that is never started owes nothing. *)

Silent(n) == ~running[Peer[n]] /\ \A m \in net : m.from # Peer[n]

TimeoutOfSilentPeer(n) == Silent(n) /\ HeartbeatTimeout(n)

Deliver(n) == \E m \in net : receive_heartbeat(n, m)

Settle(n) == \E m \in net : m.from = n /\ ~up[Peer[n]] /\ LoseHeartbeat(m)

FairSpec ==
    /\ Spec
    /\ \A n \in Nodes :
          /\ WF_vars(SendHeartbeat(n))
          /\ SF_vars(Deliver(n))
          /\ WF_vars(Settle(n))
          /\ WF_vars(TimeoutOfSilentPeer(n))
          /\ WF_vars(MonitorPromote(n))

-----------------------------------------------------------------------------
(* Properties *)

TypeOK ==
    /\ up \in [Nodes -> BOOLEAN]
    /\ role \in [Nodes -> HAState]
    /\ generation \in [Nodes -> Nat \ {0}]
    /\ disk \in [Nodes -> Nat]
    /\ heard \in [Nodes -> {"never", "recent", "stale"}]
    /\ running \in [Nodes -> BOOLEAN]
    /\ net \subseteq Heartbeat
    /\ torn \in [Nodes -> BOOLEAN]

\* "monotonic fencing token" (ha.py:63), as far as it holds: neither a promotion,
\* nor a restart that reads the generation back from the file, takes a node to a
\* lower one unless a write of its file has failed or was cut short by a crash.
GenerationMonotone ==
    [][\A n \in Nodes : ~torn[n] => generation'[n] >= generation[n]]_vars

\* "higher generation wins" (ha.py:6): whatever heartbeats were lost, delayed or
\* overtaken and whoever crashed meanwhile, a heartbeat makes a node step down
\* only if its peer's generation IS higher now, or the peer lost its file.
OnlyOutrankedStepDown ==
    [][\A n \in Nodes :
         (net' # net /\ role[n] = "ACTIVE" /\ role'[n] = "STANDBY" /\ ~torn[Peer[n]])
            => generation[n] < generation[Peer[n]]]_vars

\* FENCING is entered by way of a tie only: the peer has reached at least the
\* fenced node's generation, unless it lost its file since.
FencedAreTied ==
    \A n \in Nodes :
        (up[n] /\ role[n] = "FENCING" /\ ~torn[Peer[n]])
            => generation[n] <= generation[Peer[n]]

BothActive(n) ==
    /\ running[n] /\ running[Peer[n]]
    /\ role[n] = "ACTIVE" /\ role[Peer[n]] = "ACTIVE"

\* A split brain does not last: of two active nodes whose managers run and
\* exchange heartbeats, one gives way.
SplitBrainResolves ==
    \A n \in Nodes : (BothActive(n) ~> ~BothActive(n))

\* A standby whose manager runs and that has heard its peer takes over when the
\* peer falls silent and stays so (it crashed, or its manager was stopped), however
\* many of its heartbeats are still under way.
CanTakeOver(n) ==
    /\ running[n] /\ ~running[Peer[n]]
    /\ role[n] = "STANDBY"
    /\ heard[n] # "never"
    /\ generation[n] < MaxGeneration

FailoverHappens == \A n \in Nodes : (CanTakeOver(n) ~> ~CanTakeOver(n))

===============================================================================
