-------------------------------- MODULE Testbed --------------------------------
(***************************************************************************)
(* The demonstration: the traffic generator opens connections through the  *)
(* firewall under test to the receiver, which counts them.  The two run in *)
(* processes of their own and share nothing but the network: an attempt    *)
(* may always fail, and reaches the receiver only when the firewall lets   *)
(* the port through and the receiver has it; the connection then waits in  *)
(* the receiver's backlog.                                                 *)
(*                                                                         *)
(* Requests arrive whenever they like.  Neither program keeps two of its   *)
(* own apart, and what two that overlap leave behind can stay wrong for    *)
(* good (two starts of the receiver: one clears the list that the other is *)
(* filling).  A history variable remembers the programs this has happened  *)
(* to; what needs requests one after the other says so with Orderly.       *)
(***************************************************************************)
EXTENDS TrafficGen, Receiver, FiniteSetsExt

ASSUME TestbedAssumption == Ports \subseteq Listened

VARIABLE overlapped     \* the programs that have had two requests under way at a time

vars == <<profile, running, stop_event, stats, port_stats, workers, req, thread,
          active, listeners, loop, backlog, call, overlapped>>

Init ==
    /\ InitTraffic
    /\ InitReceiver
    /\ overlapped = {}

\* A connection to the receiver.
Establish(t) ==
    /\ RecordPort(t)
    /\ loop[thread[t].port] # "off" /\ backlog[thread[t].port] < MaxBacklog
    /\ backlog' = [backlog EXCEPT ![thread[t].port] = @ + 1]
    /\ UNCHANGED <<active, listeners, loop, call, overlapped>>

\* No request of the program is under way, and never were two.
Settled == \A r \in Requests : req[r] = Idle
ReceiverSettled == \A c \in Calls : call[c] = NoCall
Orderly(program) == program \notin overlapped

GenOnly(A) == A /\ UNCHANGED rcv_vars /\ UNCHANGED overlapped
RcvOnly(A) == A /\ UNCHANGED gen_vars /\ UNCHANGED overlapped

\* A new request.
Arrives(program, busy) ==
    overlapped' = IF busy THEN overlapped \cup {program} ELSE overlapped

GenArrival(r) ==
    /\ stop(r) \/ \E p \in Profiles : api_start(r, p)
    /\ Arrives("generator", ~Settled)
    /\ UNCHANGED rcv_vars

RcvArrival(c) ==
    /\ rcv_start(c) \/ rcv_stop(c)
    /\ Arrives("receiver", ~ReceiverSettled)
    /\ UNCHANGED gen_vars

Next ==
    \/ \E r \in Requests : GenArrival(r)
    \/ \E r \in Requests : GenOnly(ControlStep(r))
    \/ \E c \in Calls : RcvArrival(c)
    \/ \E c \in Calls : RcvOnly(CallStep(c))
    \/ \E t \in Threads : GenOnly(WorkerStep(t)) \/ Establish(t)
    \/ \E p \in Listened : RcvOnly(HostStep(p))

Spec == Init /\ [][Next]_vars

\* Threads that have started keep running, and the firewall lets through a worker
\* that keeps trying; nothing is assumed of operators or of what can fail.
FairSpec ==
    /\ Spec
    /\ \A t \in Threads : WF_vars(GenOnly(WorkerStep(t))) /\ SF_vars(Establish(t))
    /\ \A r \in Requests : WF_vars(GenOnly(ControlStep(r)))
    /\ \A c \in Calls : WF_vars(RcvOnly(CallStep(c)))
    /\ \A p \in Listened : WF_vars(RcvOnly(Accept(p))) /\ WF_vars(RcvOnly(LoopEnds(p)))

-----------------------------------------------------------------------------
(* Properties *)

WorkerStates ==
    {Ended} \cup [pc : {"new", "boot", "loop", "connect", "recorded"},
                  port : Ports, ps : {"none", "listed", "detached"}]

ControlStates ==
    {Idle}
    \cup [pc : {"start", "event", "flag", "reset", "clear", "ports", "halt", "unflag"}]
    \cup [pc : {"fill"}, todo : (SUBSET Ports) \ {{}}, ports : (SUBSET Ports) \ {{}}]
    \cup [pc : {"spawn"}, todo : (SUBSET Ports) \ {{}}]
    \cup [pc : {"launch"}, todo : SUBSET Ports, worker : Threads]
    \cup [pc : {"join"}, at : Nat \ {0}]

CallStates ==
    {NoCall}
    \cup [pc : {"clear", "inactive"}]
    \cup [pc : {"bind"}, at : 1..(Len(Configs) + 1)]
    \cup [pc : {"stop"}, at : Nat \ {0}]
    \cup [pc : {"join"}, at : Nat \ {0}, port : Listened]

Entries == [port : Listened, open : BOOLEAN]

\* A worker that records into a listed PortStats is one whose port has one.
TypeOK ==
    /\ profile \in Profiles
    /\ running \in BOOLEAN /\ stop_event \in BOOLEAN
    /\ stats \in Nat
    /\ DOMAIN port_stats \subseteq Ports
    /\ \A p \in DOMAIN port_stats : port_stats[p] \in Nat
    /\ workers \in Seq(Threads)
    /\ req \in [Requests -> ControlStates]
    /\ thread \in [Threads -> WorkerStates]
    /\ \A t \in Alive : thread[t].ps = "listed" => thread[t].port \in DOMAIN port_stats
    /\ active \in BOOLEAN
    /\ listeners \in Seq(Entries)
    /\ loop \in [Listened -> {"off", "run", "stopping", "failed"}]
    /\ backlog \in [Listened -> Nat]
    /\ call \in [Calls -> CallStates]
    /\ overlapped \subseteq {"generator", "receiver"}

\* "running" in /api/stats is borne out: every port shown there has a worker that
\* is alive and records into it, whatever workers of earlier sessions are still about.
Serves(t, p) ==
    /\ t \in Alive /\ thread[t].port = p
    /\ thread[t].pc = "boot" \/ thread[t].ps = "listed"

PortsCovered ==
    (running /\ Settled /\ Orderly("generator")) =>
        \A p \in DOMAIN port_stats : \E t \in Threads : Serves(t, p)

\* Attempts recorded for a port and not yet in the aggregate.
Pending == {t \in Alive : thread[t].pc = "recorded"}

\* The two kinds of statistics sit under different locks, and start() resets one
\* after the other.  Except between the two resets, the aggregate accounts for every
\* attempt shown per port, save those whose worker is between its two records; also
\* when starts and stops overlap.
AggregateCoversPorts ==
    (\A r \in Requests : req[r].pc # "clear") =>
        MapThenSumSet(LAMBDA p : port_stats[p], DOMAIN port_stats)
            <= stats + Cardinality(Pending)

\* "Stop all traffic generation" (generator.py:208): if the generator stays
\* stopped, every worker ends, those that stop() gave up on and those of a session
\* before too.
StopQuiets ==
    <>[](~running /\ Settled /\ Orderly("generator")) => <>[](Alive = {})

\* "running" of the receiver is borne out: every configured port is bound, by a
\* listener that stop() will find and whose counters /api/stats shows, after failed
\* starts too.  That its loop has died is the one thing that goes unnoticed.
ActiveServes ==
    (active /\ ReceiverSettled /\ Orderly("receiver")) =>
        \A p \in Listened : loop[p] \in {"run", "failed"} /\ Listed(p)

\* A stop that has begun comes to its end and gives every port back, the ports of
\* listeners whose loops died before included.
StopReleases ==
    \A c \in Calls : (call[c].pc = "stop" /\ Orderly("receiver")) ~>
        ((~active /\ \A p \in Listened : loop[p] = "off") \/ ~Orderly("receiver"))

\* "that port's counters stop incrementing, providing visible proof" (listener.py:6-7)
\* is a proof only if they do not stop otherwise: while generator and receiver run, no
\* accept() of the port fails and the firewall lets it through, connections to a port
\* of the profile keep being counted, whatever starts, stops, failures and abandoned
\* workers came before.
Demonstrated(p) ==
    /\ running /\ Settled /\ Orderly("generator") /\ p \in DOMAIN port_stats
    /\ active /\ ReceiverSettled /\ Orderly("receiver") /\ loop[p] # "failed"

TrafficFlows ==
    \A p \in Ports : <>[]Demonstrated(p) => []<><<RcvOnly(Accept(p))>>_vars
===============================================================================
