------------------------------ MODULE TrafficGen ------------------------------
(***************************************************************************)
(* The traffic generator: class TrafficGenerator of                        *)
(* traffic-gen/src/generator.py, driven by the Flask handlers of           *)
(* traffic-gen/src/web.py, each request on a thread of its own and with    *)
(* nothing between them but the interpreter: two may overlap.              *)
(*                                                                         *)
(* start() spawns one worker thread per port of the profile, and all       *)
(* workers share one stop event.  stop() waits two seconds for each and    *)
(* then forgets it, so a worker stuck in connect() or sendall() may        *)
(* outlive it.  An action ends at the accesses to shared fields that other *)
(* threads can fall between; rates, sleeping times and byte counts are     *)
(* left out.                                                               *)
(***************************************************************************)
EXTENDS Integers, Sequences, FiniteSets, Functions

CONSTANTS
    Ports,          \* TCP ports that profiles target
    Profiles,
    PROFILE_PORTS,  \* Profile -> its ports
    DefaultProfile, \* Profile.MIXED
    Requests,       \* the HTTP requests that can be under way at a time
    Threads,        \* bound on worker threads alive or listed in _workers
    MaxAttempts     \* where counters saturate

ASSUME ProfileAssumption ==
    /\ PROFILE_PORTS \in [Profiles -> (SUBSET Ports) \ {{}}]
    /\ DefaultProfile \in Profiles
    /\ IsFiniteSet(Threads)
    /\ MaxAttempts \in Nat

VARIABLES
    profile,        \* _profile
    running,        \* _running
    stop_event,     \* _stop_event.is_set()
    stats,          \* stats.total_attempted, up to MaxTotal
    port_stats,     \* port_stats: port -> attempted, up to MaxAttempts
    workers,        \* _workers: threads in the order they were started
    req,            \* what each request's thread is about to do
    thread          \* the worker threads

gen_vars == <<profile, running, stop_event, stats, port_stats, workers, req, thread>>
control == <<profile, running, stop_event, workers, req>>

\* A worker's local variables: `ps` tells whether the PortStats object it
\* records into is still the one in port_stats.
Ended == [pc |-> "ended"]
Created(p) == [pc |-> "new", port |-> p, ps |-> "none"]
Booting(p) == [pc |-> "boot", port |-> p, ps |-> "none"]

Alive == {t \in Threads : thread[t] # Ended}

Idle == [pc |-> "idle"]

\* Counters saturate, the aggregate where the per-port ones together do.
Count(n, cap) == IF n < cap THEN n + 1 ELSE n
MaxTotal == MaxAttempts * Cardinality(Ports)

InitTraffic ==
    /\ profile = DefaultProfile
    /\ running = FALSE
    /\ stop_event = FALSE
    /\ stats = 0
    /\ port_stats = <<>>
    /\ workers = <<>>
    /\ req = [r \in Requests |-> Idle]
    /\ thread = [t \in Threads |-> Ended]

-----------------------------------------------------------------------------
(* POST /api/start *)

\* The handler sets the profile, whether or not the generator is running.
\* start() returns at once if it is.
api_start(r, p) ==
    /\ req[r] = Idle
    /\ profile' = p
    /\ req' = [req EXCEPT ![r] = [pc |-> "start"]]
    /\ UNCHANGED <<running, stop_event, stats, port_stats, workers, thread>>

start(r) ==
    /\ req[r].pc = "start"
    /\ req' = [req EXCEPT ![r] = IF running THEN Idle ELSE [pc |-> "event"]]
    /\ UNCHANGED <<profile, running, stop_event, stats, port_stats, workers, thread>>

StartEvent(r) ==
    /\ req[r].pc = "event"
    /\ stop_event' = FALSE
    /\ req' = [req EXCEPT ![r] = [pc |-> "flag"]]
    /\ UNCHANGED <<profile, running, stats, port_stats, workers, thread>>

StartFlag(r) ==
    /\ req[r].pc = "flag"
    /\ running' = TRUE
    /\ req' = [req EXCEPT ![r] = [pc |-> "reset"]]
    /\ UNCHANGED <<profile, stop_event, stats, port_stats, workers, thread>>

\* The PortStats objects of the ports in S leave port_stats; workers that hold
\* them go on recording into them.
Detached(t, S) ==
    IF thread[t] # Ended /\ thread[t].ps = "listed" /\ thread[t].port \in S
      THEN [thread[t] EXCEPT !.ps = "detached"] ELSE thread[t]

\* stats.reset
StartReset(r) ==
    /\ req[r].pc = "reset"
    /\ stats' = 0
    /\ req' = [req EXCEPT ![r] = [pc |-> "clear"]]
    /\ UNCHANGED <<profile, running, stop_event, port_stats, workers, thread>>

\* Broken variant: the ports of the last session stay on.
StartClear_Keep(r) ==
    /\ req[r].pc = "clear"
    /\ req' = [req EXCEPT ![r] = [pc |-> "ports"]]
    /\ UNCHANGED <<profile, running, stop_event, stats, port_stats, workers, thread>>

\* port_stats.clear
StartClear(r) ==
    /\ req[r].pc = "clear"
    /\ port_stats' = <<>>
    /\ thread' = [t \in Threads |-> Detached(t, Ports)]
    /\ req' = [req EXCEPT ![r] = [pc |-> "ports"]]
    /\ UNCHANGED <<profile, running, stop_event, stats, workers>>

\* The ports of what is the profile now.
StartPorts(r) ==
    /\ req[r].pc = "ports"
    /\ LET ports == PROFILE_PORTS[profile]
       IN  req' = [req EXCEPT ![r] = [pc |-> "fill", todo |-> ports, ports |-> ports]]
    /\ UNCHANGED <<profile, running, stop_event, stats, port_stats, workers, thread>>

\* A PortStats for one port after the other.
StartFill(r, p) ==
    /\ req[r].pc = "fill" /\ p \in req[r].todo
    /\ port_stats' = [q \in DOMAIN port_stats \cup {p} |-> IF q = p THEN 0 ELSE port_stats[q]]
    /\ thread' = [t \in Threads |-> Detached(t, {p})]
    /\ req' = [req EXCEPT ![r] =
                 IF @.todo = {p} THEN [pc |-> "spawn", todo |-> @.ports]
                   ELSE [pc |-> "fill", todo |-> @.todo \ {p}, ports |-> @.ports]]
    /\ UNCHANGED <<profile, running, stop_event, stats, workers>>

\* A worker is created and listed.
StartSpawn(r, t, p) ==
    /\ req[r].pc = "spawn" /\ p \in req[r].todo
    /\ t \notin Alive /\ t \notin Range(workers)
    /\ thread' = [thread EXCEPT ![t] = Created(p)]
    /\ workers' = Append(workers, t)
    /\ req' = [req EXCEPT ![r] = [pc |-> "launch", todo |-> @.todo \ {p}, worker |-> t]]
    /\ UNCHANGED <<profile, running, stop_event, stats, port_stats>>

\* Broken variant: a worker that is the last one is not started.
StartLaunch_OffByOne(r) ==
    /\ req[r].pc = "launch"
    /\ LET t == req[r].worker
       IN  thread' = [thread EXCEPT ![t] = IF req[r].todo = {} THEN Ended ELSE Booting(@.port)]
    /\ req' = [req EXCEPT ![r] = IF @.todo = {} THEN Idle
                                   ELSE [pc |-> "spawn", todo |-> @.todo]]
    /\ UNCHANGED <<profile, running, stop_event, stats, port_stats, workers>>

\* It is started; the next one, if there is one.
StartLaunch(r) ==
    /\ req[r].pc = "launch"
    /\ thread' = [thread EXCEPT ![req[r].worker] = Booting(@.port)]
    /\ req' = [req EXCEPT ![r] = IF @.todo = {} THEN Idle
                                   ELSE [pc |-> "spawn", todo |-> @.todo]]
    /\ UNCHANGED <<profile, running, stop_event, stats, port_stats, workers>>

-----------------------------------------------------------------------------
(* POST /api/stop *)

stop(r) ==
    /\ req[r] = Idle /\ running
    /\ req' = [req EXCEPT ![r] = [pc |-> "halt"]]
    /\ UNCHANGED <<profile, running, stop_event, stats, port_stats, workers, thread>>

\* Broken variant: the event is forgotten.
StopEvent_Forgotten(r) ==
    /\ req[r].pc = "halt"
    /\ req' = [req EXCEPT ![r] = [pc |-> "unflag"]]
    /\ UNCHANGED <<profile, running, stop_event, stats, port_stats, workers, thread>>

StopEvent(r) ==
    /\ req[r].pc = "halt"
    /\ stop_event' = TRUE
    /\ req' = [req EXCEPT ![r] = [pc |-> "unflag"]]
    /\ UNCHANGED <<profile, running, stats, port_stats, workers, thread>>

StopFlag(r) ==
    /\ req[r].pc = "unflag"
    /\ running' = FALSE
    /\ req' = [req EXCEPT ![r] = [pc |-> "join", at |-> 1]]
    /\ UNCHANGED <<profile, stop_event, stats, port_stats, workers, thread>>

\* join(timeout=2.0) of the next worker in the list as it is now returns: the worker
\* has ended, or the time is over.  Nobody looks which.  A thread that has not been
\* started makes join(), and with it stop(), raise.
StopJoin(r) ==
    /\ req[r].pc = "join" /\ req[r].at <= Len(workers)
    /\ req' = [req EXCEPT ![r] = IF thread[workers[req[r].at]].pc = "new" THEN Idle
                                   ELSE [pc |-> "join", at |-> req[r].at + 1]]
    /\ UNCHANGED <<profile, running, stop_event, stats, port_stats, workers, thread>>

StopClear(r) ==
    /\ req[r].pc = "join" /\ req[r].at > Len(workers)
    /\ workers' = <<>>
    /\ req' = [req EXCEPT ![r] = Idle]
    /\ UNCHANGED <<profile, running, stop_event, stats, port_stats, thread>>

-----------------------------------------------------------------------------
(* A worker thread *)

\* Broken variant: a port without PortStats goes unnoticed.
WorkerBoot_Unchecked(t) ==
    /\ thread[t].pc = "boot"
    /\ thread' = [thread EXCEPT ![t] = [@ EXCEPT !.pc = "loop", !.ps = "listed"]]
    /\ UNCHANGED <<stats, port_stats>> /\ UNCHANGED control

\* self.port_stats[target.port]; a KeyError ends the thread.
WorkerBoot(t) ==
    /\ thread[t].pc = "boot"
    /\ thread' = [thread EXCEPT ![t] =
                    IF thread[t].port \in DOMAIN port_stats
                      THEN [pc |-> "loop", port |-> @.port, ps |-> "listed"] ELSE Ended]
    /\ UNCHANGED <<stats, port_stats>> /\ UNCHANGED control

\* The stop event is looked at, in the loop's head or between naps: the worker
\* ends, or sooner or later begins an attempt.
WorkerLoop(t) ==
    /\ thread[t].pc = "loop"
    /\ thread' = [thread EXCEPT ![t] = IF stop_event THEN Ended
                                                     ELSE [@ EXCEPT !.pc = "connect"]]
    /\ UNCHANGED <<stats, port_stats>> /\ UNCHANGED control

\* The attempt is over: ps.record_success or ps.record_failure.
RecordPort(t) ==
    /\ thread[t].pc = "connect"
    /\ port_stats' = IF thread[t].ps = "listed"
                       THEN [port_stats EXCEPT ![thread[t].port] = Count(@, MaxAttempts)]
                       ELSE port_stats
    /\ thread' = [thread EXCEPT ![t] = [@ EXCEPT !.pc = "recorded"]]
    /\ UNCHANGED stats /\ UNCHANGED control

\* self.stats.record_success or record_failure, under another lock.
RecordAll(t) ==
    /\ thread[t].pc = "recorded"
    /\ stats' = Count(stats, MaxTotal)
    /\ thread' = [thread EXCEPT ![t] = [@ EXCEPT !.pc = "loop"]]
    /\ UNCHANGED port_stats /\ UNCHANGED control

WorkerStep(t) == WorkerBoot(t) \/ WorkerLoop(t) \/ RecordPort(t) \/ RecordAll(t)

ControlStep(r) ==
    \/ start(r) \/ StartEvent(r) \/ StartFlag(r) \/ StartReset(r) \/ StartClear(r)
    \/ StartPorts(r) \/ StartLaunch(r)
    \/ StopEvent(r) \/ StopFlag(r) \/ StopJoin(r) \/ StopClear(r)
    \/ \E p \in Ports : StartFill(r, p) \/ \E t \in Threads : StartSpawn(r, t, p)
===============================================================================
