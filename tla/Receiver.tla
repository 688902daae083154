------------------------------- MODULE Receiver -------------------------------
(***************************************************************************)
(* The traffic receiver: class TrafficReceiver and its listeners of        *)
(* receiver/src/listener.py, driven by the Flask handlers of               *)
(* receiver/src/web.py, each request on a thread of its own and with       *)
(* nothing between them but the interpreter: two may overlap.              *)
(*                                                                         *)
(* start() opens one listening socket per configured port, in order, each  *)
(* with a thread that accepts connections; the first that cannot be opened *)
(* makes start() raise.  A closed socket keeps its port until its thread   *)
(* has left accept(), at most a second later.  An accept() that fails ends *)
(* its thread and leaves the socket open, until the listener object goes.  *)
(* The counters, which only grow and which no decision reads, are left     *)
(* out: accepting is counting.  So is the UDP listener, which no profile   *)
(* of the generator sends to and which can share its port.                 *)
(***************************************************************************)
EXTENDS Integers, Sequences, Functions

CONSTANTS
    Configs,        \* DEFAULT_LISTENERS: the TCP ports, in order
    Calls,          \* the HTTP requests that can be under way at a time
    MaxBacklog      \* listen(128)

ASSUME ConfigAssumption ==
    /\ Configs \in Seq(Range(Configs))
    /\ \A i, j \in DOMAIN Configs : Configs[i] = Configs[j] => i = j
    /\ MaxBacklog \in Nat

Listened == Range(Configs)

VARIABLES
    active,         \* _running
    listeners,      \* _listeners: their ports, and whether stop() has been called
    loop,           \* the port's socket and accept loop: there is none ("off"), it
                    \* accepts ("run"), it is closed but not gone ("stopping"), or the
                    \* socket is left without a loop ("failed")
    backlog,        \* connections established and not accepted
    call            \* what each request's thread is about to do

rcv_vars == <<active, listeners, loop, backlog, call>>

NoCall == [pc |-> "idle"]

Open(p) == [port |-> p, open |-> TRUE]
Closed(p) == [port |-> p, open |-> FALSE]
Listed(p) == Open(p) \in Range(listeners)

\* main() starts the receiver before it serves requests; if that fails the process ends.
InitReceiver ==
    /\ active = TRUE
    /\ listeners = [i \in DOMAIN Configs |-> Open(Configs[i])]
    /\ loop = [p \in Listened |-> "run"]
    /\ backlog = [p \in Listened |-> 0]
    /\ call = [c \in Calls |-> NoCall]

\* The sockets of the ports in S are gone; connections that waited are reset.
Release(S) ==
    /\ loop' = [p \in Listened |-> IF p \in S THEN "off" ELSE loop[p]]
    /\ backlog' = [p \in Listened |-> IF p \in S THEN 0 ELSE backlog[p]]

-----------------------------------------------------------------------------
(* POST /api/start *)

rcv_start(c) ==
    /\ call[c] = NoCall /\ ~active
    /\ call' = [call EXCEPT ![c] = [pc |-> "clear"]]
    /\ UNCHANGED <<active, listeners, loop, backlog>>

\* The listeners held so far are dropped from the list, not stopped: those whose
\* loop runs live on with it, the others' sockets go with the last reference.
ClearListeners(c) ==
    /\ call[c].pc = "clear"
    /\ listeners' = <<>>
    /\ Release({p \in Listened : loop[p] = "failed"})
    /\ call' = [call EXCEPT ![c] = [pc |-> "bind", at |-> 1]]
    /\ UNCHANGED active

\* One listener is created, bound and started, then listed.
StartListener(c) ==
    /\ call[c].pc = "bind" /\ call[c].at <= Len(Configs)
    /\ LET p == Configs[call[c].at]
       IN  /\ loop[p] = "off"
           /\ loop' = [loop EXCEPT ![p] = "run"]
           /\ listeners' = Append(listeners, Open(p))
    /\ call' = [call EXCEPT ![c] = [pc |-> "bind", at |-> @.at + 1]]
    /\ UNCHANGED <<active, backlog>>

\* Broken variant: a port that is taken is skipped.
StartFails_Skip(c) ==
    /\ call[c].pc = "bind" /\ call[c].at <= Len(Configs)
    /\ call' = [call EXCEPT ![c] = [pc |-> "bind", at |-> @.at + 1]]
    /\ UNCHANGED <<active, listeners, loop, backlog>>

\* Neither bind() succeeds, the port being ours still or some other program's, or there
\* is no descriptor or thread to be had: the exception leaves start(), and what was
\* started stays.
StartFails(c) ==
    /\ call[c].pc = "bind" /\ call[c].at <= Len(Configs)
    /\ call' = [call EXCEPT ![c] = NoCall]
    /\ UNCHANGED <<active, listeners, loop, backlog>>

StartSucceeds(c) ==
    /\ call[c].pc = "bind" /\ call[c].at > Len(Configs)
    /\ active' = TRUE
    /\ call' = [call EXCEPT ![c] = NoCall]
    /\ UNCHANGED <<listeners, loop, backlog>>

-----------------------------------------------------------------------------
(* POST /api/stop *)

rcv_stop(c) ==
    /\ call[c] = NoCall /\ active
    /\ call' = [call EXCEPT ![c] = [pc |-> "stop", at |-> 1]]
    /\ UNCHANGED <<active, listeners, loop, backlog>>

\* The next listener of the list as it is now: its event is set and its socket closed,
\* if that has not been done before.
StopListener(c) ==
    /\ call[c].pc = "stop" /\ call[c].at <= Len(listeners)
    /\ LET entry == listeners[call[c].at]
           p == entry.port
       IN  /\ listeners' = [listeners EXCEPT ![call[c].at] = Closed(p)]
           /\ IF entry.open /\ loop[p] = "run"
                THEN loop' = [loop EXCEPT ![p] = "stopping"] /\ UNCHANGED backlog
                ELSE Release({q \in {p} : entry.open})
           /\ call' = [call EXCEPT ![c] = [pc |-> "join", at |-> @.at, port |-> p]]
    /\ UNCHANGED active

\* join(timeout=3.0): longer than accept() waits.
JoinListener(c) ==
    /\ call[c].pc = "join" /\ loop[call[c].port] # "stopping"
    /\ call' = [call EXCEPT ![c] = [pc |-> "stop", at |-> @.at + 1]]
    /\ UNCHANGED <<active, listeners, loop, backlog>>

StopEnds(c) ==
    /\ call[c].pc = "stop" /\ call[c].at > Len(listeners)
    /\ call' = [call EXCEPT ![c] = [pc |-> "inactive"]]
    /\ UNCHANGED <<active, listeners, loop, backlog>>

\* Broken variant: the flag falls while listeners are still being stopped.
StopDone_Early(c) ==
    /\ call[c].pc \in {"stop", "inactive"}
    /\ active' = FALSE
    /\ call' = [call EXCEPT ![c] = NoCall]
    /\ UNCHANGED <<listeners, loop, backlog>>

\* All are stopped; the list keeps them, for the statistics.
StopDone(c) ==
    /\ call[c].pc = "inactive"
    /\ active' = FALSE
    /\ call' = [call EXCEPT ![c] = NoCall]
    /\ UNCHANGED <<listeners, loop, backlog>>

-----------------------------------------------------------------------------
(* Accept loops *)

\* A connection is counted and handed to a thread of its own.
Accept(p) ==
    /\ loop[p] = "run" /\ backlog[p] > 0
    /\ backlog' = [backlog EXCEPT ![p] = @ - 1]
    /\ UNCHANGED <<active, listeners, loop, call>>

\* accept() or the start of the connection's thread fails.  The loop is over; its
\* socket stays with a listener that is listed, and goes with one that is not.
LoopFails(p) ==
    /\ loop[p] = "run"
    /\ \/ /\ Listed(p)
          /\ loop' = [loop EXCEPT ![p] = "failed"]
          /\ UNCHANGED backlog
       \/ ~Listed(p) /\ Release({p})
    /\ UNCHANGED <<active, listeners, call>>

\* Broken variant: the time limit of accept(), an OSError too, ends the loop.
LoopEnds_OnTimeout(p) ==
    /\ loop[p] \in {"run", "stopping"}
    /\ Release({p})
    /\ UNCHANGED <<active, listeners, call>>

\* The loop sees the event or the closed socket.
LoopEnds(p) ==
    /\ loop[p] = "stopping"
    /\ Release({p})
    /\ UNCHANGED <<active, listeners, call>>

CallStep(c) ==
    \/ ClearListeners(c) \/ StartListener(c) \/ StartFails(c) \/ StartSucceeds(c)
    \/ StopListener(c) \/ JoinListener(c) \/ StopEnds(c) \/ StopDone(c)

HostStep(p) == Accept(p) \/ LoopFails(p) \/ LoopEnds(p)
===============================================================================
