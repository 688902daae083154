------------------------------ MODULE PortLease ------------------------------
(***************************************************************************)
(* What a source-port pool promises its callers, without tables, hints or  *)
(* sweeps: a lease of a port is given to one connection, is exclusive      *)
(* while it lasts, and ends only when its owner gives it up or its time is *)
(* over.  SNATState is shown to implement it.                              *)
(***************************************************************************)
EXTENDS Integers

CONSTANTS
    Addresses,
    Ports,
    Owners,
    Durations

VARIABLES
    leases,         \* the leases that are valid now
    now

vars == <<leases, now>>

Valid(l, t) == t - l.allocated_at < l.timeout

Init == leases = {} /\ now = 0

\* A lease begins now, on a port that nobody holds.
Grant(a, p, c, d) ==
    LET l == [ip |-> a, port |-> p, conn |-> c, allocated_at |-> now, timeout |-> d]
    IN  /\ Valid(l, now)
        /\ \A m \in leases : (m.ip # a \/ m.port # p) /\ m.conn # c
        /\ leases' = leases \cup {l}
        /\ UNCHANGED now

\* Its owner gives it up.
GiveUp(l) ==
    /\ leases' = leases \ {l}
    /\ UNCHANGED now

\* Time ends leases, and nothing else does.
Advance ==
    /\ now' = now + 1
    /\ leases' = {l \in leases : Valid(l, now')}

Next ==
    \/ \E a \in Addresses, p \in Ports, c \in Owners, d \in Durations : Grant(a, p, c, d)
    \/ \E l \in leases : GiveUp(l)
    \/ Advance

Spec == Init /\ [][Next]_vars
=============================================================================
