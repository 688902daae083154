--------------------------------- MODULE MCHA ---------------------------------
(* Two daemons that point at each other. *)
EXTENDS HA

CONSTANTS n1, n2

\* One undelivered heartbeat of each node at a time.
MCInFlight == [n \in {n1, n2} |-> 1]

MCPeer == [n \in {n1, n2} |-> IF n = n1 THEN n2 ELSE n1]
=============================================================================
