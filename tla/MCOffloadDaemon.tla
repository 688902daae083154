---------------------------- MODULE MCOffloadDaemon ----------------------------
(* Small instances of OffloadDaemon: the two directions of one connection. *)
EXTENDS OffloadDaemon, TLC

CONSTANTS k1, k2, r1, c1

MCReverse == (k1 :> k2) @@ (k2 :> k1)
MCVni == (k1 :> 100) @@ (k2 :> 100)

MCFlushRule == {[by |-> "rule", rule |-> r1]}
=============================================================================
