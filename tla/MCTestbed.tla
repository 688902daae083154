------------------------------ MODULE MCTestbed ------------------------------
(* Two ports, one of them in the profile, and room for a worker left over. *)
EXTENDS Testbed, TLC

CONSTANTS p1, p2, mixed, r1, c1, t1, t2

MCProfiles == (mixed :> {p1})
MCConfigs == <<p1, p2>>
=============================================================================
