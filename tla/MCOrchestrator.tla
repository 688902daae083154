---------------------------- MODULE MCOrchestrator ----------------------------
(* Three clients: one that stays while two others come and go. *)
EXTENDS Orchestrator

CONSTANTS c1, c2, c3
=============================================================================
