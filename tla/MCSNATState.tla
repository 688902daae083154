----------------------------- MODULE MCSNATState -----------------------------
(* Small instances of SNATState: the constants' values are in the .cfg files. *)
EXTENDS SNATState

CONSTANTS ip1, c1, c2, c3
=============================================================================
