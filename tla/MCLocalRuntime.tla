--------------------------- MODULE MCLocalRuntime ---------------------------
(* Small instances: two callers and two launchers on one registry. *)
EXTENDS LocalRuntime

CONSTANTS c1, c2, l1, l2, accepted, refused
=============================================================================
