------------------------- MODULE MCControllerLease -------------------------
(* Two daemons on two machines, one embedded host. *)
EXTENDS ControllerLease, TLC

CONSTANTS d1, d2, m1, m2

MCMachineOf == d1 :> m1 @@ d2 :> m2
=============================================================================
