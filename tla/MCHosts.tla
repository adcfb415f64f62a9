------------------------------ MODULE MCHosts -------------------------------
(***************************************************************************)
(* Small instances: a training and an evaluation attempt of one            *)
(* experiment.  HostsSpec has two worlds, told apart by `world', so that   *)
(* each stays small: hosts that crash and never cancel, on a runtime that  *)
(* forgets what it finished and preempts nothing, and hosts that cancel    *)
(* and never crash, on one that remembers.  CancelLiveness.cfg has crashes *)
(* and a cancellation in one.                                              *)
(***************************************************************************)
EXTENDS ExperimentCancellation, TLC

CONSTANTS c1, c2, train, eval

VARIABLE world

Symmetry == Permutations(Controllers)

HostsInit == CancelInit /\ world \in {"crashing", "cancelling"}

HostsNext ==
  /\ UNCHANGED world
  /\ \/ world = "crashing" /\ Next /\ SagaStays /\ \A o \in Operations : wl'[o] # "preempted"
     \/ world = "cancelling" /\ CancelNext /\ UNCHANGED <<crashes, forgot>>

HostsSpec == HostsInit /\ [][HostsNext]_<<cvars, world>>
=============================================================================
