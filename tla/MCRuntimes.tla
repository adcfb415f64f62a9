----------------------------- MODULE MCRuntimes -----------------------------
(***************************************************************************)
(* Small instances of LocalRuntime and of RayRuntime.  A workload is run   *)
(* by one runtime or the other, so they are two worlds of one run, told    *)
(* apart by `world'; the other world's state stays as it begins.           *)
(***************************************************************************)
EXTENDS LocalRuntime, RayRuntime

CONSTANTS c1, c2, l1, l2, accepted

VARIABLE world

-----------------------------------------------------------------------------
(* Ray: plans, runtimes and backends. *)

One ==
  [kind |-> "training", workers |-> 1, gpus |-> 0, memory |-> FALSE, managed |-> TRUE,
   builtin |-> TRUE, odd |-> FALSE]
Two == [One EXCEPT !.workers = 2, !.managed = FALSE, !.builtin = FALSE]

Jobs ==
  [runtime |-> "ray-jobs", backend |-> "jobs", plans |-> <<One>>, clients |-> {1, 2},
   asking |-> {}, mishaps |-> 1, may |-> {"client", "job", "entry", "cluster"}]
Single == [Jobs EXCEPT !.clients = {1}, !.asking = {1}]

\* Two clients of one request, one client of two; a group; RayJobs on clusters
\* of their own and on one that is there.
Running ==
  {Jobs, [Single EXCEPT !.plans = <<One, One>>],
   [Single EXCEPT !.runtime = "ray-train", !.plans = <<Two>>, !.asking = {},
                  !.may = {"entry", "rank"}],
   [Single EXCEPT !.backend = "ephemeral"], [Single EXCEPT !.backend = "existing"]}

\* Plans the runtime, or the backend, does not take.
Refusing ==
  {[Single EXCEPT !.plans = <<Two>>],
   [Single EXCEPT !.plans = <<[One EXCEPT !.odd = TRUE]>>, !.runtime = "ray-train"],
   [Single EXCEPT !.plans = <<[Two EXCEPT !.managed = TRUE]>>, !.runtime = "ray-train"],
   [Single EXCEPT !.plans = <<[Two EXCEPT !.memory = TRUE]>>, !.runtime = "ray-train"],
   [Single EXCEPT !.plans = <<[Two EXCEPT !.kind = "evaluation"]>>, !.runtime = "ray-train"],
   [Single EXCEPT !.plans = <<[One EXCEPT !.memory = TRUE]>>, !.backend = "existing"]}

MCRaySetups == Running \cup Refusing

-----------------------------------------------------------------------------
RuntimesInit ==
  \/ world = "local" /\ LocalInit /\ RayInit /\ use = CHOOSE s \in RaySetups : TRUE
  \/ world = "ray" /\ RayInit /\ LocalInit

\* Launchers are told apart by their pid alone, so the first that is born may as
\* well be l1: a symmetry TLC cannot be told of when it checks liveness.
PidsInOrder == \A o \in Operations : lpc[o][l1] = "unborn" => lpc[o][l2] = "unborn"

\* Both callers submit and cancel; one of them asks for the status.
RuntimesNext ==
  /\ UNCHANGED world
  /\ \/ world = "local" /\ LocalNext /\ PidsInOrder' /\ cpc'[c2][accepted] # "probe"
        /\ answer'[c2] = answer[c2] /\ UNCHANGED rayVars
     \/ world = "ray" /\ RayNext /\ UNCHANGED vars

\* The fairness of either, which asks nothing of the other's initial state.
RuntimesSpec ==
  /\ RuntimesInit /\ [][RuntimesNext]_<<vars, rayVars, world>>
  /\ \A c \in Callers, o \in Operations : WF_vars(Ongoing(c, o))
  /\ \A o \in Operations : SF_vars(Retry(o))
  /\ \A o \in Operations, l \in Launchers : WF_vars(Launch(o, l))
  /\ RayFairness
=============================================================================
