---------------------------- MODULE LocalRuntime ----------------------------
(***************************************************************************)
(* The runtime a laptop uses (runtimes/local): LocalRuntime claims an      *)
(* operation in its registry and spawns a launcher, the launcher claims    *)
(* the workload and spawns the worker, and the launcher's files are all    *)
(* anyone learns of either.  Callers are controller processes on one root, *)
(* each of which may die between any two of its writes; so may a launcher, *)
(* and the worker runs on without it.  A step ends at a durable write, at  *)
(* a read another process may invalidate, or where a process is started.   *)
(*                                                                         *)
(* A process is identified with its pid: none is reused, and one that      *)
(* ended is reaped at once, except a worker, which its launcher reaps.     *)
(***************************************************************************)
EXTENDS Naturals, FiniteSets

CONSTANTS
  Operations,   \* submit operations; each names its workload (external_id)
  Refused,      \* those whose plan _refuse turns down
  Callers,      \* processes holding a LocalRuntime
  Launchers,    \* bound: launcher processes Popen can start per operation
  MaxCrashes,   \* bound: callers that die in the middle of a call
  NoPid

\* Where a caller is between two steps of a call.
Calls == {"idle", "claimed", "spawn", "cancel", "probe"}

ASSUME LocalAssumption ==
  /\ Refused \subseteq Operations
  /\ MaxCrashes \in Nat
  /\ NoPid \notin Launchers
  /\ Launchers \cap Calls = {}

VARIABLES
  row,          \* the registry's operations row: none, claimed, rejected
  spawnedPid,   \* workloads.spawned_pid
  launcherPid,  \* workloads.launcher_pid
  cancelRow,    \* the cancel operation's row, with cancel_requested_at
  cancelFile,   \* cancel.request exists
  started,      \* started.json: whose worker it names
  finished,     \* finished.json, as finished_status classifies it
  cpc,          \* where a caller is in its call; a launcher: Popen returned it
  answer,       \* the status it was last given
  lpc,          \* where a launcher is
  told,         \* the launcher believes it signalled its worker
  worker,       \* the launcher's worker
  hit,          \* history: SIGTERM reached the worker while it ran
  crashes

registryVars == <<row, spawnedPid, launcherPid, cancelRow>>
fileVars == <<cancelFile, started, finished>>
callVars == <<cpc, answer>>
processVars == <<lpc, told, worker, hit>>
vars == <<registryVars, fileVars, callVars, processVars, crashes>>

Endings == {"succeeded", "failed", "cancelled"}
Alive == {"born", "owner", "clear", "spawned", "watching", "signal", "reaped"}
Exits == {"zero", "nonzero"}

LocalTypeOK ==
  /\ row \in [Operations -> {"none", "claimed", "rejected"}]
  /\ spawnedPid \in [Operations -> Launchers \cup {NoPid}]
  /\ launcherPid \in [Operations -> Launchers \cup {NoPid}]
  /\ cancelRow \in [Operations -> BOOLEAN]
  /\ cancelFile \in [Operations -> BOOLEAN]
  /\ started \in [Operations -> Launchers \cup {NoPid}]
  /\ finished \in [Operations -> Endings \cup {"none"}]
  /\ cpc \in [Callers -> [Operations -> Calls \cup Launchers]]
  /\ answer \in [Callers -> [Operations -> Endings \cup {"none", "live", "unknown"}]]
  /\ lpc \in [Operations -> [Launchers -> Alive \cup {"unborn", "gone"}]]
  /\ told \in [Operations -> [Launchers -> BOOLEAN]]
  /\ worker \in [Operations -> [Launchers -> Exits \cup {"none", "running"}]]
  /\ hit \in [Operations -> [Launchers -> BOOLEAN]]
  /\ crashes \in 0..MaxCrashes

LocalInit ==
  /\ row = [o \in Operations |-> "none"]
  /\ spawnedPid = [o \in Operations |-> NoPid]
  /\ launcherPid = [o \in Operations |-> NoPid]
  /\ cancelRow = [o \in Operations |-> FALSE]
  /\ cancelFile = [o \in Operations |-> FALSE]
  /\ started = [o \in Operations |-> NoPid]
  /\ finished = [o \in Operations |-> "none"]
  /\ cpc = [c \in Callers |-> [o \in Operations |-> "idle"]]
  /\ answer = [c \in Callers |-> [o \in Operations |-> "none"]]
  /\ lpc = [o \in Operations |-> [l \in Launchers |-> "unborn"]]
  /\ told = [o \in Operations |-> [l \in Launchers |-> FALSE]]
  /\ worker = [o \in Operations |-> [l \in Launchers |-> "none"]]
  /\ hit = [o \in Operations |-> [l \in Launchers |-> FALSE]]
  /\ crashes = 0

-----------------------------------------------------------------------------
(* Helpers. *)

Goto(c, o, s) == cpc' = [cpc EXCEPT ![c][o] = s]
Becomes(o, l, s) == lpc' = [lpc EXCEPT ![o][l] = s]

\* launcher_pid or spawned_pid, in that order.
Supervisor(o) == IF launcherPid[o] # NoPid THEN launcherPid[o] ELSE spawnedPid[o]

Supervised(o) == Supervisor(o) # NoPid /\ lpc[o][Supervisor(o)] \in Alive

\* _status when finished.json is not there: from the pids alone.
Probed(o) ==
  IF Supervised(o) \/ (started[o] # NoPid /\ worker[o][started[o]] = "running")
    THEN "live" ELSE "unknown"

Status(o) == IF finished[o] # "none" THEN finished[o] ELSE Probed(o)

\* finished_status: how an ending is classified from what was observed.
\* Mutant: from the exit code alone.
FinishedByCode(signalled, exit) == IF exit = "zero" THEN "succeeded" ELSE "failed"

FinishedStatus(signalled, exit) ==
  IF signalled THEN "cancelled" ELSE IF exit = "zero" THEN "succeeded" ELSE "failed"

-----------------------------------------------------------------------------
(* The callers: LocalRuntime. *)

\* submit_or_get up to its first commit: record_rejection, which raises, or
\* claim_submission.  Either returns the row that is there already.
Submit(c, o) ==
  /\ cpc[c][o] = "idle"
  /\ row' = [row EXCEPT ![o] = IF @ # "none" THEN @
                               ELSE IF o \in Refused THEN "rejected" ELSE "claimed"]
  /\ Goto(c, o, IF row'[o] = "claimed" THEN "claimed" ELSE "idle")
  /\ UNCHANGED <<spawnedPid, launcherPid, cancelRow, fileVars, answer, processVars, crashes>>

\* Whether the claim appears to have no process yet.
CheckOwner(c, o) ==
  /\ cpc[c][o] = "claimed"
  /\ Goto(c, o, IF launcherPid[o] = NoPid /\ started[o] = NoPid THEN "spawn" ELSE "idle")
  /\ UNCHANGED <<registryVars, fileVars, answer, processVars, crashes>>

\* _spawn: Popen, which may raise.
Popen(c, o) ==
  /\ cpc[c][o] = "spawn"
  /\ \/ /\ Goto(c, o, "idle")
        /\ UNCHANGED lpc
     \/ \E l \in Launchers :
          /\ lpc[o][l] = "unborn"
          /\ Becomes(o, l, "born")
          /\ Goto(c, o, l)
  /\ UNCHANGED <<registryVars, fileVars, answer, told, worker, hit, crashes>>

\* record_spawned_pid.
RecordSpawned(c, o) ==
  /\ cpc[c][o] \in Launchers
  /\ spawnedPid' = [spawnedPid EXCEPT ![o] = cpc[c][o]]
  /\ Goto(c, o, "idle")
  /\ UNCHANGED <<row, launcherPid, cancelRow, fileVars, answer, processVars, crashes>>

\* cancel: claim_cancellation and record_cancellation_request, and then, first
\* call or not, the request the launcher reads.
\* Mutant: a claim that is there already is taken for a cancellation done.
CancelOnce(c, o) ==
  /\ cpc[c][o] = "idle"
  /\ row[o] = "claimed"
  /\ cancelRow' = [cancelRow EXCEPT ![o] = TRUE]
  /\ Goto(c, o, IF cancelRow[o] THEN "idle" ELSE "cancel")
  /\ UNCHANGED <<row, spawnedPid, launcherPid, fileVars, answer, processVars, crashes>>

ClaimCancel(c, o) ==
  /\ cpc[c][o] = "idle"
  /\ row[o] = "claimed"
  /\ cancelRow' = [cancelRow EXCEPT ![o] = TRUE]
  /\ Goto(c, o, "cancel")
  /\ UNCHANGED <<row, spawnedPid, launcherPid, fileVars, answer, processVars, crashes>>

\* Mutant: what has not started is recorded as cancelled here and now.
WriteCancelEnding(c, o) ==
  /\ cpc[c][o] = "cancel"
  /\ cancelFile' = [cancelFile EXCEPT ![o] = TRUE]
  /\ finished' = [finished EXCEPT ![o] = IF started[o] = NoPid THEN "cancelled" ELSE @]
  /\ Goto(c, o, "idle")
  /\ UNCHANGED <<registryVars, started, answer, processVars, crashes>>

WriteCancel(c, o) ==
  /\ cpc[c][o] = "cancel"
  /\ cancelFile' = [cancelFile EXCEPT ![o] = TRUE]
  /\ Goto(c, o, "idle")
  /\ UNCHANGED <<registryVars, started, finished, answer, processVars, crashes>>

\* _status (get_status, lookup_operation): finished.json is read first, and
\* only if it is not there are the pids read and asked after.
ReadFinished(c, o) ==
  /\ cpc[c][o] = "idle"
  /\ row[o] = "claimed"
  /\ answer' = [answer EXCEPT ![c][o] = finished[o]]
  /\ Goto(c, o, IF finished[o] = "none" THEN "probe" ELSE "idle")
  /\ UNCHANGED <<registryVars, fileVars, processVars, crashes>>

Probe(c, o) ==
  /\ cpc[c][o] = "probe"
  /\ answer' = [answer EXCEPT ![c][o] = Probed(o)]
  /\ Goto(c, o, "idle")
  /\ UNCHANGED <<registryVars, fileVars, processVars, crashes>>

\* The process dies and forgets its call; its launchers live on.
CallerDies(c) ==
  /\ crashes < MaxCrashes
  /\ cpc[c] # [o \in Operations |-> "idle"]
  /\ crashes' = crashes + 1
  /\ cpc' = [cpc EXCEPT ![c] = [o \in Operations |-> "idle"]]
  /\ answer' = [answer EXCEPT ![c] = [o \in Operations |-> "none"]]
  /\ UNCHANGED <<registryVars, fileVars, processVars>>

-----------------------------------------------------------------------------
(* The launchers, and their workers. *)

\* claim_launcher_ownership: a compare-and-set; the loser exits.
\* Mutant: an owner that is gone is displaced.
ClaimFromDead(o, l) ==
  /\ lpc[o][l] = "born"
  /\ IF launcherPid[o] = NoPid \/ lpc[o][launcherPid[o]] = "gone"
       THEN launcherPid' = [launcherPid EXCEPT ![o] = l] /\ Becomes(o, l, "owner")
       ELSE Becomes(o, l, "gone") /\ UNCHANGED launcherPid
  /\ UNCHANGED <<row, spawnedPid, cancelRow, fileVars, callVars, told, worker, hit, crashes>>

ClaimOwnership(o, l) ==
  /\ lpc[o][l] = "born"
  /\ IF launcherPid[o] = NoPid
       THEN launcherPid' = [launcherPid EXCEPT ![o] = l] /\ Becomes(o, l, "owner")
       ELSE Becomes(o, l, "gone") /\ UNCHANGED launcherPid
  /\ UNCHANGED <<row, spawnedPid, cancelRow, fileVars, callVars, told, worker, hit, crashes>>

\* supervise_workload: cancelled before there was anything to cancel.
CheckCancel(o, l) ==
  /\ lpc[o][l] = "owner"
  /\ IF cancelFile[o]
       THEN finished' = [finished EXCEPT ![o] = "cancelled"] /\ Becomes(o, l, "gone")
       ELSE Becomes(o, l, "clear") /\ UNCHANGED finished
  /\ UNCHANGED <<registryVars, cancelFile, started, callVars, told, worker, hit, crashes>>

\* The worker is spawned, or cannot be: recorded as a failure.
SpawnWorker(o, l) ==
  /\ lpc[o][l] = "clear"
  /\ \/ /\ worker' = [worker EXCEPT ![o][l] = "running"]
        /\ Becomes(o, l, "spawned")
        /\ UNCHANGED finished
     \/ /\ finished' = [finished EXCEPT ![o] = "failed"]
        /\ Becomes(o, l, "gone")
        /\ UNCHANGED worker
  /\ UNCHANGED <<registryVars, cancelFile, started, callVars, told, hit, crashes>>

WriteStarted(o, l) ==
  /\ lpc[o][l] = "spawned"
  /\ started' = [started EXCEPT ![o] = l]
  /\ Becomes(o, l, "watching")
  /\ UNCHANGED <<registryVars, cancelFile, finished, callVars, told, worker, hit, crashes>>

\* One turn of _wait_honouring_cancellation: the worker is reaped, or a
\* request is seen that was not passed on before.
Poll(o, l) ==
  /\ lpc[o][l] = "watching"
  /\ \/ /\ worker[o][l] \in Exits
        /\ Becomes(o, l, "reaped")
     \/ /\ worker[o][l] = "running"
        /\ cancelFile[o] /\ ~told[o][l]
        /\ Becomes(o, l, "signal")
  /\ UNCHANGED <<registryVars, fileVars, callVars, told, worker, hit, crashes>>

\* killpg.  A worker that exited since the poll is a zombie: the platform
\* either takes the signal (Linux) or refuses it (EPERM, elsewhere).
Signal(o, l) ==
  /\ lpc[o][l] = "signal"
  /\ hit' = [hit EXCEPT ![o][l] = worker[o][l] = "running"]
  /\ \E taken \in BOOLEAN :
       /\ worker[o][l] = "running" => taken
       /\ told' = [told EXCEPT ![o][l] = taken]
  /\ Becomes(o, l, "watching")
  /\ UNCHANGED <<registryVars, fileVars, callVars, worker, crashes>>

WriteFinished(o, l) ==
  /\ lpc[o][l] = "reaped"
  /\ finished' = [finished EXCEPT ![o] = FinishedStatus(told[o][l], worker[o][l])]
  /\ Becomes(o, l, "gone")
  /\ UNCHANGED <<registryVars, cancelFile, started, callVars, told, worker, hit, crashes>>

\* Killed, or failed before it owned anything.
LauncherDies(o, l) ==
  /\ lpc[o][l] \in Alive
  /\ Becomes(o, l, "gone")
  /\ UNCHANGED <<registryVars, fileVars, callVars, told, worker, hit, crashes>>

\* Done, failed, stopped by the signal it got or killed by something else.
WorkerExits(o, l) ==
  /\ worker[o][l] = "running"
  /\ \E e \in Exits : worker' = [worker EXCEPT ![o][l] = e]
  /\ UNCHANGED <<registryVars, fileVars, callVars, lpc, told, hit, crashes>>

-----------------------------------------------------------------------------
Call(c, o) ==
  \/ Submit(c, o) \/ CheckOwner(c, o) \/ Popen(c, o) \/ RecordSpawned(c, o)
  \/ ClaimCancel(c, o) \/ WriteCancel(c, o)
  \/ ReadFinished(c, o) \/ Probe(c, o)

Launch(o, l) ==
  \/ ClaimOwnership(o, l) \/ CheckCancel(o, l) \/ SpawnWorker(o, l)
  \/ WriteStarted(o, l) \/ Poll(o, l) \/ Signal(o, l) \/ WriteFinished(o, l)

LocalNext ==
  \/ \E c \in Callers, o \in Operations : Call(c, o)
  \/ \E c \in Callers : CallerDies(c)
  \/ \E o \in Operations, l \in Launchers :
       Launch(o, l) \/ LauncherDies(o, l) \/ WorkerExits(o, l)

LocalSpec == LocalInit /\ [][LocalNext]_vars

\* A call that was begun goes on, a launcher is scheduled while it lives, and
\* a cancellation that did not get through is asked for again: the host
\* resumes the operations it has not confirmed (_carry_out_cancellation).
Ongoing(c, o) ==
  CheckOwner(c, o) \/ Popen(c, o) \/ RecordSpawned(c, o) \/ WriteCancel(c, o) \/ Probe(c, o)

Retry(o) == cancelRow[o] /\ ~cancelFile[o] /\ \E c \in Callers : ClaimCancel(c, o)

LocalFairSpec ==
  /\ LocalSpec
  /\ \A c \in Callers, o \in Operations : WF_vars(Ongoing(c, o))
  /\ \A o \in Operations : SF_vars(Retry(o))
  /\ \A o \in Operations, l \in Launchers : WF_vars(Launch(o, l))

-----------------------------------------------------------------------------
(* What the runtime promises: RuntimeContract, for a runtime that reports   *)
(* completed operations.  The workload exists from its claim on; it is lost *)
(* once its owner is gone, nothing it spawned runs and nothing was recorded *)
(* -- for good, since no other launcher takes over.                         *)

Lost(o) ==
  /\ launcherPid[o] # NoPid
  /\ lpc[o][launcherPid[o]] = "gone"
  /\ \A l \in Launchers : worker[o][l] # "running"

Workload(o) ==
  IF row[o] # "claimed" THEN (IF row[o] = "none" THEN "absent" ELSE "rejected")
  ELSE IF finished[o] # "none" THEN finished[o]
  ELSE IF Lost(o) THEN "lost" ELSE "live"

Contract == INSTANCE RuntimeContract WITH
  ReportsCompleted <- TRUE,
  wl <- [o \in Operations |-> Workload(o)],
  starts <- [o \in Operations |-> IF row[o] = "claimed" THEN 1 ELSE 0],
  forgot <- [o \in Operations |-> FALSE],
  asked <- cancelFile

\* Every step of the registry, the launchers and the workers is a step of the
\* contract, or none: in particular an ending, once there is one, stays.
ImplementsContract == Contract!RuntimeSpec

\* Status is the contract's: never an ending that is not recorded, and never
\* "still running" for a workload nobody runs or watches any more.
StatusWithinContract ==
  \A o \in Operations : row[o] = "claimed" => Status(o) \in Contract!Statuses(o)

\* However many callers and launchers there are, and whoever of them died in
\* between, one worker runs per operation (ADR-013's duplicate effect).
OneWorker ==
  \A o \in Operations : Cardinality({l \in Launchers : worker[o][l] # "none"}) <= 1

\* finished_status: a worker that SIGTERM reached is no success however
\* tidily it exits, and nothing is cancelled unless somebody asked for it.
EndingHonest ==
  \A o \in Operations :
    /\ finished[o] = "succeeded" =>
         \E l \in Launchers : worker[o][l] = "zero" /\ ~hit[o][l]
    /\ finished[o] = "cancelled" => cancelFile[o] /\ cancelRow[o]

\* cancel: a claim recorded before a crash does not silence the cancellation.
CancelReasserted == \A o \in Operations : cancelRow[o] ~> cancelFile[o]

\* A cancellation the runtime made durable reaches the worker, or finds that
\* none runs, unless the launcher is gone.
CancelDelivered ==
  \A o \in Operations :
    (cancelFile[o] /\ launcherPid[o] # NoPid) ~>
      \E l \in Launchers : hit[o][l] \/ worker[o][l] \in Exits
                           \/ (l = launcherPid[o] /\ lpc[o][l] = "gone")

\* _status, of an unknown: "no exit was recorded".
UnknownMeansUnrecorded ==
  [][\A c \in Callers, o \in Operations :
       Probe(c, o) /\ answer'[c][o] = "unknown" => finished[o] = "none"]_vars

\* finished_status: "cancel requested, worker exits 3 first -> FAILED, not
\* cancelled".
CancelledWasReached ==
  \A o \in Operations, l \in Launchers :
    finished[o] = "cancelled" /\ worker[o][l] # "none" => hit[o][l]

\* A cancellation survives the crash of whoever asked and reaches the worker.
CancelSurvives == CancelReasserted /\ CancelDelivered
=============================================================================
