----------------------------- MODULE RayRuntime -----------------------------
(***************************************************************************)
(* The runtimes that run a plan as a Ray job (ray/runtime): RayWorkloads   *)
(* submits, looks up, observes and cancels one job per operation through a *)
(* submission backend (ray/submission: the Jobs API of a cluster, or a     *)
(* KubeRay RayJob), and what runs in the cluster is either one supervised  *)
(* worker (supervisor.py) or a Ray Train group with a driver and its ranks *)
(* (train_group.py).  They meet only in the workload's directory, which is *)
(* shared.                                                                 *)
(*                                                                         *)
(* One operation.  A request stands for the digests it is identified by:   *)
(* the plan, the runtime_env and the placement.  A client is a controller  *)
(* process.  Ray, KubeRay and their users are external: they may start a   *)
(* job late, run its entrypoint again, end it, stop it, kill its processes *)
(* and, without a persistent job store, forget it.  A worker is in a       *)
(* session of its own and outlives the process that started it, unless its *)
(* container goes.                                                         *)
(***************************************************************************)
EXTENDS Integers, FiniteSets

CONSTANTS
  Clients,      \* controller processes
  Entries,      \* bound: runs of the job's entrypoint
  MaxRanks,     \* bound: ranks of a group
  RaySetups     \* see RaySetupOK

VARIABLES
  use,        \* the runtime, the backend, the requests and the bounds; see RaySetupOK
  job,        \* what the cluster records under the operation's id
  underway,   \* submissions whose sender no longer waits for them
  files,      \* the workload's directory
  client,     \* each client: where it is in a call, and what it was told
  entry,      \* the entrypoint's processes
  rank,       \* the rank actors of a group
  proc,       \* each rank's worker; rank 1's is the supervised one
  reached,    \* history: SIGTERM reached the worker while it ran
  seen,       \* history: what was started, answered and suspended
  mishaps     \* faults so far

rayVars == <<use, job, underway, files, client, entry, rank, proc, reached, seen, mishaps>>

Terminal == {"STOPPED", "SUCCEEDED", "FAILED"}
RayEndings == {"succeeded", "failed", "cancelled"}

-----------------------------------------------------------------------------
(* Plans, and what each runtime makes of them.                             *)
(*   kind, workers (0: not stated), gpus, memory (a total is stated),      *)
(*   managed (restore or a managed-worker request), builtin (the worker is *)
(*   one of Xaytune's own), odd (anything else no Ray runtime can honour:  *)
(*   foreign, secrets, an image, gpu_type, ...).                           *)

\* scaling_for: the plan does not say how its resources divide.
ScalingRefused(p) ==
  \/ p.workers < 1
  \/ p.gpus \notin {0, p.workers}
  \/ p.memory /\ p.workers > 1

\* _refuse of the ray-jobs runtime.
JobsRefuses(p) == p.odd \/ p.workers > 1

\* _refuse of the ray-train runtime.
TrainRefuses(p) ==
  \/ p.odd
  \/ IF p.kind = "training" THEN ScalingRefused(p) ELSE p.workers > 1
  \/ p.kind = "training" /\ p.workers > 1 /\ (p.managed \/ p.builtin)

RayRefuses(p) == IF use.runtime = "ray-jobs" THEN JobsRefuses(p) ELSE TrainRefuses(p)

\* supervised_launch or _launch: what the entrypoint is.
Grouped(p) == use.runtime = "ray-train" /\ p.kind = "training"

\* A submission the backend cannot express: a RayJob has no field for memory,
\* and only a supervised launch asks Ray for any.
Inexpressible(p) == use.backend # "jobs" /\ p.memory /\ ~Grouped(p)

\* runtime, backend (the Jobs API, or a RayJob on an existing or an ephemeral
\* cluster), plans: request -> plan, clients, those that ask what became of the
\* operation and submit it again, how many mishaps there are and to whom.
\* Clients that run at the same time read the request from the operation's one
\* row: two requests come from one client, one after the other.
RaySetupOK(s) ==
  /\ s.runtime \in {"ray-jobs", "ray-train"}
  /\ s.backend \in {"jobs", "existing", "ephemeral"}
  /\ DOMAIN s.plans \in {{1}, {1, 2}}
  /\ \A d \in DOMAIN s.plans : s.plans[d].workers \in 0 .. MaxRanks
  /\ s.clients \subseteq Clients /\ s.clients # {} /\ s.asking \subseteq s.clients
  /\ DOMAIN s.plans = {1} \/ \E c \in Clients : s.clients = {c}
  /\ s.mishaps \in Nat /\ s.may \subseteq {"client", "job", "entry", "cluster", "rank"}

ASSUME RayAssumption ==
  Entries \subseteq Nat /\ MaxRanks \in Nat \ {0} /\ \A s \in RaySetups : RaySetupOK(s)

Requests == DOMAIN use.plans
Ranks == 1 .. MaxRanks
RanksOf(d) == IF Grouped(use.plans[d]) THEN 1 .. use.plans[d].workers ELSE {1}

-----------------------------------------------------------------------------
(* The cluster's record of the job.  `suspend' and `marker' are spec.suspend *)
(* and xaytune.io/stop-requested; `cluster' is where it runs and `defaults'  *)
(* what the server adds to it.                                              *)

NoJob == [request |-> 0, cluster |-> "bound", status |-> "none", deployed |-> "ok",
          suspend |-> FALSE, marker |-> FALSE, defaults |-> FALSE]
NewJob(d) == [NoJob EXCEPT !.request = d, !.status = "PENDING"]
Exists == job.request # 0

\* `resent': the job is made again, after one was lost.
Made(d) ==
  /\ job' = NewJob(d)
  /\ seen' = [seen EXCEPT !.resent = @ \/ seen.lost]

\* job_status.
JobStatus(j) ==
  IF j.status \in Terminal THEN j.status
  ELSE IF j.deployed = "Failed" THEN "FAILED"
  ELSE IF j.deployed = "Suspended" /\ j.marker THEN "STOPPED"
  ELSE IF j.status = "RUNNING" /\ j.deployed = "ok" THEN "RUNNING"
  ELSE "PENDING"

\* rayjob_identity: without status, spec.suspend, the stop marker and the
\* server's defaults.
Identity(j) == [request |-> j.request, cluster |-> j.cluster]

\* _require_bound: the live object is still what was bound when it was made.
\* The Jobs API has no such object.
Bound(j) == use.backend = "jobs" \/ Identity(j) = Identity(NewJob(j.request))

\* What info answers: the job, that there is none, that it cannot be asked, or
\* that it is not the one that was bound.
Infos ==
  {"unavailable"} \cup
  {IF ~Exists THEN "absent" ELSE IF Bound(job) THEN "found" ELSE "conflict"}

-----------------------------------------------------------------------------
NoFiles == [rejected |-> 0, accepted |-> 0, plan |-> 0, claim |-> FALSE, started |-> FALSE,
            finished |-> "none", cancel |-> FALSE, abort |-> FALSE]

RayInit ==
  /\ use \in RaySetups
  /\ job = NoJob /\ underway = {} /\ files = NoFiles
  /\ client = [c \in Clients |-> [at |-> "idle", asks |-> 0, read |-> NoJob, ref |-> 0]]
  /\ entry = [e \in Entries |-> "unborn"]
  /\ rank = [r \in Ranks |-> [at |-> "none", started |-> FALSE, stopped |-> "no", record |-> "none"]]
  /\ proc = [r \in Ranks |-> "none"]
  /\ reached = [r \in Ranks |-> FALSE]
  /\ seen = [spawns |-> [r \in Ranks |-> 0], ran |-> {}, endings |-> {},
             missed |-> FALSE, astray |-> FALSE, lost |-> FALSE, resent |-> FALSE]
  /\ mishaps = 0

clusterVars == <<entry, rank, proc, reached>>

Mishap(kind) == kind \in use.may /\ mishaps < use.mishaps /\ mishaps' = mishaps + 1

To(c, s) ==
  client' = [client EXCEPT ![c].at = s,
                           ![c].asks = IF s = "idle" THEN 0 ELSE @,
                           ![c].read = IF s = "idle" THEN NoJob ELSE @]
At(c, s) == c \in use.clients /\ client[c].at = s
Put(f, v) == files' = [files EXCEPT ![f] = v]

-----------------------------------------------------------------------------
(* submit_or_get. *)

\* Up to the first question: an earlier refusal is repeated, a new one is
\* recorded.
SubmitBegins(c, d) ==
  /\ At(c, "idle") /\ d \in Requests /\ (client[c].ref = 0 \/ c \in use.asking)
  /\ IF files.rejected = 0 /\ ~RayRefuses(use.plans[d])
       THEN client' = [client EXCEPT ![c].at = "info", ![c].asks = d] /\ UNCHANGED files
       ELSE /\ files.rejected = 0 /\ Put("rejected", d)
            /\ UNCHANGED client
  /\ UNCHANGED <<use, job, underway, clusterVars, seen, mishaps>>

\* _require_same: the job under this id was submitted for this request.
Same(d, asked) == d = asked

\* What info says leads on to an acceptance, to the files or out of the call.
SubmitAsks(c) ==
  /\ At(c, "info")
  /\ \E answer \in Infos :
       To(c, CASE answer = "found" -> IF Same(job.request, client[c].asks) THEN "accept" ELSE "idle"
               [] answer = "absent" -> "recheck"
               [] OTHER -> "idle")
  /\ UNCHANGED <<use, job, underway, files, clusterVars, seen, mishaps>>

\* _forgotten: something durable says that Ray had the job.
\* Mutant: only the acceptance counts.
EvidenceOfAcceptance == files.accepted # 0

Evidence == files.accepted # 0 \/ files.claim \/ files.started \/ files.finished # "none"

\* Ray has no such job: an acceptance on record must be of this request, a job
\* that was forgotten is returned, and the plan is read.
SubmitRechecks(c) ==
  LET d == client[c].asks IN
    /\ At(c, "recheck")
    /\ IF files.accepted # 0 /\ ~Same(files.accepted, d) THEN To(c, "idle")
       ELSE IF Evidence THEN client' = [client EXCEPT ![c].at = "idle", ![c].asks = 0, ![c].ref = d]
       ELSE IF files.plan = 0 THEN To(c, "plan")
       ELSE To(c, IF Same(files.plan, d) THEN "send" ELSE "idle")
    /\ UNCHANGED <<use, job, underway, files, clusterVars, seen, mishaps>>

SubmitPlans(c) ==
  /\ At(c, "plan")
  /\ Put("plan", client[c].asks) /\ To(c, "send")
  /\ UNCHANGED <<use, job, underway, clusterVars, seen, mishaps>>

\* The backend's submit: the cluster refuses to reuse an id.  Of a RayJob that
\* exists the backend itself finds out whether it is this one.
SubmitSends(c) ==
  LET d == client[c].asks IN
    /\ At(c, "send")
    /\ IF Inexpressible(use.plans[d])
         THEN Put("rejected", d) /\ To(c, "idle") /\ UNCHANGED <<job, underway, seen, mishaps>>
         ELSE /\ \/ ~Exists /\ Made(d) /\ To(c, "accept") /\ UNCHANGED <<underway, mishaps>>
                 \/ /\ Exists /\ UNCHANGED <<job, underway, seen, mishaps>>
                    /\ To(c, IF use.backend = "jobs" THEN "confirm"
                             ELSE IF Bound(job) /\ Same(job.request, d) THEN "accept" ELSE "idle")
                 \/ Mishap("client") /\ underway' = underway \cup {d} /\ To(c, "confirm") /\ UNCHANGED <<job, seen>>
              /\ UNCHANGED files
    /\ UNCHANGED <<use, clusterVars>>

\* The submission's answer was lost: the job store decides.
SubmitConfirms(c) ==
  /\ At(c, "confirm")
  /\ \E answer \in Infos :
       To(c, IF answer = "found" /\ Same(job.request, client[c].asks) THEN "accept" ELSE "idle")
  /\ UNCHANGED <<use, job, underway, files, clusterVars, seen, mishaps>>

\* _record_accepted, and the reference is returned.
SubmitAccepts(c) ==
  /\ At(c, "accept")
  /\ files' = [files EXCEPT !.accepted = IF @ = 0 THEN client[c].asks ELSE @]
  /\ client' = [client EXCEPT ![c].at = "idle", ![c].asks = 0, ![c].ref = client[c].asks]
  /\ UNCHANGED <<use, job, underway, clusterVars, seen, mishaps>>

-----------------------------------------------------------------------------
(* lookup_operation and get_status: Ray is asked, and then the files. *)

Classified == IF files.finished = "never" THEN "cancelled" ELSE files.finished

\* finished.json first; then what Ray says of a job without an ending.
WorkloadStatus(j) ==
  IF files.finished # "none" THEN Classified
  ELSE IF j.request = 0 THEN "unknown"
  ELSE CASE JobStatus(j) = "STOPPED" -> "cancelled"
         [] JobStatus(j) = "FAILED" -> IF files.cancel /\ ~files.started THEN "cancelled" ELSE "failed"
         [] JobStatus(j) = "SUCCEEDED" -> "unknown"
         [] OTHER -> "live"

\* A rejection answers by itself, an ending answers get_status by itself, and
\* a cluster that cannot be asked ends the call.
Asks(c) ==
  /\ At(c, "idle") /\ c \in use.asking /\ files.rejected = 0
  /\ "found" \in Infos \/ "absent" \in Infos
  /\ client' = [client EXCEPT ![c].at = "answer", ![c].read = job]
  /\ UNCHANGED <<use, job, underway, files, clusterVars, seen, mishaps>>

Answered(s) == IF s \in RayEndings THEN {s} ELSE {}

Started == \E r \in Ranks : seen.spawns[r] > 0

\* `missed': None was answered of a workload that had started.
Answers(c) ==
  /\ At(c, "answer")
  /\ seen' = [seen EXCEPT !.missed = @ \/ (client[c].read.request = 0 /\ ~Evidence /\ Started),
                          !.endings = @ \cup Answered(WorkloadStatus(client[c].read))]
  /\ To(c, "idle")
  /\ UNCHANGED <<use, job, underway, files, clusterVars, mishaps>>

-----------------------------------------------------------------------------
(* cancel: the request is written first; a job that has not started is also *)
(* stopped.  _claim_cancellation is the local registry's claim as a file.   *)

CancelWrites(c) ==
  /\ At(c, "idle") /\ client[c].ref # 0
  /\ Put("cancel", TRUE)
  /\ To(c, IF files.started THEN "idle" ELSE "halt")
  /\ UNCHANGED <<use, job, underway, clusterVars, seen, mishaps>>

\* info says PENDING: the backend's stop.  The Jobs API takes it as it comes;
\* a RayJob is read and verified, left alone where suspending does not work,
\* and patched only in the version that was verified.
CancelAsks(c) ==
  /\ At(c, "halt")
  /\ \E answer \in Infos :
       client' = [client EXCEPT
         ![c].at = IF answer = "found" /\ JobStatus(job) = "PENDING" /\ use.backend # "existing"
                     THEN "stop" ELSE "idle",
         ![c].read = IF answer = "found" THEN job ELSE NoJob]
  /\ UNCHANGED <<use, job, underway, files, clusterVars, seen, mishaps>>

StopsJob(c) ==
  /\ At(c, "stop") /\ use.backend = "jobs"
  /\ job' = IF Exists /\ job.status \notin Terminal THEN [job EXCEPT !.marker = TRUE] ELSE job
  /\ To(c, "idle")
  /\ UNCHANGED <<use, underway, files, clusterVars, seen, mishaps>>

Suspended(j) == [j EXCEPT !.suspend = TRUE, !.marker = TRUE]

\* A version that moved on is read and verified again.
Suspends(c) ==
  /\ At(c, "stop") /\ use.backend = "ephemeral"
  /\ IF job = client[c].read
       THEN /\ job' = IF JobStatus(job) \in Terminal THEN job ELSE Suspended(job)
            /\ seen' = [seen EXCEPT !.astray = @ \/ ~Bound(job)]
            /\ To(c, "idle")
       ELSE /\ IF Exists /\ Bound(job) /\ JobStatus(job) \notin Terminal
                 THEN client' = [client EXCEPT ![c].read = job]
                 ELSE To(c, "idle")
            /\ UNCHANGED <<job, seen>>
  /\ UNCHANGED <<use, underway, files, clusterVars, mishaps>>

\* The client dies in the middle of a call; what it was given is in its
\* controller's record or is gone with it.
ClientDies(c) ==
  /\ Mishap("client") /\ client[c].at # "idle"
  /\ To(c, "idle")
  /\ UNCHANGED <<use, job, underway, files, clusterVars, seen>>

Client(c) ==
  \/ \E d \in Requests : SubmitBegins(c, d)
  \/ SubmitAsks(c) \/ SubmitRechecks(c) \/ SubmitPlans(c) \/ SubmitSends(c)
  \/ SubmitConfirms(c) \/ SubmitAccepts(c)
  \/ Asks(c) \/ Answers(c)
  \/ CancelWrites(c) \/ CancelAsks(c) \/ StopsJob(c) \/ Suspends(c)

-----------------------------------------------------------------------------
(* Ray and KubeRay. *)

LiveEntry(e) == entry[e] \notin {"unborn", "exit0", "exit1", "killed"}

\* A submission arrives whose sender no longer waits.
ArrivesLate(d) ==
  /\ d \in underway /\ underway' = underway \ {d}
  /\ IF Exists THEN UNCHANGED <<job, seen>> ELSE Made(d)
  /\ UNCHANGED <<use, files, client, clusterVars, mishaps>>

\* The job is started, or its entrypoint run again.
StartsEntry(e) ==
  /\ Exists /\ entry[e] = "unborn" /\ \A f \in Entries : f < e => entry[f] # "unborn"
  /\ JobStatus(job) \in {"PENDING", "RUNNING"} /\ job.deployed = "ok" /\ ~job.suspend
  /\ IF job.status = "PENDING" THEN ~(use.backend = "jobs" /\ job.marker) /\ UNCHANGED mishaps
                               ELSE Mishap("job")
  /\ job' = [job EXCEPT !.status = "RUNNING"]
  /\ entry' = [entry EXCEPT ![e] = "born"]
  /\ UNCHANGED <<use, underway, files, client, rank, proc, reached, seen>>

\* Ray reports how the last entrypoint ended; that the job failed or was
\* stopped, when none is left.
JobEnds(e) ==
  /\ Exists /\ job.status = "RUNNING" /\ job.deployed = "ok"
  /\ entry[e] \in {"exit0", "exit1", "killed"}
  /\ \A f \in Entries : (f > e => entry[f] = "unborn") /\ (LiveEntry(f) => entry[e] = "exit0" /\ ~job.marker)
  /\ job' = [job EXCEPT !.status = CASE job.marker /\ use.backend = "jobs" -> "STOPPED"
                                     [] entry[e] = "exit0" -> "SUCCEEDED" [] OTHER -> "FAILED"]
  /\ UNCHANGED <<use, underway, files, client, clusterVars, seen, mishaps>>

\* It cannot be scheduled, or its environment cannot be built.
JobFails ==
  /\ Exists /\ job.status = "PENDING" /\ job.deployed = "ok"
  /\ Mishap("job")
  /\ job' = IF use.backend = "jobs" THEN [job EXCEPT !.status = "FAILED"]
                                    ELSE [job EXCEPT !.deployed = "Failed"]
  /\ UNCHANGED <<use, underway, files, client, clusterVars, seen>>

\* stop_job: what is pending is stopped, an entrypoint is sent SIGTERM, which
\* its handler turns into the workload's cancel.request, and then killed.
RayStopsPending ==
  /\ use.backend = "jobs" /\ job.marker /\ job.status = "PENDING"
  /\ job' = [job EXCEPT !.status = "STOPPED"]
  /\ UNCHANGED <<use, underway, files, client, clusterVars, seen, mishaps>>

RayTerminates(e) ==
  /\ use.backend = "jobs" /\ job.marker /\ LiveEntry(e) /\ entry[e] # "born"
  /\ ~files.cancel /\ Put("cancel", TRUE)
  /\ UNCHANGED <<use, job, underway, client, clusterVars, seen, mishaps>>

KillsEntry(e) ==
  /\ LiveEntry(e)
  /\ IF use.backend = "jobs" /\ job.marker THEN UNCHANGED mishaps ELSE Mishap("entry")
  /\ entry' = [entry EXCEPT ![e] = "killed"]
  /\ UNCHANGED <<use, job, underway, files, client, rank, proc, reached, seen>>

\* An operator stops the job, or suspends the RayJob.
OperatorStops ==
  /\ Exists /\ job.status \notin Terminal /\ Mishap("job")
  /\ job' = IF use.backend = "jobs" THEN [job EXCEPT !.marker = TRUE]
            ELSE [job EXCEPT !.suspend = use.backend = "ephemeral"]
  /\ UNCHANGED <<use, underway, files, client, clusterVars, seen>>

\* KubeRay suspends: the cluster goes with everything in it.
KubeSuspends ==
  /\ use.backend = "ephemeral" /\ job.suspend /\ job.deployed = "ok" /\ job.status \notin Terminal
  /\ job' = [job EXCEPT !.deployed = "Suspending"]
  /\ UNCHANGED <<use, underway, files, client, clusterVars, seen, mishaps>>

KubeDeletesCluster ==
  /\ job.deployed = "Suspending"
  /\ job' = [job EXCEPT !.deployed = "Suspended"]
  /\ entry' = [e \in Entries |-> IF LiveEntry(e) THEN "killed" ELSE entry[e]]
  /\ rank' = [r \in Ranks |-> IF rank[r].at \in {"none", "done"} THEN rank[r]
                              ELSE [rank[r] EXCEPT !.at = "dead"]]
  /\ proc' = [r \in Ranks |-> IF proc[r] = "running" THEN "nonzero" ELSE proc[r]]
  /\ UNCHANGED <<use, underway, files, client, reached, seen, mishaps>>

\* The server fills in its defaults; somebody edits the RayJob.
ServerDefaults ==
  /\ Exists /\ use.backend # "jobs" /\ ~job.defaults
  /\ job' = [job EXCEPT !.defaults = TRUE]
  /\ UNCHANGED <<use, underway, files, client, clusterVars, seen, mishaps>>

SomebodyEdits ==
  /\ Exists /\ use.backend # "jobs" /\ Mishap("job")
  /\ job' = [job EXCEPT !.cluster = "another"]
  /\ UNCHANGED <<use, underway, files, client, clusterVars, seen>>

\* A cluster restarts without its job store: connections break, processes die
\* or live on.  `lost': it had begun or ended.
RayForgets ==
  /\ use.backend = "jobs" /\ Exists /\ Mishap("cluster")
  /\ job' = NoJob /\ underway' = {}
  /\ \E E \in SUBSET {e \in Entries : LiveEntry(e)} :
       entry' = [e \in Entries |-> IF e \in E THEN "killed" ELSE entry[e]]
  /\ seen' = [seen EXCEPT !.lost = @ \/ JobStatus(job) \in Terminal
                                     \/ \E e \in Entries : entry[e] # "unborn"]
  /\ UNCHANGED <<use, files, client, rank, proc, reached>>

-----------------------------------------------------------------------------
(* The entrypoint: supervisor.run, or train_group.drive. *)

The == files.plan   \* the plan an entrypoint reads
Finish(e, how, code) ==
  /\ Put("finished", how)
  /\ entry' = [entry EXCEPT ![e] = code]

\* O_EXCL: the first run owns the workload.
ClaimsWorkload(e) ==
  /\ entry[e] = "born"
  /\ Put("claim", TRUE)
  /\ entry' = [entry EXCEPT ![e] = IF files.claim THEN "exit0" ELSE "owner"]
  /\ UNCHANGED <<use, job, underway, client, rank, proc, reached, seen, mishaps>>

\* Cancelled before there was anything to cancel; a group is asked for.
BeginsWorkload(e) ==
  /\ entry[e] = "owner"
  /\ IF files.cancel THEN Finish(e, "never", "exit0") /\ UNCHANGED rank
     ELSE IF Grouped(use.plans[The])
       THEN /\ entry' = [entry EXCEPT ![e] = "grouped"]
            /\ rank' = [r \in Ranks |-> IF r \in RanksOf(The) THEN [rank[r] EXCEPT !.at = "asked"]
                                        ELSE rank[r]]
            /\ UNCHANGED files
       ELSE entry' = [entry EXCEPT ![e] = "clear"] /\ UNCHANGED <<files, rank>>
  /\ UNCHANGED <<use, job, underway, client, proc, reached, seen, mishaps>>

Spawn(r) ==
  /\ proc' = [proc EXCEPT ![r] = "running"]
  /\ seen' = [seen EXCEPT !.spawns[r] = @ + 1, !.ran = @ \cup {The}]

\* supervise_workload, as under LocalRuntime.
SpawnsWorker(e) ==
  /\ entry[e] = "clear"
  /\ \/ Spawn(1) /\ entry' = [entry EXCEPT ![e] = "spawned"] /\ UNCHANGED files
     \/ Finish(e, "failed", "exit1") /\ UNCHANGED <<proc, seen>>
  /\ UNCHANGED <<use, job, underway, client, rank, reached, mishaps>>

RecordsStart(e) ==
  /\ entry[e] = "spawned"
  /\ Put("started", TRUE) /\ entry' = [entry EXCEPT ![e] = "watching"]
  /\ UNCHANGED <<use, job, underway, client, rank, proc, reached, seen, mishaps>>

\* `told': the supervisor believes that it stopped the worker.
Supervises(e) ==
  /\ entry[e] \in {"watching", "told"}
  /\ \/ /\ proc[1] \in {"zero", "nonzero"}
        /\ Finish(e, IF entry[e] = "told" THEN "cancelled"
                     ELSE IF proc[1] = "zero" THEN "succeeded" ELSE "failed",
                  IF proc[1] = "zero" THEN "exit0" ELSE "exit1")
        /\ UNCHANGED reached
     \/ /\ entry[e] = "watching" /\ files.cancel /\ proc[1] = "running"
        /\ entry' = [entry EXCEPT ![e] = "told"]
        /\ reached' = [reached EXCEPT ![1] = TRUE]
        /\ UNCHANGED files
  /\ UNCHANGED <<use, job, underway, client, rank, proc, seen, mishaps>>

Exited(r) == proc[r] \in {"zero", "nonzero"}

\* The group is ready when every rank has started, once.
ReadyGroup(e) ==
  /\ entry[e] \in {"grouped", "leaving"} /\ ~files.started
  /\ \A r \in RanksOf(The) : rank[r].started
  /\ Put("started", TRUE)
  /\ UNCHANGED <<use, job, underway, client, clusterVars, seen, mishaps>>

\* A cancellation is seen; if then no rank has announced itself, none will
\* spawn, and the driver leaves.
SeesCancellation(e) ==
  /\ entry[e] = "grouped" /\ files.cancel
  /\ entry' = [entry EXCEPT ![e] = "leaving"]
  /\ UNCHANGED <<use, job, underway, files, client, rank, proc, reached, seen, mishaps>>

LeavesGroup(e) ==
  /\ entry[e] = "leaving"
  /\ IF \A r \in RanksOf(The) : rank[r].at = "asked"
       THEN Finish(e, "never", "exit0")
       ELSE entry' = [entry EXCEPT ![e] = "polled"] /\ UNCHANGED files
  /\ UNCHANGED <<use, job, underway, client, rank, proc, reached, seen, mishaps>>

\* The group failed as a group: whoever survives is told, and waited for, no
\* longer than 30 seconds.
AbortsGroup(e) ==
  /\ entry[e] \in {"grouped", "leaving", "polled"}
  /\ \E r \in RanksOf(The) : rank[r].at = "dead"
  /\ Put("abort", TRUE)
  /\ entry' = [entry EXCEPT ![e] = "awaiting"]
  /\ UNCHANGED <<use, job, underway, client, rank, proc, reached, seen, mishaps>>

\* _outcome: a rank that failed on its own, the group's failure, a
\* cancellation, in this order.
GroupOutcome(failed) ==
  LET records == {rank[r].record : r \in RanksOf(The)} IN
    IF "failed" \in records THEN "failed"
    ELSE IF failed THEN "failed"
    ELSE IF \E x \in records : x \in {"cancelled", "never"} THEN "cancelled"
    ELSE "succeeded"

EndsGroup(e) ==
  LET ready == files.started \/ \A r \in RanksOf(The) : rank[r].started IN
    /\ \/ entry[e] = "awaiting"
       \/ entry[e] \in {"grouped", "leaving", "polled"} /\ \A r \in RanksOf(The) : rank[r].at = "done"
    /\ LET how == GroupOutcome(entry[e] = "awaiting") IN
         /\ files' = [files EXCEPT !.finished = how, !.started = ready]
         /\ entry' = [entry EXCEPT ![e] = IF how = "failed" THEN "exit1" ELSE "exit0"]
    /\ UNCHANGED <<use, job, underway, client, rank, proc, reached, seen, mishaps>>

-----------------------------------------------------------------------------
(* run_rank. *)

RankAt(r, s) == rank' = [rank EXCEPT ![r].at = s]

\* Ray Train places a rank; the driver that asked for it may have left.
Announces(r) ==
  /\ rank[r].at = "asked" /\ RankAt(r, "announced")
  /\ UNCHANGED <<use, job, underway, files, client, entry, proc, reached, seen, mishaps>>

Checks(r) ==
  /\ rank[r].at = "announced"
  /\ IF files.cancel \/ files.abort
       THEN rank' = [rank EXCEPT ![r].at = "done",
                                 ![r].record = IF files.cancel THEN "never" ELSE "idle"]
       ELSE RankAt(r, "clear")
  /\ UNCHANGED <<use, job, underway, files, client, entry, proc, reached, seen, mishaps>>

SpawnsRank(r) ==
  /\ rank[r].at = "clear"
  /\ \/ /\ Spawn(r)
        /\ rank' = [rank EXCEPT ![r].at = "waiting", ![r].started = TRUE]
        /\ UNCHANGED files
     \/ /\ rank' = [rank EXCEPT ![r].at = "done", ![r].record = "failed"]
        /\ Put("abort", TRUE)
        /\ UNCHANGED <<proc, seen>>
  /\ UNCHANGED <<use, job, underway, client, entry, reached, mishaps>>

\* _wait: SIGTERM once, for a cancellation or for the group.  A worker that
\* exited since the poll takes it without noticing.
\* Mutant: a rank looks only at its group.
StopsRankForGroup(r) ==
  /\ rank[r].at = "waiting" /\ rank[r].stopped = "no" /\ files.abort
  /\ proc[r] # "none"
  /\ rank' = [rank EXCEPT ![r].stopped = "group"]
  /\ reached' = [reached EXCEPT ![r] = proc[r] = "running"]
  /\ UNCHANGED <<use, job, underway, files, client, entry, proc, seen, mishaps>>

StopsRank(r) ==
  /\ rank[r].at = "waiting" /\ rank[r].stopped = "no" /\ (files.cancel \/ files.abort)
  /\ proc[r] # "none"
  /\ rank' = [rank EXCEPT ![r].stopped = IF files.cancel THEN "cancel" ELSE "group"]
  /\ reached' = [reached EXCEPT ![r] = proc[r] = "running"]
  /\ UNCHANGED <<use, job, underway, files, client, entry, proc, seen, mishaps>>

\* The worker is reaped: a failure of its own aborts the group.
ReapsRank(r) ==
  LET own == rank[r].stopped = "no" /\ proc[r] = "nonzero" IN
    /\ rank[r].at = "waiting" /\ Exited(r)
    /\ rank' = [rank EXCEPT ![r].at = "done",
                            ![r].record = IF own THEN "failed"
                                          ELSE IF rank[r].stopped = "cancel" THEN "cancelled" ELSE "ended"]
    /\ files' = [files EXCEPT !.abort = @ \/ own]
    /\ UNCHANGED <<use, job, underway, client, entry, proc, reached, seen, mishaps>>

\* A rank's actor dies, or Ray ends it with its job.
RankDies(r) ==
  /\ rank[r].at \notin {"none", "done", "dead"}
  /\ IF job.status = "RUNNING" THEN Mishap("rank") ELSE UNCHANGED mishaps
  /\ RankAt(r, "dead")
  /\ UNCHANGED <<use, job, underway, files, client, entry, proc, reached, seen>>

WorkerEnds(r) ==
  /\ proc[r] = "running"
  /\ \E code \in {"zero", "nonzero"} : proc' = [proc EXCEPT ![r] = code]
  /\ UNCHANGED <<use, job, underway, files, client, entry, rank, reached, seen, mishaps>>

Entrypoint(e) ==
  \/ ClaimsWorkload(e) \/ BeginsWorkload(e)
  \/ SpawnsWorker(e) \/ RecordsStart(e) \/ Supervises(e)
  \/ ReadyGroup(e) \/ SeesCancellation(e) \/ LeavesGroup(e) \/ AbortsGroup(e) \/ EndsGroup(e)

RankStep(r) == Checks(r) \/ SpawnsRank(r) \/ StopsRank(r) \/ ReapsRank(r)

RayNext ==
  \/ \E c \in Clients : Client(c) \/ ClientDies(c)
  \/ \E d \in Requests : ArrivesLate(d)
  \/ \E e \in Entries : \/ StartsEntry(e) \/ JobEnds(e) \/ RayTerminates(e) \/ KillsEntry(e)
                        \/ Entrypoint(e)
  \/ JobFails \/ RayStopsPending \/ OperatorStops \/ KubeSuspends \/ KubeDeletesCluster
  \/ ServerDefaults \/ SomebodyEdits \/ RayForgets
  \/ \E r \in Ranks : Announces(r) \/ RankStep(r) \/ RankDies(r) \/ WorkerEnds(r)

\* Supervisors, drivers and ranks go on, and a worker that was sent SIGTERM
\* exits.  None of them goes on for ever, so that one formula is fair to each.
RayFairness ==
  WF_rayVars(\/ \E e \in Entries : Entrypoint(e)
             \/ \E r \in Ranks : RankStep(r) \/ (reached[r] /\ WorkerEnds(r)))

RaySpec == RayInit /\ [][RayNext]_rayVars /\ RayFairness

-----------------------------------------------------------------------------
(* Properties. *)

RayTypeOK ==
  /\ use \in RaySetups
  /\ JobStatus(job) \in Terminal \cup {"PENDING", "RUNNING"}
  /\ files.finished \in RayEndings \cup {"none", "never"}
  /\ \A r \in Ranks : proc[r] \in {"none", "running", "zero", "nonzero"}
  /\ mishaps <= use.mishaps

\* However often a job is submitted, its entrypoint run and the cluster
\* restarted, a rank's worker is started once, never of the request whose
\* rejection was recorded, and of the request that was accepted, which is the one
\* whose reference a client was given; and None is the answer only if nothing
\* started.
\* (A job that was forgotten before its acceptance was recorded is returned to
\* whoever asks: the files that show it ran do not say for which request.)
SubmittedOnce ==
  /\ \A r \in Ranks : seen.spawns[r] <= 1
  /\ files.accepted # 0 =>
       /\ seen.ran \subseteq {files.accepted}
       /\ \A c \in Clients : client[c].ref \in {0, files.accepted}
  /\ files.rejected \notin seen.ran
  /\ ~seen.missed

\* finished.json is true of every rank.  A group succeeded only if all of its
\* workers ended well and undisturbed, was cancelled only on request, never
\* hides a rank that failed on its own, and leaves nothing running; a group that
\* failed as a group leaves the worker of an actor that died, and workers that
\* their ranks will stop; a driver that left before anything started has nothing
\* start behind it.
GroupEndsTogether ==
  /\ files.finished = "succeeded" =>
       \A r \in RanksOf(The) : proc[r] = "zero" /\ ~reached[r]
  /\ files.finished \in {"cancelled", "never"} =>
       files.cancel /\ \A r \in Ranks : rank[r].record # "failed"
  /\ files.finished = "never" => ~Started
  /\ files.finished # "none" =>
       \A r \in Ranks : proc[r] = "running" =>
         files.finished = "failed" /\ (rank[r].at = "dead" \/ files.abort)

\* One ending is answered.  The exceptions are a job that failed before anything
\* started and was cancelled afterwards, and a job that was made again by a
\* submission under way while Ray forgot it.
AnswersStable ==
  \/ Cardinality(seen.endings) <= 1 \/ seen.resent
  \/ seen.endings = {"failed", "cancelled"} /\ files.cancel /\ ~files.started
       /\ files.finished \in {"none", "never"}

\* Only the RayJob that was verified is suspended.
StopVerified == ~seen.astray

RaySound == RayTypeOK /\ SubmittedOnce /\ GroupEndsTogether /\ AnswersStable /\ StopVerified

\* A cancellation on record reaches every worker whose parent lives.
Orphaned(r) ==
  IF Grouped(use.plans[The]) THEN rank[r].at = "dead" ELSE \A e \in Entries : ~LiveEntry(e)

RayCancelReaches ==
  files.cancel ~> [](\A r \in Ranks : proc[r] = "running" => Orphaned(r))
=============================================================================
