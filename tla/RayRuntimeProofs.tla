-------------------------- MODULE RayRuntimeProofs --------------------------
(***************************************************************************)
(* RaySound for any number of clients, runs of the entrypoint, ranks and   *)
(* mishaps, and for every setup RaySetupOK admits.  The inductive          *)
(* invariant has three parts besides the shapes: RequestInv follows one    *)
(* request from plan.json through the submission to the workers,           *)
(* WorkloadInv the owner of the workload and what it and its ranks may     *)
(* rely on, and AnswerInv what has been told of a job against what it can  *)
(* still become.                                                           *)
(***************************************************************************)
EXTENDS RayRuntime, TLAPS, FiniteSetTheorems

ClientSteps == {"idle", "info", "recheck", "plan", "send", "confirm", "accept", "answer", "halt", "stop"}
EntrySteps == {"unborn", "born", "owner", "clear", "spawned", "watching", "told", "grouped", "leaving",
               "polled", "awaiting", "exit0", "exit1", "killed"}
RankSteps == {"none", "asked", "announced", "clear", "waiting", "done", "dead"}
Named == {0} \cup Requests   \* 0: none

\* The records the variables hold.
JobRecords ==
  [request : Named, cluster : {"bound", "another"},
   status : {"none", "PENDING", "RUNNING"} \cup Terminal,
   deployed : {"ok", "Failed", "Suspending", "Suspended"},
   suspend : BOOLEAN, marker : BOOLEAN, defaults : BOOLEAN]

ClientRecords == [at : ClientSteps, asks : Named, read : JobRecords, ref : Named]

FileRecords ==
  [rejected : Named, accepted : Named, plan : Named, claim : BOOLEAN, started : BOOLEAN,
   finished : RayEndings \cup {"none", "never"}, cancel : BOOLEAN, abort : BOOLEAN]

RankRecords ==
  [at : RankSteps, started : BOOLEAN, stopped : {"no", "cancel", "group"},
   record : {"none", "idle", "never", "failed", "cancelled", "ended"}]

SeenRecords ==
  [spawns : [Ranks -> Nat], ran : SUBSET Requests, endings : SUBSET RayEndings,
   missed : BOOLEAN, astray : BOOLEAN, lost : BOOLEAN, resent : BOOLEAN]

Procs == {"none", "running", "zero", "nonzero"}

RayShapes ==
  /\ use \in RaySetups /\ mishaps \in 0 .. use.mishaps
  /\ job \in JobRecords /\ underway \subseteq Requests
  /\ files \in FileRecords /\ client \in [Clients -> ClientRecords]
  /\ entry \in [Entries -> EntrySteps]
  /\ rank \in [Ranks -> RankRecords] /\ proc \in [Ranks -> Procs] /\ reached \in [Ranks -> BOOLEAN]
  /\ seen \in SeenRecords

-----------------------------------------------------------------------------
(* Submission: one request. *)

\* A request the runtime takes and the backend can express.
Fine(d) == d \in Requests /\ ~RayRefuses(use.plans[d]) /\ ~Inexpressible(use.plans[d])

Sending == {"send", "confirm", "accept"}

\* A client sends the request whose plan is on record, and stops the RayJob it
\* verified.
ClientInv(c) ==
  /\ c \notin use.clients => client[c].at = "idle" /\ client[c].ref = 0
  /\ client[c].at \in {"info", "recheck", "plan"} \cup Sending =>
       client[c].asks \in Requests /\ ~RayRefuses(use.plans[client[c].asks])
  /\ client[c].at = "plan" => files.plan \in {0, client[c].asks}
  /\ client[c].at \in Sending => client[c].asks = files.plan
  /\ client[c].at \in {"confirm", "accept"} => ~Inexpressible(use.plans[client[c].asks])
  /\ client[c].at = "stop" => Bound(client[c].read) /\ client[c].read.request # 0

\* Whatever exists, is under way, runs or was accepted is the planned request.
RequestInv ==
  /\ \A c \in Clients : ClientInv(c)
  /\ Exists => job.request = files.plan /\ Fine(files.plan)
  /\ \A d \in underway : d = files.plan /\ Fine(d)
  /\ files.claim \/ (\E e \in Entries : entry[e] # "unborn") => Fine(files.plan)
  /\ \A d \in seen.ran : d = files.plan /\ Fine(d)
  /\ files.rejected # 0 => ~Fine(files.rejected)
  /\ files.accepted # 0 =>
       files.accepted = files.plan /\ \A c \in Clients : client[c].ref \in {0, files.accepted}
  /\ ~seen.missed /\ ~seen.astray

-----------------------------------------------------------------------------
(* The workload: one owner, and what it may rely on. *)

Supervising == {"clear", "spawned", "watching", "told"}
Driving == {"grouped", "leaving", "polled", "awaiting"}
Owners == {"owner"} \cup Supervising \cup Driving

Group == Grouped(use.plans[files.plan])

Untouched == \A r \in Ranks : rank[r].at = "none" /\ proc[r] = "none" /\ ~reached[r]

\* An owner holds the claim, has not written the ending, and has not been
\* overtaken by what it is about to start.
EntryInv(e) ==
  /\ entry[e] \in Owners => files.claim /\ files.finished = "none"
  /\ entry[e] \in {"owner", "clear"} => Untouched
  /\ entry[e] = "owner" => ~files.abort
  /\ entry[e] \in Supervising => ~Group
  /\ entry[e] \in Driving => Group
  /\ entry[e] \in {"spawned", "watching", "told"} => proc[1] # "none"
  /\ entry[e] \in {"spawned", "watching"} => ~reached[1]
  /\ entry[e] \in {"told", "leaving", "polled"} => files.cancel
  /\ entry[e] = "awaiting" => files.abort
  /\ entry[e] \in {"grouped", "leaving", "polled"} /\ files.abort =>
       \E r \in RanksOf(The) : rank[r].record = "failed"

\* A rank belongs to the claimed group; a worker was started once, and what is
\* recorded of it is what was done to it.
RankInv(r) ==
  /\ rank[r].at # "none" => files.claim /\ Group /\ r \in RanksOf(The)
  /\ proc[r] # "none" => files.claim /\ IF Group THEN rank[r].at # "none" ELSE r = 1
  /\ seen.spawns[r] = IF proc[r] = "none" THEN 0 ELSE 1
  /\ rank[r].at \in {"asked", "announced", "clear"} => proc[r] = "none"
  /\ proc[r] = "none" => ~reached[r]
  /\ rank[r].record # "none" <=> rank[r].at = "done"
  /\ rank[r].at = "done" => proc[r] # "running"
  /\ rank[r].at # "none" /\ reached[r] => rank[r].stopped # "no"
  /\ rank[r].stopped = "group" \/ rank[r].record = "idle" => files.abort
  /\ rank[r].stopped = "cancel" \/ rank[r].record \in {"never", "cancelled"} => files.cancel
  /\ rank[r].record = "ended" => rank[r].stopped = "group" \/ (rank[r].stopped = "no" /\ proc[r] = "zero")

Quiet(r) == rank[r].at \in {"none", "done"}

\* finished.json against the ranks and workers.
FinishedInv ==
  /\ files.finished = "succeeded" =>
       \A r \in RanksOf(The) : Quiet(r) /\ proc[r] = "zero" /\ ~reached[r]
  /\ files.finished = "cancelled" =>
       files.cancel /\ \A r \in Ranks : Quiet(r) /\ rank[r].record # "failed"
  /\ files.finished = "never" =>
       /\ files.cancel
       /\ \A r \in Ranks : proc[r] = "none" /\ rank[r].at \notin {"clear", "waiting"} /\ rank[r].record # "failed"
  /\ files.finished = "failed" => files.abort \/ \A r \in Ranks : Quiet(r)
  /\ files.finished # "none" =>
       /\ files.claim
       /\ \A r \in Ranks : proc[r] = "running" => files.finished = "failed" /\ files.abort

WorkloadInv ==
  /\ \A e \in Entries : EntryInv(e)
  /\ \A e, f \in Entries : entry[e] \in Owners /\ entry[f] \in Owners => e = f
  /\ \A r \in Ranks : RankInv(r)
  /\ FinishedInv /\ (files.abort => files.claim)

-----------------------------------------------------------------------------
(* Answers: once Ray says that a job without an ending is over, it is. *)

Over == {"STOPPED", "FAILED"}
NoneLive == \A e \in Entries : ~LiveEntry(e)
Unborn == \A e \in Entries : entry[e] = "unborn"

\* The endings that can be told of a job that is over as t.
Told(t) ==
  CASE t = "STOPPED" -> {"cancelled"}
    [] t = "FAILED" -> {"failed"} \cup (IF files.cancel /\ ~files.started THEN {"cancelled"} ELSE {})
    [] OTHER -> {}

\* The job is over as t ("none": as far as anybody was told, it goes on), for
\* Ray, for every client that has read it and has yet to answer, and for what
\* was answered.
OverAs(t) ==
  /\ t # "none" => NoneLive /\ (IF Exists THEN JobStatus(job) = t ELSE seen.lost)
  /\ Exists /\ JobStatus(job) \in Over => JobStatus(job) = t
  /\ \A c \in Clients :
       client[c].at = "answer" /\ client[c].read.request # 0 /\ JobStatus(client[c].read) \in Over =>
         JobStatus(client[c].read) = t
  /\ files.finished = "none" => seen.endings \subseteq Told(t)

\* Ray's record against the entrypoints.
JobInv ==
  /\ ~Exists => job = NoJob
  /\ job.deployed # "ok" => use.backend # "jobs" /\ job.status \notin Terminal
  /\ job.deployed = "Failed" => job.status = "PENDING"
  /\ job.deployed = "Suspended" => NoneLive
  /\ ~Exists /\ ~seen.lost => Unborn
  /\ Exists /\ job.status = "PENDING" /\ ~seen.resent => Unborn

AnswerInv ==
  /\ JobInv
  /\ ~seen.resent => /\ \E t \in {"none"} \cup Over : OverAs(t)
                     /\ files.finished # "none" => seen.endings \subseteq {Classified}

RayInv == RayShapes /\ RequestInv /\ WorkloadInv /\ AnswerInv

-----------------------------------------------------------------------------
\* What RaySetupOK says of the setup in use: a plan's ranks are among Ranks, and
\* clients that run at the same time submit one request.
LEMMA SetupFacts ==
  ASSUME use \in RaySetups
  PROVE  /\ use.mishaps \in Nat /\ use.clients \subseteq Clients
         /\ DOMAIN use.plans \in {{1}, {1, 2}}
         /\ \A d \in Requests : use.plans[d].workers \in 0 .. MaxRanks
         /\ Requests = {1} \/ \E c \in Clients : use.clients = {c}
         /\ 0 \notin Requests
         /\ 1 \in Ranks /\ \A d \in Requests : RanksOf(d) \subseteq Ranks
BY RayAssumption DEF RaySetupOK, Requests, Ranks, RanksOf

\* Every variable begins in its set.
LEMMA InitShapes == RayInit => RayShapes
<1> SUFFICES ASSUME RayInit PROVE RayShapes
  OBVIOUS
<1>1. NoJob \in JobRecords
  BY DEF NoJob, JobRecords, Named, Terminal
<1>2. client \in [Clients -> ClientRecords]
  BY <1>1 DEF RayInit, ClientRecords, ClientSteps, Named
<1>3. files \in FileRecords
  BY DEF RayInit, FileRecords, NoFiles, Named, RayEndings
<1>4. rank \in [Ranks -> RankRecords] /\ seen \in SeenRecords
  BY DEF RayInit, RankRecords, RankSteps, SeenRecords
<1> QED
  BY <1>1, <1>2, <1>3, <1>4, SetupFacts DEF RayInit, RayShapes, EntrySteps, Procs

\* The record a client has of a call keeps its shape.
LEMMA ToShape ==
  ASSUME client \in [Clients -> ClientRecords], use' = use, NEW c \in Clients, NEW s \in ClientSteps, To(c, s)
  PROVE  /\ client' \in [Clients -> ClientRecords]
         /\ \A k \in Clients : k # c => client'[k] = client[k]
         /\ client'[c].at = s /\ client'[c].ref = client[c].ref
         /\ s # "idle" => client'[c].asks = client[c].asks /\ client'[c].read = client[c].read
<1>1. client[c] \in ClientRecords /\ NoJob \in JobRecords /\ 0 \in Named
  BY DEF NoJob, JobRecords, Named, Terminal
<1>2. client'[c] = [client[c] EXCEPT !.at = s, !.asks = IF s = "idle" THEN 0 ELSE @, !.read = IF s = "idle" THEN NoJob ELSE @]
  BY DEF To
<1>3. client'[c] \in ClientRecords
  BY <1>1, <1>2 DEF ClientRecords
<1>4. client' \in [Clients -> ClientRecords]
  BY <1>3 DEF To
<1> QED
  BY <1>1, <1>2, <1>4 DEF To, ClientRecords

\* The sets of records are the same after a step, and what keeps to them keeps
\* RayShapes.
LEMMA ShapesKept ==
  ASSUME RayShapes, use' = use,
         job' \in JobRecords, underway' \subseteq Requests, client' \in [Clients -> ClientRecords],
         files' \in FileRecords, entry' \in [Entries -> EntrySteps],
         rank' \in [Ranks -> RankRecords], proc' \in [Ranks -> Procs], reached' \in [Ranks -> BOOLEAN],
         seen' \in SeenRecords, mishaps' \in 0 .. use.mishaps
  PROVE  RayShapes'
BY DEF RayShapes, FileRecords, RankRecords, SeenRecords, JobRecords, ClientRecords, Named, Requests

\* Faults are counted up to the setup's bound.
LEMMA MishapShape ==
  ASSUME RayShapes, NEW k, Mishap(k)
  PROVE  mishaps' \in 0 .. use.mishaps
BY SetupFacts DEF RayShapes, Mishap

\* The job a submission makes.
LEMMA NewJobShape ==
  ASSUME NEW d \in Requests
  PROVE  /\ NewJob(d) \in JobRecords /\ NewJob(d).request = d /\ NewJob(d).status = "PENDING"
         /\ NewJob(d).deployed = "ok" /\ NewJob(d).cluster = "bound" /\ ~NewJob(d).marker
         /\ ~NewJob(d).suspend
BY DEF NewJob, NoJob, JobRecords, Named, Terminal

\* Making the job keeps the shapes of what it changes.
LEMMA MadeShape ==
  ASSUME RayShapes, NEW d \in Requests, Made(d)
  PROVE  job' \in JobRecords /\ seen' \in SeenRecords
BY NewJobShape DEF RayShapes, Made, SeenRecords

\* A client's step keeps the shapes.
LEMMA ClientShapes ==
  ASSUME RayShapes, RequestInv, NEW c \in Clients, Client(c) \/ ClientDies(c)
  PROVE  RayShapes'
<1> USE SetupFacts DEF clusterVars
<1>0. /\ client[c] \in ClientRecords /\ client[c].asks \in Named /\ client[c].read \in JobRecords
      /\ files \in FileRecords /\ job \in JobRecords /\ seen \in SeenRecords /\ NoJob \in JobRecords
      /\ 0 \in Named
  BY DEF RayShapes, ClientRecords, NoJob, JobRecords, Named, Terminal
<1>T. ASSUME NEW s \in ClientSteps, To(c, s), use' = use PROVE client' \in [Clients -> ClientRecords]
  BY <1>T, ToShape DEF RayShapes
<1>1. ASSUME NEW d \in Requests, SubmitBegins(c, d) PROVE RayShapes'
  <2>1. client' \in [Clients -> ClientRecords]
    <3>1. [client[c] EXCEPT !.at = "info", !.asks = d] \in ClientRecords
      BY <1>0 DEF ClientRecords, ClientSteps, Named
    <3> QED
      BY <1>1, <3>1 DEF SubmitBegins, RayShapes
  <2>2. files' \in FileRecords
    BY <1>0, <1>1 DEF SubmitBegins, Put, FileRecords, Named
  <2> QED
    BY <1>1, <2>1, <2>2, ShapesKept DEF SubmitBegins, RayShapes
<1>2. CASE SubmitAsks(c) \/ SubmitConfirms(c)
  <2>1. PICK s \in ClientSteps : To(c, s)
    BY <1>2 DEF SubmitAsks, SubmitConfirms, ClientSteps
  <2> QED
    BY <1>2, <1>T, <2>1, ShapesKept DEF SubmitAsks, SubmitConfirms, RayShapes
<1>3. CASE SubmitRechecks(c)
  <2>1. client' \in [Clients -> ClientRecords]
    <3>1. CASE \E s \in ClientSteps : To(c, s)
      BY <1>3, <1>T, <3>1 DEF SubmitRechecks
    <3>2. CASE client' = [client EXCEPT ![c].at = "idle", ![c].asks = 0, ![c].ref = client[c].asks]
      <4>1. [client[c] EXCEPT !.at = "idle", !.asks = 0, !.ref = client[c].asks] \in ClientRecords
        BY <1>0 DEF ClientRecords, ClientSteps
      <4> QED
        BY <3>2, <4>1 DEF RayShapes
    <3> QED
      BY <1>3, <3>1, <3>2 DEF SubmitRechecks, ClientSteps
  <2> QED
    BY <1>3, <2>1, ShapesKept DEF SubmitRechecks, RayShapes
<1>4. CASE SubmitPlans(c)
  <2>1. files' \in FileRecords
    BY <1>0, <1>4 DEF SubmitPlans, Put, FileRecords
  <2> QED
    BY <1>4, <1>T, <2>1, ShapesKept DEF SubmitPlans, RayShapes, ClientSteps
<1>5. CASE SubmitSends(c)
  <2>0. client[c].asks \in Requests
    BY <1>5 DEF SubmitSends, At, RequestInv, ClientInv, Sending
  <2>1. files' \in FileRecords
    BY <1>0, <1>5 DEF SubmitSends, Put, FileRecords
  <2>2. PICK s \in ClientSteps : To(c, s)
    BY <1>5 DEF SubmitSends, ClientSteps
  <2>3. job' \in JobRecords /\ seen' \in SeenRecords
    BY <1>0, <1>5, <2>0, MadeShape DEF SubmitSends
  <2>4. underway' \subseteq Requests /\ mishaps' \in 0 .. use.mishaps
    BY <1>5, <2>0, MishapShape DEF SubmitSends, RayShapes
  <2> QED
    BY <1>5, <1>T, <2>1, <2>2, <2>3, <2>4, ShapesKept DEF SubmitSends, RayShapes
<1>6. CASE SubmitAccepts(c)
  <2>1. files' \in FileRecords
    BY <1>0, <1>6 DEF SubmitAccepts, FileRecords
  <2>2. [client[c] EXCEPT !.at = "idle", !.asks = 0, !.ref = client[c].asks] \in ClientRecords
    BY <1>0 DEF ClientRecords, ClientSteps
  <2>3. client' \in [Clients -> ClientRecords]
    BY <1>6, <2>2 DEF SubmitAccepts, RayShapes
  <2> QED
    BY <1>6, <2>1, <2>3, ShapesKept DEF SubmitAccepts, RayShapes
<1>7. CASE Asks(c)
  <2>1. [client[c] EXCEPT !.at = "answer", !.read = job] \in ClientRecords
    BY <1>0 DEF ClientRecords, ClientSteps
  <2>2. client' \in [Clients -> ClientRecords]
    BY <1>7, <2>1 DEF Asks, RayShapes
  <2> QED
    BY <1>7, <2>2, ShapesKept DEF Asks, RayShapes
<1>8. CASE Answers(c)
  <2>1. seen' \in SeenRecords
    <3>1. Answered(WorkloadStatus(client[c].read)) \subseteq RayEndings
      BY DEF Answered
    <3> QED
      BY <1>0, <1>8, <3>1 DEF Answers, SeenRecords
  <2> QED
    BY <1>8, <1>T, <2>1, ShapesKept DEF Answers, RayShapes, ClientSteps
<1>9. CASE CancelWrites(c)
  <2>1. files' \in FileRecords
    BY <1>0, <1>9 DEF CancelWrites, Put, FileRecords
  <2>2. PICK s \in ClientSteps : To(c, s)
    BY <1>9 DEF CancelWrites, ClientSteps
  <2> QED
    BY <1>9, <1>T, <2>1, <2>2, ShapesKept DEF CancelWrites, RayShapes
<1>10. CASE CancelAsks(c)
  <2>1. PICK s \in {"idle", "stop"}, j \in JobRecords : client' = [client EXCEPT ![c].at = s, ![c].read = j]
    BY <1>0, <1>10 DEF CancelAsks
  <2>2. [client[c] EXCEPT !.at = s, !.read = j] \in ClientRecords
    BY <1>0 DEF ClientRecords, ClientSteps
  <2>3. client' \in [Clients -> ClientRecords]
    BY <2>1, <2>2 DEF RayShapes
  <2> QED
    BY <1>10, <2>3, ShapesKept DEF CancelAsks, RayShapes
<1>11. CASE StopsJob(c)
  <2>1. job' \in JobRecords
    BY <1>0, <1>11 DEF StopsJob, JobRecords
  <2> QED
    BY <1>11, <1>T, <2>1, ShapesKept DEF StopsJob, RayShapes, ClientSteps
<1>12. CASE Suspends(c)
  <2>1. job' \in JobRecords
    BY <1>0, <1>12 DEF Suspends, Suspended, JobRecords
  <2>2. seen' \in SeenRecords
    BY <1>0, <1>12 DEF Suspends, Bound, SeenRecords
  <2>3. client' \in [Clients -> ClientRecords]
    <3>1. [client[c] EXCEPT !.read = job] \in ClientRecords
      BY <1>0 DEF ClientRecords
    <3>2. CASE client' = [client EXCEPT ![c].read = job]
      BY <3>1, <3>2 DEF RayShapes
    <3> QED
      BY <1>12, <1>T, <3>2 DEF Suspends, ClientSteps
  <2> QED
    BY <1>12, <2>1, <2>2, <2>3, ShapesKept DEF Suspends, RayShapes
<1>13. CASE ClientDies(c)
  BY <1>13, <1>T, MishapShape, ShapesKept DEF ClientDies, RayShapes, ClientSteps
<1> QED
  BY <1>1, <1>2, <1>3, <1>4, <1>5, <1>6, <1>7, <1>8, <1>9, <1>10, <1>11, <1>12, <1>13 DEF Client

\* A step of Ray, KubeRay or an operator keeps the shapes.
LEMMA ClusterShapes ==
  ASSUME RayShapes,
         \/ \E d \in Requests : ArrivesLate(d)
         \/ \E e \in Entries : StartsEntry(e) \/ JobEnds(e) \/ RayTerminates(e) \/ KillsEntry(e)
         \/ JobFails \/ RayStopsPending \/ OperatorStops \/ KubeSuspends \/ KubeDeletesCluster
         \/ ServerDefaults \/ SomebodyEdits \/ RayForgets
  PROVE  RayShapes'
<1> USE SetupFacts, ShapesKept DEF clusterVars
<1>0. files \in FileRecords /\ job \in JobRecords /\ seen \in SeenRecords /\ NoJob \in JobRecords
  BY DEF RayShapes, NoJob, JobRecords, Named, Terminal
<1>1. ASSUME NEW d \in Requests, ArrivesLate(d) PROVE RayShapes'
  BY <1>0, <1>1, MadeShape DEF ArrivesLate, RayShapes
<1>2. ASSUME NEW e \in Entries, StartsEntry(e) PROVE RayShapes'
  <2>1. job' \in JobRecords
    BY <1>0, <1>2 DEF StartsEntry, JobRecords
  <2> QED
    BY <1>2, <2>1, MishapShape DEF StartsEntry, RayShapes, EntrySteps
<1>3. ASSUME NEW e \in Entries, JobEnds(e) PROVE RayShapes'
  <2>1. job' \in JobRecords
    BY <1>0, <1>3 DEF JobEnds, JobRecords, Terminal
  <2> QED
    BY <1>3, <2>1 DEF JobEnds, RayShapes
<1>4. ASSUME NEW e \in Entries, RayTerminates(e) PROVE RayShapes'
  <2>1. files' \in FileRecords
    BY <1>0, <1>4 DEF RayTerminates, Put, FileRecords
  <2> QED
    BY <1>4, <2>1 DEF RayTerminates, RayShapes
<1>5. ASSUME NEW e \in Entries, KillsEntry(e) PROVE RayShapes'
  BY <1>5, MishapShape DEF KillsEntry, RayShapes, EntrySteps
<1>6. CASE JobFails \/ RayStopsPending \/ OperatorStops \/ KubeSuspends \/ ServerDefaults \/ SomebodyEdits
  <2>1. job' \in JobRecords
    BY <1>0, <1>6 DEF JobFails, RayStopsPending, OperatorStops, KubeSuspends, ServerDefaults, SomebodyEdits,
                      JobRecords, Terminal
  <2>2. mishaps' \in 0 .. use.mishaps
    BY <1>6, MishapShape DEF JobFails, RayStopsPending, OperatorStops, KubeSuspends, ServerDefaults,
                             SomebodyEdits, RayShapes
  <2> QED
    BY <1>6, <2>1, <2>2 DEF JobFails, RayStopsPending, OperatorStops, KubeSuspends, ServerDefaults,
                            SomebodyEdits, RayShapes
<1>7. CASE KubeDeletesCluster
  <2>1. job' \in JobRecords
    BY <1>0, <1>7 DEF KubeDeletesCluster, JobRecords
  <2>2. rank' \in [Ranks -> RankRecords]
    BY <1>7 DEF KubeDeletesCluster, RayShapes, RankRecords, RankSteps
  <2>3. entry' \in [Entries -> EntrySteps] /\ proc' \in [Ranks -> Procs]
    BY <1>7 DEF KubeDeletesCluster, RayShapes, EntrySteps, Procs
  <2> QED
    BY <1>7, <2>1, <2>2, <2>3 DEF KubeDeletesCluster, RayShapes
<1>8. CASE RayForgets
  <2>1. entry' \in [Entries -> EntrySteps]
    BY <1>8 DEF RayForgets, RayShapes, EntrySteps
  <2>2. seen' \in SeenRecords
    BY <1>0, <1>8 DEF RayForgets, SeenRecords
  <2> QED
    BY <1>0, <1>8, <2>1, <2>2, MishapShape DEF RayForgets, RayShapes
<1> QED
  BY <1>1, <1>2, <1>3, <1>4, <1>5, <1>6, <1>7, <1>8

\* So does the start of a worker.
LEMMA SpawnShape ==
  ASSUME RayShapes, The \in Requests, NEW r \in Ranks, Spawn(r)
  PROVE  proc' \in [Ranks -> Procs] /\ seen' \in SeenRecords
<1>1. seen \in SeenRecords /\ seen.spawns \in [Ranks -> Nat] /\ seen.ran \subseteq Requests
  BY DEF RayShapes, SeenRecords
<1>2. [seen.spawns EXCEPT ![r] = @ + 1] \in [Ranks -> Nat]
  BY <1>1
<1>3. seen' = [seen EXCEPT !.spawns = [seen.spawns EXCEPT ![r] = @ + 1], !.ran = @ \cup {The}]
  BY <1>1 DEF Spawn, SeenRecords
<1>4. seen' \in SeenRecords
  BY <1>1, <1>2, <1>3 DEF SeenRecords
<1> QED
  BY <1>4 DEF RayShapes, Spawn, Procs

\* finished.json is written with an entrypoint's exit.
LEMMA FinishShape ==
  ASSUME RayShapes, NEW e \in Entries, NEW how \in RayEndings \cup {"never"}, NEW code \in {"exit0", "exit1"},
         Finish(e, how, code)
  PROVE  files' \in FileRecords /\ entry' \in [Entries -> EntrySteps]
BY DEF RayShapes, Finish, Put, FileRecords, EntrySteps

\* A step of the entrypoint keeps the shapes.
LEMMA EntryShapes ==
  ASSUME RayShapes, NEW e \in Entries, Entrypoint(e), The \in Requests
  PROVE  RayShapes'
<1> USE SetupFacts, ShapesKept DEF clusterVars
<1>0. files \in FileRecords /\ entry \in [Entries -> EntrySteps] /\ rank \in [Ranks -> RankRecords]
  BY DEF RayShapes
<1>1. CASE ClaimsWorkload(e)
  <2>1. files' \in FileRecords /\ entry' \in [Entries -> EntrySteps]
    BY <1>0, <1>1 DEF ClaimsWorkload, Put, FileRecords, EntrySteps
  <2> QED
    BY <1>1, <2>1 DEF ClaimsWorkload, RayShapes
<1>2. CASE BeginsWorkload(e)
  <2>1. files' \in FileRecords /\ entry' \in [Entries -> EntrySteps]
    BY <1>0, <1>2, FinishShape DEF BeginsWorkload, EntrySteps
  <2>2. rank' \in [Ranks -> RankRecords]
    BY <1>0, <1>2 DEF BeginsWorkload, RankRecords, RankSteps
  <2> QED
    BY <1>2, <2>1, <2>2 DEF BeginsWorkload, RayShapes
<1>3. CASE SpawnsWorker(e)
  <2>1. files' \in FileRecords /\ entry' \in [Entries -> EntrySteps]
    BY <1>0, <1>3, FinishShape DEF SpawnsWorker, EntrySteps, RayEndings
  <2>2. proc' \in [Ranks -> Procs] /\ seen' \in SeenRecords
    BY <1>3, SpawnShape DEF SpawnsWorker, RayShapes
  <2> QED
    BY <1>3, <2>1, <2>2 DEF SpawnsWorker, RayShapes
<1>4. CASE RecordsStart(e)
  <2>1. files' \in FileRecords /\ entry' \in [Entries -> EntrySteps]
    BY <1>0, <1>4 DEF RecordsStart, Put, FileRecords, EntrySteps
  <2> QED
    BY <1>4, <2>1 DEF RecordsStart, RayShapes
<1>5. CASE Supervises(e)
  <2>1. files' \in FileRecords /\ entry' \in [Entries -> EntrySteps]
    BY <1>0, <1>5, FinishShape DEF Supervises, EntrySteps, RayEndings
  <2>2. reached' \in [Ranks -> BOOLEAN]
    BY <1>5 DEF Supervises, RayShapes
  <2> QED
    BY <1>5, <2>1, <2>2 DEF Supervises, RayShapes
<1>6. CASE ReadyGroup(e)
  <2>1. files' \in FileRecords
    BY <1>0, <1>6 DEF ReadyGroup, Put, FileRecords
  <2> QED
    BY <1>6, <2>1 DEF ReadyGroup, RayShapes
<1>7. CASE SeesCancellation(e)
  BY <1>7 DEF SeesCancellation, RayShapes, EntrySteps
<1>8. CASE LeavesGroup(e)
  <2>1. files' \in FileRecords /\ entry' \in [Entries -> EntrySteps]
    BY <1>0, <1>8, FinishShape DEF LeavesGroup, EntrySteps
  <2> QED
    BY <1>8, <2>1 DEF LeavesGroup, RayShapes
<1>9. CASE AbortsGroup(e)
  <2>1. files' \in FileRecords
    BY <1>0, <1>9 DEF AbortsGroup, Put, FileRecords
  <2> QED
    BY <1>9, <2>1 DEF AbortsGroup, RayShapes, EntrySteps
<1>10. CASE EndsGroup(e)
  <2>1. PICK how \in RayEndings, b \in BOOLEAN : files' = [files EXCEPT !.finished = how, !.started = b]
    <3>1. GroupOutcome(entry[e] = "awaiting") \in RayEndings
      BY DEF GroupOutcome, RayEndings
    <3>2. (files.started \/ \A r \in RanksOf(The) : rank[r].started) \in BOOLEAN
      OBVIOUS
    <3> QED
      BY <1>10, <3>1, <3>2 DEF EndsGroup
  <2>2. files' \in FileRecords
    BY <1>0, <2>1 DEF FileRecords
  <2>3. entry' \in [Entries -> EntrySteps]
    BY <1>0, <1>10 DEF EndsGroup, EntrySteps
  <2> QED
    BY <1>10, <2>2, <2>3 DEF EndsGroup, RayShapes
<1> QED
  BY <1>1, <1>2, <1>3, <1>4, <1>5, <1>6, <1>7, <1>8, <1>9, <1>10 DEF Entrypoint

\* A step of a rank or of its worker keeps the shapes.
LEMMA RankShapes ==
  ASSUME RayShapes, NEW r \in Ranks, Announces(r) \/ RankStep(r) \/ RankDies(r) \/ WorkerEnds(r), The \in Requests
  PROVE  RayShapes'
<1> USE SetupFacts, ShapesKept DEF clusterVars
<1>0. files \in FileRecords /\ rank \in [Ranks -> RankRecords] /\ rank[r] \in RankRecords
  BY DEF RayShapes
<1>R. ASSUME NEW s \in RankSteps, RankAt(r, s) PROVE rank' \in [Ranks -> RankRecords]
  <2>1. [rank[r] EXCEPT !.at = s] \in RankRecords
    BY <1>0 DEF RankRecords
  <2> QED
    BY <1>0, <1>R, <2>1 DEF RankAt
<1>1. CASE Announces(r)
  BY <1>1, <1>R DEF Announces, RayShapes, RankSteps
<1>2. CASE Checks(r)
  <2>1. ASSUME NEW x \in {"never", "idle"} PROVE [rank[r] EXCEPT !.at = "done", !.record = x] \in RankRecords
    BY <1>0 DEF RankRecords, RankSteps
  <2>2. rank' \in [Ranks -> RankRecords]
    BY <1>0, <1>2, <1>R, <2>1 DEF Checks, RankSteps
  <2> QED
    BY <1>2, <2>2 DEF Checks, RayShapes
<1>3. CASE SpawnsRank(r)
  <2>1. /\ [rank[r] EXCEPT !.at = "waiting", !.started = TRUE] \in RankRecords
        /\ [rank[r] EXCEPT !.at = "done", !.record = "failed"] \in RankRecords
    BY <1>0 DEF RankRecords, RankSteps
  <2>2. rank' \in [Ranks -> RankRecords]
    BY <1>0, <1>3, <2>1 DEF SpawnsRank
  <2>3. files' \in FileRecords
    BY <1>0, <1>3 DEF SpawnsRank, Put, FileRecords
  <2>4. proc' \in [Ranks -> Procs] /\ seen' \in SeenRecords
    BY <1>3, SpawnShape DEF SpawnsRank, RayShapes
  <2> QED
    BY <1>3, <2>2, <2>3, <2>4 DEF SpawnsRank, RayShapes
<1>4. CASE StopsRank(r)
  <2>1. ASSUME NEW x \in {"cancel", "group"} PROVE [rank[r] EXCEPT !.stopped = x] \in RankRecords
    BY <1>0 DEF RankRecords
  <2>2. rank' \in [Ranks -> RankRecords]
    BY <1>0, <1>4, <2>1 DEF StopsRank
  <2>3. reached' \in [Ranks -> BOOLEAN]
    <3>1. (proc[r] = "running") \in BOOLEAN
      OBVIOUS
    <3> QED
      BY <1>4, <3>1 DEF StopsRank, RayShapes
  <2> QED
    BY <1>4, <2>2, <2>3 DEF StopsRank, RayShapes
<1>5. CASE ReapsRank(r)
  <2>1. ASSUME NEW x \in {"failed", "cancelled", "ended"} PROVE [rank[r] EXCEPT !.at = "done", !.record = x] \in RankRecords
    BY <1>0 DEF RankRecords, RankSteps
  <2>2. rank' \in [Ranks -> RankRecords]
    BY <1>0, <1>5, <2>1 DEF ReapsRank
  <2>3. files' \in FileRecords
    BY <1>0, <1>5 DEF ReapsRank, FileRecords
  <2> QED
    BY <1>5, <2>2, <2>3 DEF ReapsRank, RayShapes
<1>6. CASE RankDies(r)
  BY <1>6, <1>R, MishapShape DEF RankDies, RayShapes, RankSteps
<1>7. CASE WorkerEnds(r)
  BY <1>7 DEF WorkerEnds, RayShapes, Procs
<1> QED
  BY <1>1, <1>2, <1>3, <1>4, <1>5, <1>6, <1>7 DEF RankStep

-----------------------------------------------------------------------------
(* Submission. *)

\* What a setup says of a request is the same after a step.
LEMMA FineKept ==
  ASSUME use' = use
  PROVE  Requests' = Requests /\ \A d : Fine(d)' <=> Fine(d)
BY DEF Requests, RayRefuses, TrainRefuses, JobsRefuses, Inexpressible, Fine, Grouped

\* A call that stays where it was, with the same plan on record.
LEMMA ClientKept ==
  ASSUME use' = use, NEW c \in Clients, ClientInv(c), client'[c] = client[c],
         files'.plan = files.plan
  PROVE  ClientInv(c)'
BY DEF ClientInv, Sending, Requests, RayRefuses, TrainRefuses, JobsRefuses, Inexpressible, Grouped, Bound,
       Identity

\* RequestInv of the state after a step, in terms of the setup before it.
LEMMA RequestBuilt ==
  ASSUME use' = use, \A c \in Clients : ClientInv(c)',
         job'.request = 0 \/ (job'.request = files'.plan /\ Fine(files'.plan)),
         \A d \in underway' : d = files'.plan /\ Fine(d),
         files'.claim \/ (\E e \in Entries : entry'[e] # "unborn") => Fine(files'.plan),
         \A d \in seen'.ran : d = files'.plan /\ Fine(d),
         files'.rejected = 0 \/ ~Fine(files'.rejected),
         files'.accepted # 0 =>
           files'.accepted = files'.plan /\ \A c \in Clients : client'[c].ref \in {0, files'.accepted},
         ~seen'.missed, ~seen'.astray
  PROVE  RequestInv'
<1>1. Fine(files.plan)' <=> Fine(files'.plan)
  BY DEF Requests, RayRefuses, TrainRefuses, JobsRefuses, Inexpressible, Fine, Grouped
<1>2. Fine(files.rejected)' <=> Fine(files'.rejected)
  BY DEF Requests, RayRefuses, TrainRefuses, JobsRefuses, Inexpressible, Fine, Grouped
<1>3. (\A d \in underway : d = files.plan /\ Fine(d))' /\ (\A d \in seen.ran : d = files.plan /\ Fine(d))'
  BY FineKept
<1> QED
  BY <1>1, <1>2, <1>3 DEF RequestInv, Exists

\* The cluster starts only what was planned.
LEMMA RequestKept ==
  ASSUME RequestInv, use' = use, client' = client, underway' \subseteq underway,
         files'.plan = files.plan, files'.rejected = files.rejected, files'.accepted = files.accepted,
         job'.request \in {0, job.request} \/ (job'.request = files.plan /\ Fine(files.plan)),
         files'.claim \/ (\E e \in Entries : entry'[e] # "unborn") => Fine(files.plan),
         \A d \in seen'.ran : d = files.plan /\ Fine(d),
         seen'.missed = seen.missed, seen'.astray = seen.astray
  PROVE  RequestInv'
<1>1. \A c \in Clients : ClientInv(c)'
  BY ClientKept DEF RequestInv
<1> QED
  BY <1>1, RequestBuilt DEF RequestInv, Exists

\* A call that leaves the job, the plan and the acceptance as they were.
LEMMA RequestOfCall ==
  ASSUME RequestInv, use' = use, underway' = underway, job'.request = job.request, entry' = entry,
         files'.plan = files.plan, files'.claim = files.claim, files'.accepted = files.accepted,
         files'.rejected = 0 \/ ~Fine(files'.rejected),
         seen'.ran = seen.ran, ~seen'.missed, ~seen'.astray,
         NEW c \in Clients, ClientInv(c)', \A k \in Clients \ {c} : client'[k] = client[k],
         client'[c].ref \in {client[c].ref, 0, files.accepted}
  PROVE  RequestInv'
<1>1. \A k \in Clients : ClientInv(k)'
  BY ClientKept DEF RequestInv
<1> QED
  BY <1>1, RequestBuilt DEF RequestInv, Exists

\* A call that ends is at its beginning again.
LEMMA IdleInv ==
  ASSUME NEW c \in Clients, client'[c].at = "idle", c \in use.clients, use' = use
  PROVE  ClientInv(c)'
BY DEF ClientInv, Sending

\* submit_or_get, lookup and cancel keep RequestInv: what is sent was planned,
\* what is accepted was sent, what is refused is never planned.
LEMMA ClientRequest ==
  ASSUME RayShapes, RequestInv, WorkloadInv, NEW c \in Clients, Client(c) \/ ClientDies(c)
  PROVE  RequestInv'
<1> USE DEF clusterVars
<1> DEFINE d == client[c].asks
<1>0. /\ ~seen.missed /\ ~seen.astray /\ ClientInv(c)
      /\ files.rejected = 0 \/ ~Fine(files.rejected)
      /\ client \in [Clients -> ClientRecords] /\ seen \in SeenRecords /\ files \in FileRecords /\ job \in JobRecords
      /\ 0 \notin Requests
  BY SetupFacts DEF RequestInv, RayShapes
<1>T. ASSUME NEW s \in ClientSteps, To(c, s), use' = use
      PROVE  /\ \A k \in Clients \ {c} : client'[k] = client[k]
             /\ client'[c].at = s /\ client'[c].ref = client[c].ref
             /\ s # "idle" => client'[c].asks = client[c].asks /\ client'[c].read = client[c].read
  BY <1>T, ToShape DEF RayShapes
<1>1. ASSUME NEW r \in Requests, SubmitBegins(c, r) PROVE RequestInv'
  <2>1. CASE files.rejected = 0 /\ ~RayRefuses(use.plans[r])
    <3>1. /\ client' = [client EXCEPT ![c].at = "info", ![c].asks = r] /\ files' = files
          /\ c \in use.clients /\ use' = use
      BY <1>1, <2>1 DEF SubmitBegins, At
    <3>2. client'[c].at = "info" /\ client'[c].asks = r /\ client'[c].ref = client[c].ref
      BY <1>0, <3>1 DEF ClientRecords
    <3>3. ~RayRefuses(use.plans[client[c].asks])' /\ (client[c].asks \in Requests)'
      BY <2>1, <3>1, <3>2 DEF Requests, RayRefuses, TrainRefuses, JobsRefuses
    <3>4. ClientInv(c)'
      BY <3>1, <3>2, <3>3 DEF ClientInv, Sending
    <3> QED
      BY <1>0, <1>1, <3>1, <3>2, <3>4, RequestOfCall DEF SubmitBegins
  <2>2. CASE ~(files.rejected = 0 /\ ~RayRefuses(use.plans[r]))
    <3>1. files' = [files EXCEPT !.rejected = r] /\ client' = client /\ ~Fine(r) /\ use' = use
      BY <1>1, <2>2 DEF SubmitBegins, Put, Fine
    <3>2. ClientInv(c)'
      BY <1>0, <3>1, ClientKept DEF FileRecords
    <3> QED
      BY <1>0, <1>1, <3>1, <3>2, RequestOfCall DEF SubmitBegins, FileRecords
  <2> QED
    BY <2>1, <2>2
<1>2. CASE SubmitAsks(c)
  <2>1. PICK s \in {"accept", "recheck", "idle"} :
          To(c, s) /\ (s = "accept" => Exists /\ job.request = d)
    <3>1. PICK answer \in Infos :
            To(c, CASE answer = "found" -> IF Same(job.request, d) THEN "accept" ELSE "idle"
                    [] answer = "absent" -> "recheck"
                    [] OTHER -> "idle")
      BY <1>2 DEF SubmitAsks
    <3>2. answer = "found" => Exists
      BY DEF Infos
    <3>3. CASE answer = "found"
      BY <3>1, <3>2, <3>3 DEF Same
    <3>4. CASE answer = "absent"
      BY <3>1, <3>4
    <3>5. CASE answer \notin {"found", "absent"}
      BY <3>1, <3>5
    <3> QED
      BY <3>3, <3>4, <3>5
  <2>2. /\ client'[c].at = s /\ client'[c].ref = client[c].ref /\ use' = use /\ c \in use.clients
        /\ s # "idle" => client'[c].asks = d
        /\ files' = files
    BY <1>2, <1>T, <2>1 DEF SubmitAsks, ClientSteps, At
  <2>3. ClientInv(c)'
    <3>1. CASE s = "idle"
      BY <2>2, <3>1, IdleInv
    <3>2. CASE s # "idle"
      <4>1. d \in Requests /\ ~RayRefuses(use.plans[d])
        BY <1>0, <1>2 DEF SubmitAsks, At, ClientInv
      <4>2. s = "accept" => d = files.plan /\ ~Inexpressible(use.plans[d])
        BY <2>1, <4>1 DEF RequestInv, Fine
      <4> QED
        BY <2>2, <3>2, <4>1, <4>2
           DEF ClientInv, Sending, Requests, RayRefuses, TrainRefuses, JobsRefuses, Inexpressible, Grouped
    <3> QED
      BY <3>1, <3>2
  <2> QED
    BY <1>0, <1>2, <1>T, <2>1, <2>2, <2>3, RequestOfCall DEF SubmitAsks, ClientSteps
<1>3. CASE SubmitRechecks(c)
  <2>0. /\ use' = use /\ c \in use.clients /\ files' = files /\ client[c].at = "recheck"
        /\ d \in Requests /\ ~RayRefuses(use.plans[d])
    BY <1>0, <1>3 DEF SubmitRechecks, At, ClientInv
  <2>1. CASE \E s \in ClientSteps : To(c, s)
    <3>1. PICK s \in {"idle", "plan", "send"} :
            To(c, s) /\ (s = "plan" => files.plan = 0) /\ (s = "send" => files.plan = d)
      <4>1. CASE files.accepted # 0 /\ ~Same(files.accepted, d)
        BY <1>3, <4>1 DEF SubmitRechecks
      <4>2. CASE ~(files.accepted # 0 /\ ~Same(files.accepted, d)) /\ Evidence
        <5>1. client' = [client EXCEPT ![c].at = "idle", ![c].asks = 0, ![c].ref = d]
          BY <1>3, <4>2 DEF SubmitRechecks
        <5> QED
          BY <1>0, <1>T, <2>0, <2>1, <5>1 DEF ClientRecords
      <4>3. CASE ~(files.accepted # 0 /\ ~Same(files.accepted, d)) /\ ~Evidence
        BY <1>3, <4>3 DEF SubmitRechecks, Same
      <4> QED
        BY <4>1, <4>2, <4>3
    <3>2. /\ client'[c].at = s /\ client'[c].ref = client[c].ref
          /\ s # "idle" => client'[c].asks = d
      BY <1>T, <2>0, <3>1 DEF ClientSteps
    <3>3. ClientInv(c)'
      BY <2>0, <3>1, <3>2
         DEF ClientInv, Sending, Requests, RayRefuses, TrainRefuses, JobsRefuses, Inexpressible, Grouped
    <3> QED
      BY <1>0, <1>3, <1>T, <2>0, <3>1, <3>2, <3>3, RequestOfCall DEF SubmitRechecks, ClientSteps
  <2>2. CASE ~\E s \in ClientSteps : To(c, s)
    <3>1. /\ client' = [client EXCEPT ![c].at = "idle", ![c].asks = 0, ![c].ref = d]
          /\ files.accepted \in {0, d}
      BY <1>3, <2>2 DEF SubmitRechecks, Same, ClientSteps
    <3>2. client'[c].at = "idle" /\ client'[c].ref = d /\ \A k \in Clients \ {c} : client'[k] = client[k]
      BY <1>0, <3>1 DEF ClientRecords
    <3>3. ClientInv(c)'
      BY <2>0, <3>2, IdleInv
    <3>4. \A k \in Clients : ClientInv(k)'
      BY <2>0, <3>2, <3>3, ClientKept DEF RequestInv
    <3> QED
      BY <1>0, <1>3, <2>0, <3>1, <3>2, <3>4, RequestBuilt DEF RequestInv, SubmitRechecks, Exists
  <2> QED
    BY <2>1, <2>2
<1>4. CASE SubmitPlans(c)
  <2>0. /\ use' = use /\ c \in use.clients /\ client[c].at = "plan" /\ d \in Requests
        /\ ~RayRefuses(use.plans[d]) /\ files.plan \in {0, d}
        /\ files' = [files EXCEPT !.plan = d] /\ To(c, "send")
    BY <1>0, <1>4 DEF SubmitPlans, At, ClientInv, Put
  <2>1. /\ files'.plan = d /\ files'.rejected = files.rejected /\ files'.accepted = files.accepted
        /\ files'.claim = files.claim
    BY <1>0, <2>0 DEF FileRecords
  <2>2. /\ client'[c].at = "send" /\ client'[c].ref = client[c].ref /\ client'[c].asks = d
        /\ \A k \in Clients \ {c} : client'[k] = client[k]
    BY <1>T, <2>0 DEF ClientSteps
  <2>3. CASE files.plan = d
    <3>1. ClientInv(c)'
      BY <2>0, <2>1, <2>2
         DEF ClientInv, Sending, Requests, RayRefuses, TrainRefuses, JobsRefuses
    <3> QED
      BY <1>0, <1>4, <2>0, <2>1, <2>2, <2>3, <3>1, RequestOfCall DEF SubmitPlans
  <2>4. CASE files.plan = 0
    <3>0. ~Fine(0)
      BY <1>0 DEF Fine
    <3>1. /\ ~Exists /\ underway = {} /\ ~files.claim /\ \A e \in Entries : entry[e] = "unborn"
          /\ seen.ran = {} /\ files.accepted = 0
      BY <2>4, <3>0 DEF RequestInv
    <3>2. ASSUME NEW k \in Clients PROVE ClientInv(k)'
      <4>1. CASE k = c
        BY <2>0, <2>1, <2>2, <4>1
           DEF ClientInv, Sending, Requests, RayRefuses, TrainRefuses, JobsRefuses
      <4>2. CASE k # c
        <5>1. client'[k] = client[k] /\ ClientInv(k)
          BY <2>2, <4>2 DEF RequestInv
        <5>2. client[k].at \notin Sending
          BY <1>0, <2>4, <5>1 DEF ClientInv
        <5>3. client[k].at = "plan" => client[k].asks = d
          BY <2>0, <4>2, <5>1, SetupFacts DEF ClientInv, RayShapes
        <5> QED
          BY <2>0, <2>1, <5>1, <5>2, <5>3
             DEF ClientInv, Sending, Requests, RayRefuses, TrainRefuses, JobsRefuses, Bound, Identity
      <4> QED
        BY <4>1, <4>2
    <3> QED
      BY <1>0, <1>4, <2>0, <2>1, <3>1, <3>2, RequestBuilt DEF SubmitPlans, Exists
  <2> QED
    BY <2>0, <2>3, <2>4
<1>5. CASE SubmitSends(c)
  <2>0. /\ use' = use /\ c \in use.clients /\ client[c].at = "send" /\ d \in Requests
        /\ ~RayRefuses(use.plans[d]) /\ files.plan = d
    BY <1>0, <1>5 DEF SubmitSends, At, ClientInv, Sending
  <2>1. CASE Inexpressible(use.plans[d])
    <3>1. files' = [files EXCEPT !.rejected = d] /\ To(c, "idle") /\ UNCHANGED <<job, underway, seen, mishaps>>
      BY <1>5, <2>1 DEF SubmitSends, Put
    <3>2. client'[c].at = "idle" /\ client'[c].ref = client[c].ref /\ \A k \in Clients \ {c} : client'[k] = client[k]
      BY <1>T, <2>0, <3>1 DEF ClientSteps
    <3>3. ClientInv(c)' /\ ~Fine(d)
      BY <2>0, <2>1, <3>2, IdleInv DEF Fine
    <3> QED
      BY <1>0, <1>5, <2>0, <3>1, <3>2, <3>3, RequestOfCall DEF SubmitSends, FileRecords
  <2>2. CASE ~Inexpressible(use.plans[d])
    <3>0. Fine(d) /\ files' = files /\ entry' = entry
      BY <1>5, <2>0, <2>2 DEF SubmitSends, Fine
    <3>C. ASSUME NEW s \in {"accept", "confirm", "idle"}, To(c, s) PROVE \A k \in Clients : ClientInv(k)'
      <4>1. /\ client'[c].at = s /\ (s # "idle" => client'[c].asks = d)
            /\ \A k \in Clients \ {c} : client'[k] = client[k]
        BY <1>T, <2>0, <3>C DEF ClientSteps
      <4>2. ClientInv(c)'
        BY <2>0, <2>2, <3>0, <4>1
           DEF ClientInv, Sending, Requests, RayRefuses, TrainRefuses, JobsRefuses, Inexpressible, Grouped
      <4> QED
        BY <2>0, <3>0, <4>1, <4>2, ClientKept DEF RequestInv
    <3>R. ASSUME NEW s \in {"accept", "confirm", "idle"}, To(c, s)
          PROVE  \A k \in Clients : client'[k].ref = client[k].ref
      BY <1>T, <2>0, <3>R DEF ClientSteps
    <3>1. CASE ~Exists /\ Made(d) /\ To(c, "accept") /\ UNCHANGED <<underway, mishaps>>
      <4>1. job'.request = d
        BY <2>0, <3>1, NewJobShape DEF Made
      <4>2. seen'.ran = seen.ran /\ seen'.missed = seen.missed /\ seen'.astray = seen.astray
        BY <1>0, <3>1 DEF Made, SeenRecords
      <4>3. \A k \in Clients : ClientInv(k)' /\ client'[k].ref = client[k].ref
        BY <3>1, <3>C, <3>R
      <4> QED
        BY <1>0, <2>0, <3>0, <3>1, <4>1, <4>2, <4>3, RequestBuilt DEF RequestInv
    <3>2. CASE Exists /\ UNCHANGED <<job, underway, seen, mishaps>> /\ \E s \in {"accept", "confirm", "idle"} : To(c, s)
      BY <1>0, <2>0, <3>0, <3>2, <3>C, <3>R, RequestBuilt DEF RequestInv, Exists
    <3>3. CASE Mishap("client") /\ underway' = underway \cup {d} /\ To(c, "confirm") /\ UNCHANGED <<job, seen>>
      BY <1>0, <2>0, <3>0, <3>3, <3>C, <3>R, RequestBuilt DEF RequestInv, Exists
    <3>4. CASE /\ Exists /\ UNCHANGED <<job, underway, seen, mishaps>>
               /\ To(c, IF use.backend = "jobs" THEN "confirm"
                        ELSE IF Bound(job) /\ Same(job.request, d) THEN "accept" ELSE "idle")
      BY <3>2, <3>4
    <3> QED
      BY <1>5, <2>2, <3>1, <3>3, <3>4 DEF SubmitSends
  <2> QED
    BY <2>1, <2>2
<1>6. CASE SubmitConfirms(c)
  <2>0. /\ use' = use /\ c \in use.clients /\ client[c].at = "confirm" /\ files' = files
    BY <1>6 DEF SubmitConfirms, At
  <2>1. PICK s \in {"accept", "idle"} : To(c, s)
    BY <1>6 DEF SubmitConfirms
  <2>2. /\ client'[c].at = s /\ client'[c].ref = client[c].ref /\ (s # "idle" => client'[c].asks = d)
        /\ \A k \in Clients \ {c} : client'[k] = client[k]
    BY <1>T, <2>0, <2>1 DEF ClientSteps
  <2>3. ClientInv(c)'
    BY <1>0, <2>0, <2>2
       DEF ClientInv, Sending, Requests, RayRefuses, TrainRefuses, JobsRefuses, Inexpressible, Grouped
  <2> QED
    BY <1>0, <1>6, <2>0, <2>2, <2>3, RequestOfCall DEF SubmitConfirms
<1>7. CASE SubmitAccepts(c)
  <2>0. /\ use' = use /\ c \in use.clients /\ client[c].at = "accept" /\ d = files.plan /\ d \in Requests
        /\ client' = [client EXCEPT ![c].at = "idle", ![c].asks = 0, ![c].ref = d]
        /\ files' = [files EXCEPT !.accepted = IF @ = 0 THEN d ELSE @]
    BY <1>0, <1>7 DEF SubmitAccepts, At, ClientInv, Sending
  <2>1. client'[c].at = "idle" /\ client'[c].ref = d /\ \A k \in Clients \ {c} : client'[k] = client[k]
    BY <1>0, <2>0 DEF ClientRecords
  <2>2. /\ files'.plan = files.plan /\ files'.rejected = files.rejected /\ files'.claim = files.claim
        /\ files'.accepted = d
    BY <1>0, <2>0 DEF FileRecords, RequestInv
  <2>3. \A k \in Clients : ClientInv(k)'
    BY <2>0, <2>1, <2>2, IdleInv, ClientKept DEF RequestInv
  <2>4. ASSUME NEW k \in Clients PROVE client'[k].ref \in {0, d}
    <3>1. CASE Requests = {1}
      <4>1. client[k].ref \in Named
        BY <1>0 DEF ClientRecords
      <4> QED
        BY <2>0, <2>1, <3>1, <4>1 DEF Named
    <3>2. CASE \E h \in Clients : use.clients = {h}
      BY <2>0, <2>1, <3>2 DEF RequestInv, ClientInv
    <3> QED
      BY <3>1, <3>2, SetupFacts DEF RayShapes
  <2> QED
    BY <1>0, <1>7, <2>0, <2>2, <2>3, <2>4, RequestBuilt DEF RequestInv, SubmitAccepts, Exists
<1>8. CASE Asks(c)
  <2>0. /\ use' = use /\ c \in use.clients /\ files' = files
        /\ client' = [client EXCEPT ![c].at = "answer", ![c].read = job]
    BY <1>8 DEF Asks, At
  <2>1. client'[c].at = "answer" /\ client'[c].ref = client[c].ref /\ \A k \in Clients \ {c} : client'[k] = client[k]
    BY <1>0, <2>0 DEF ClientRecords
  <2>2. ClientInv(c)'
    BY <2>0, <2>1 DEF ClientInv, Sending
  <2> QED
    BY <1>0, <1>8, <2>0, <2>1, <2>2, RequestOfCall DEF Asks
<1>9. CASE Answers(c)
  <2>0. use' = use /\ c \in use.clients /\ files' = files /\ To(c, "idle")
    BY <1>9 DEF Answers, At
  <2>1. client'[c].at = "idle" /\ client'[c].ref = client[c].ref /\ \A k \in Clients \ {c} : client'[k] = client[k]
    BY <1>T, <2>0 DEF ClientSteps
  <2>2. ClientInv(c)'
    BY <2>0, <2>1, IdleInv
  <2>3. Started => Evidence
    BY DEF Started, Evidence, WorkloadInv, RankInv
  <2>4. seen'.ran = seen.ran /\ ~seen'.missed /\ ~seen'.astray
    BY <1>0, <1>9, <2>3 DEF Answers, SeenRecords
  <2> QED
    BY <1>0, <1>9, <2>0, <2>1, <2>2, <2>4, RequestOfCall DEF Answers
<1>10. CASE CancelWrites(c)
  <2>0. use' = use /\ c \in use.clients /\ files' = [files EXCEPT !.cancel = TRUE]
    BY <1>10 DEF CancelWrites, At, Put
  <2>1. PICK s \in {"halt", "idle"} : To(c, s)
    BY <1>10 DEF CancelWrites
  <2>2. client'[c].at = s /\ client'[c].ref = client[c].ref /\ \A k \in Clients \ {c} : client'[k] = client[k]
    BY <1>T, <2>0, <2>1 DEF ClientSteps
  <2>3. ClientInv(c)'
    BY <2>0, <2>2 DEF ClientInv, Sending
  <2> QED
    BY <1>0, <1>10, <2>0, <2>2, <2>3, RequestOfCall DEF CancelWrites, FileRecords
<1>11. CASE CancelAsks(c)
  <2>0. use' = use /\ c \in use.clients /\ files' = files
    BY <1>11 DEF CancelAsks, At
  <2>1. PICK s \in {"idle", "stop"}, j \in {job, NoJob} :
          client' = [client EXCEPT ![c].at = s, ![c].read = j] /\ (s = "stop" => j = job /\ Bound(job) /\ job.request # 0)
    BY <1>11 DEF CancelAsks, Infos, Exists
  <2>2. /\ client'[c].at = s /\ client'[c].ref = client[c].ref /\ client'[c].read = j
        /\ \A k \in Clients \ {c} : client'[k] = client[k]
    BY <1>0, <2>1 DEF ClientRecords
  <2>3. ClientInv(c)'
    BY <2>0, <2>1, <2>2 DEF ClientInv, Sending, Bound, Identity
  <2> QED
    BY <1>0, <1>11, <2>0, <2>2, <2>3, RequestOfCall DEF CancelAsks
<1>12. CASE StopsJob(c)
  <2>0. use' = use /\ c \in use.clients /\ files' = files /\ To(c, "idle") /\ job'.request = job.request
    BY <1>0, <1>12 DEF StopsJob, At, JobRecords
  <2>1. client'[c].at = "idle" /\ client'[c].ref = client[c].ref /\ \A k \in Clients \ {c} : client'[k] = client[k]
    BY <1>T, <2>0 DEF ClientSteps
  <2>2. ClientInv(c)'
    BY <2>0, <2>1, IdleInv
  <2> QED
    BY <1>0, <1>12, <2>0, <2>1, <2>2, RequestOfCall DEF StopsJob
<1>13. CASE Suspends(c)
  <2>0. /\ use' = use /\ c \in use.clients /\ files' = files /\ job'.request = job.request
        /\ client[c].at = "stop" /\ Bound(client[c].read)
    BY <1>0, <1>13 DEF Suspends, At, JobRecords, Suspended, ClientInv
  <2>1. seen'.ran = seen.ran /\ ~seen'.missed /\ ~seen'.astray
    BY <1>0, <1>13, <2>0 DEF Suspends, SeenRecords
  <2>2. CASE To(c, "idle")
    <3>1. client'[c].at = "idle" /\ client'[c].ref = client[c].ref /\ \A k \in Clients \ {c} : client'[k] = client[k]
      BY <1>T, <2>0, <2>2 DEF ClientSteps
    <3>2. ClientInv(c)'
      BY <2>0, <3>1, IdleInv
    <3> QED
      BY <1>0, <1>13, <2>0, <2>1, <3>1, <3>2, RequestOfCall DEF Suspends
  <2>3. CASE client' = [client EXCEPT ![c].read = job] /\ Bound(job) /\ job.request # 0
    <3>1. /\ client'[c].at = "stop" /\ client'[c].ref = client[c].ref /\ client'[c].read = job
          /\ \A k \in Clients \ {c} : client'[k] = client[k]
      BY <1>0, <2>0, <2>3 DEF ClientRecords
    <3>2. ClientInv(c)'
      BY <2>0, <2>3, <3>1 DEF ClientInv, Sending, Bound, Identity
    <3> QED
      BY <1>0, <1>13, <2>0, <2>1, <3>1, <3>2, RequestOfCall DEF Suspends
  <2> QED
    BY <1>13, <2>2, <2>3 DEF Suspends, Exists
<1>14. CASE ClientDies(c)
  <2>0. use' = use /\ files' = files /\ To(c, "idle") /\ c \in use.clients
    BY <1>0, <1>14 DEF ClientDies, ClientInv
  <2>1. client'[c].at = "idle" /\ client'[c].ref = client[c].ref /\ \A k \in Clients \ {c} : client'[k] = client[k]
    BY <1>T, <2>0 DEF ClientSteps
  <2>2. ClientInv(c)'
    BY <2>0, <2>1, IdleInv
  <2> QED
    BY <1>0, <1>14, <2>0, <2>1, <2>2, RequestOfCall DEF ClientDies
<1> QED
  BY <1>1, <1>2, <1>3, <1>4, <1>5, <1>6, <1>7, <1>8, <1>9, <1>10, <1>11, <1>12, <1>13, <1>14 DEF Client

\* The plan of an entrypoint, a rank or a worker is one the runtime takes.
LEMMA PlanFine ==
  ASSUME RayShapes, RequestInv, WorkloadInv,
         \/ files.claim \/ \E e \in Entries : entry[e] # "unborn"
         \/ \E r \in Ranks : rank[r].at # "none" \/ proc[r] # "none"
  PROVE  Fine(files.plan) /\ files.plan \in Requests /\ The \in Requests
BY DEF RequestInv, WorkloadInv, RankInv, Fine, The

\* Ray starts only what was planned, late or again.
LEMMA ClusterRequest ==
  ASSUME RayShapes, RequestInv,
         \/ \E d \in Requests : ArrivesLate(d)
         \/ \E e \in Entries : StartsEntry(e) \/ JobEnds(e) \/ RayTerminates(e) \/ KillsEntry(e)
         \/ JobFails \/ RayStopsPending \/ OperatorStops \/ KubeSuspends \/ KubeDeletesCluster
         \/ ServerDefaults \/ SomebodyEdits \/ RayForgets
  PROVE  RequestInv'
<1> USE RequestKept DEF clusterVars
<1>0. files \in FileRecords /\ job \in JobRecords /\ seen \in SeenRecords /\ entry \in [Entries -> EntrySteps]
  BY DEF RayShapes
<1>1. ASSUME NEW d \in Requests, ArrivesLate(d) PROVE RequestInv'
  <2>1. d = files.plan /\ Fine(d)
    BY <1>1 DEF ArrivesLate, RequestInv
  <2>2. job'.request \in {0, job.request} \/ job'.request = d
    BY <1>1, NewJobShape DEF ArrivesLate, Made
  <2>3. seen'.ran = seen.ran /\ seen'.missed = seen.missed /\ seen'.astray = seen.astray
    BY <1>0, <1>1 DEF ArrivesLate, Made, SeenRecords
  <2> QED
    BY <1>1, <2>1, <2>2, <2>3 DEF ArrivesLate, RequestInv
<1>2. ASSUME NEW e \in Entries, StartsEntry(e) PROVE RequestInv'
  <2>1. job'.request = job.request
    BY <1>0, <1>2 DEF StartsEntry, JobRecords
  <2>2. Fine(files.plan)
    BY <1>2 DEF StartsEntry, RequestInv
  <2> QED
    BY <1>2, <2>1, <2>2 DEF StartsEntry, RequestInv
<1>3. ASSUME NEW e \in Entries, JobEnds(e) \/ KillsEntry(e) PROVE RequestInv'
  <2>1. job'.request = job.request
    BY <1>0, <1>3 DEF JobEnds, KillsEntry, JobRecords
  <2>2. \A f \in Entries : entry'[f] # "unborn" => entry[f] # "unborn"
    BY <1>0, <1>3 DEF JobEnds, KillsEntry, LiveEntry
  <2> QED
    BY <1>3, <2>1, <2>2 DEF JobEnds, KillsEntry, RequestInv
<1>4. ASSUME NEW e \in Entries, RayTerminates(e) PROVE RequestInv'
  <2>1. /\ files'.plan = files.plan /\ files'.rejected = files.rejected /\ files'.accepted = files.accepted
        /\ files'.claim = files.claim
    BY <1>0, <1>4 DEF RayTerminates, Put, FileRecords
  <2> QED
    BY <1>4, <2>1 DEF RayTerminates, RequestInv
<1>5. CASE JobFails \/ RayStopsPending \/ OperatorStops \/ KubeSuspends \/ ServerDefaults \/ SomebodyEdits
  <2>1. job'.request = job.request
    BY <1>0, <1>5 DEF JobFails, RayStopsPending, OperatorStops, KubeSuspends, ServerDefaults, SomebodyEdits,
                      JobRecords
  <2> QED
    BY <1>5, <2>1 DEF JobFails, RayStopsPending, OperatorStops, KubeSuspends, ServerDefaults,
                      SomebodyEdits, RequestInv
<1>6. CASE KubeDeletesCluster
  <2>1. job'.request = job.request /\ \A f \in Entries : entry'[f] # "unborn" => entry[f] # "unborn"
    BY <1>0, <1>6 DEF KubeDeletesCluster, JobRecords, LiveEntry
  <2> QED
    BY <1>6, <2>1 DEF KubeDeletesCluster, RequestInv
<1>7. CASE RayForgets
  <2>1. job'.request = 0 /\ \A f \in Entries : entry'[f] # "unborn" => entry[f] # "unborn"
    BY <1>0, <1>7 DEF RayForgets, NoJob, LiveEntry
  <2>2. seen'.ran = seen.ran /\ seen'.missed = seen.missed /\ seen'.astray = seen.astray
    BY <1>0, <1>7 DEF RayForgets, SeenRecords
  <2> QED
    BY <1>7, <2>1, <2>2 DEF RayForgets, RequestInv
<1> QED
  BY <1>1, <1>2, <1>3, <1>4, <1>5, <1>6, <1>7

\* An entrypoint, a rank or a worker takes the plan as it is.
LEMMA WorkRequest ==
  ASSUME RayShapes, RequestInv, Fine(files.plan),
         \/ \E e \in Entries : Entrypoint(e)
         \/ \E r \in Ranks : Announces(r) \/ RankStep(r) \/ RankDies(r) \/ WorkerEnds(r)
  PROVE  RequestInv'
<1> USE DEF clusterVars
<1>0. files \in FileRecords /\ seen \in SeenRecords
  BY DEF RayShapes
<1>S. ASSUME NEW r, Spawn(r)
      PROVE  seen'.ran = seen.ran \cup {The} /\ seen'.missed = seen.missed /\ seen'.astray = seen.astray
  BY <1>0, <1>S DEF Spawn, SeenRecords
<1>1. ASSUME NEW e \in Entries, Entrypoint(e)
      PROVE  /\ use' = use /\ client' = client /\ underway' = underway /\ job' = job
             /\ files'.plan = files.plan /\ files'.rejected = files.rejected /\ files'.accepted = files.accepted
             /\ seen'.ran \subseteq seen.ran \cup {The} /\ seen'.missed = seen.missed /\ seen'.astray = seen.astray
  <2>1. CASE ClaimsWorkload(e) \/ BeginsWorkload(e) \/ RecordsStart(e) \/ Supervises(e)
    BY <1>0, <2>1 DEF ClaimsWorkload, BeginsWorkload, RecordsStart, Supervises, Put, Finish, FileRecords
  <2>2. CASE SpawnsWorker(e)
    BY <1>0, <1>S, <2>2 DEF SpawnsWorker, Put, Finish, FileRecords
  <2>3. CASE ReadyGroup(e) \/ SeesCancellation(e) \/ LeavesGroup(e) \/ AbortsGroup(e)
    BY <1>0, <2>3 DEF ReadyGroup, SeesCancellation, LeavesGroup, AbortsGroup, Put, Finish, FileRecords
  <2>4. CASE EndsGroup(e)
    BY <1>0, <2>4 DEF EndsGroup, FileRecords
  <2> QED
    BY <1>1, <2>1, <2>2, <2>3, <2>4 DEF Entrypoint
<1>2. ASSUME NEW r \in Ranks, Announces(r) \/ RankStep(r) \/ RankDies(r) \/ WorkerEnds(r)
      PROVE  /\ use' = use /\ client' = client /\ underway' = underway /\ job' = job
             /\ files'.plan = files.plan /\ files'.rejected = files.rejected /\ files'.accepted = files.accepted
             /\ seen'.ran \subseteq seen.ran \cup {The} /\ seen'.missed = seen.missed /\ seen'.astray = seen.astray
  <2>1. CASE Announces(r) \/ Checks(r) \/ StopsRank(r) \/ RankDies(r) \/ WorkerEnds(r)
    BY <2>1 DEF Announces, Checks, StopsRank, RankDies, WorkerEnds
  <2>2. CASE SpawnsRank(r)
    BY <1>0, <1>S, <2>2 DEF SpawnsRank, Put, FileRecords
  <2>3. CASE ReapsRank(r)
    BY <1>0, <2>3 DEF ReapsRank, FileRecords
  <2> QED
    BY <1>2, <2>1, <2>2, <2>3 DEF RankStep
<1> QED
  BY <1>1, <1>2, RequestKept DEF RequestInv, The

-----------------------------------------------------------------------------
(* The workload. *)

\* With the same plan the group and its ranks are the same.
LEMMA PlanKept ==
  ASSUME use' = use, files'.plan = files.plan
  PROVE  (Group' <=> Group) /\ RanksOf(The)' = RanksOf(The)
BY DEF Group, Grouped, RanksOf, The

\* An entrypoint that owns nothing is free of obligations.
LEMMA NotOwner ==
  ASSUME NEW e \in Entries, entry'[e] \notin Owners
  PROVE  EntryInv(e)'
BY DEF EntryInv, Owners, Supervising, Driving

\* Steps of clients and of Ray: nothing of the workload moves but entrypoints
\* that are killed or born.
LEMMA WorkKept ==
  ASSUME RayShapes, WorkloadInv, use' = use, rank' = rank, proc' = proc, reached' = reached,
         seen'.spawns = seen.spawns, files'.claim = files.claim, files'.finished = files.finished,
         files'.abort = files.abort, files.cancel => files'.cancel,
         \A e \in Entries : entry'[e] = entry[e] \/ entry'[e] \notin Owners,
         files'.plan = files.plan \/ ~files.claim
  PROVE  WorkloadInv'
<1>1. CASE files'.plan = files.plan
  <2>0. (Group' <=> Group) /\ RanksOf(The)' = RanksOf(The)
    BY <1>1, PlanKept
  <2>1. ASSUME NEW e \in Entries PROVE EntryInv(e)'
    <3>1. CASE entry'[e] = entry[e]
      BY <2>0, <3>1 DEF WorkloadInv, EntryInv, Untouched
    <3> QED
      BY <3>1, NotOwner
  <2>2. ASSUME NEW r \in Ranks PROVE RankInv(r)'
    BY <2>0 DEF WorkloadInv, RankInv
  <2>3. FinishedInv'
    BY <2>0 DEF WorkloadInv, FinishedInv, Quiet
  <2> QED
    BY <2>1, <2>2, <2>3 DEF WorkloadInv
<1>2. CASE ~files.claim
  <2>1. \A e \in Entries : entry'[e] \notin Owners
    BY <1>2 DEF WorkloadInv, EntryInv
  <2>2. ASSUME NEW r \in Ranks PROVE RankInv(r)'
    BY <1>2 DEF WorkloadInv, RankInv
  <2>3. FinishedInv'
    BY <1>2 DEF WorkloadInv, FinishedInv
  <2> QED
    BY <1>2, <2>1, <2>2, <2>3, NotOwner DEF WorkloadInv
<1> QED
  BY <1>1, <1>2

\* A client writes plan.json before anything runs and cancel.request at any
\* time; neither disturbs the workload.
LEMMA ClientWork ==
  ASSUME RayShapes, RequestInv, WorkloadInv, NEW c \in Clients, Client(c) \/ ClientDies(c)
  PROVE  WorkloadInv'
<1> USE WorkKept DEF clusterVars
<1>0. files \in FileRecords /\ seen \in SeenRecords
  BY DEF RayShapes
<1>1. ASSUME NEW d \in Requests, SubmitBegins(c, d) PROVE WorkloadInv'
  BY <1>0, <1>1 DEF SubmitBegins, Put, FileRecords
<1>2. CASE SubmitAsks(c) \/ SubmitRechecks(c) \/ SubmitConfirms(c) \/ Asks(c)
  BY <1>2 DEF SubmitAsks, SubmitRechecks, SubmitConfirms, Asks
<1>3. CASE SubmitPlans(c)
  <2>1. files.claim => files.plan = client[c].asks
    BY <1>3, SetupFacts DEF SubmitPlans, At, RequestInv, ClientInv, Fine, RayShapes
  <2> QED
    BY <1>0, <1>3, <2>1 DEF SubmitPlans, Put, FileRecords
<1>4. CASE SubmitSends(c)
  <2>1. seen'.spawns = seen.spawns
    BY <1>0, <1>4 DEF SubmitSends, Made, SeenRecords
  <2> QED
    BY <1>0, <1>4, <2>1 DEF SubmitSends, Put, FileRecords
<1>5. CASE SubmitAccepts(c) \/ CancelWrites(c)
  BY <1>0, <1>5 DEF SubmitAccepts, CancelWrites, Put, FileRecords
<1>6. CASE Answers(c)
  BY <1>0, <1>6 DEF Answers, SeenRecords
<1>7. CASE CancelAsks(c) \/ StopsJob(c) \/ ClientDies(c)
  BY <1>7 DEF CancelAsks, StopsJob, ClientDies
<1>8. CASE Suspends(c)
  <2>1. seen'.spawns = seen.spawns
    BY <1>0, <1>8 DEF Suspends, SeenRecords
  <2> QED
    BY <1>8, <2>1 DEF Suspends
<1> QED
  BY <1>1, <1>2, <1>3, <1>4, <1>5, <1>6, <1>7, <1>8 DEF Client

\* Ray starts and kills entrypoints; KubeRay deletes the cluster with the ranks
\* and workers in it.
LEMMA ClusterWork ==
  ASSUME RayShapes, RequestInv, WorkloadInv,
         \/ \E d \in Requests : ArrivesLate(d)
         \/ \E e \in Entries : StartsEntry(e) \/ JobEnds(e) \/ RayTerminates(e) \/ KillsEntry(e)
         \/ JobFails \/ RayStopsPending \/ OperatorStops \/ KubeSuspends \/ KubeDeletesCluster
         \/ ServerDefaults \/ SomebodyEdits \/ RayForgets
  PROVE  WorkloadInv'
<1> USE DEF clusterVars
<1>0. /\ files \in FileRecords /\ seen \in SeenRecords /\ entry \in [Entries -> EntrySteps]
      /\ rank \in [Ranks -> RankRecords] /\ proc \in [Ranks -> Procs]
  BY DEF RayShapes
<1>1. ASSUME NEW d \in Requests, ArrivesLate(d) PROVE WorkloadInv'
  <2>1. seen'.spawns = seen.spawns
    BY <1>0, <1>1 DEF ArrivesLate, Made, SeenRecords
  <2> QED
    BY <1>1, <2>1, WorkKept DEF ArrivesLate
<1>2. ASSUME NEW e \in Entries, StartsEntry(e) \/ JobEnds(e) \/ KillsEntry(e) PROVE WorkloadInv'
  BY <1>0, <1>2, WorkKept DEF StartsEntry, JobEnds, KillsEntry, Owners, Supervising, Driving
<1>3. ASSUME NEW e \in Entries, RayTerminates(e) PROVE WorkloadInv'
  BY <1>0, <1>3, WorkKept DEF RayTerminates, Put, FileRecords
<1>4. CASE JobFails \/ RayStopsPending \/ OperatorStops \/ KubeSuspends \/ ServerDefaults \/ SomebodyEdits
  BY <1>4, WorkKept DEF JobFails, RayStopsPending, OperatorStops, KubeSuspends, ServerDefaults, SomebodyEdits
<1>5. CASE RayForgets
  <2>1. seen'.spawns = seen.spawns
    BY <1>0, <1>5 DEF RayForgets, SeenRecords
  <2>2. \A e \in Entries : entry'[e] = entry[e] \/ entry'[e] \notin Owners
    BY <1>0, <1>5 DEF RayForgets, Owners, Supervising, Driving
  <2> QED
    BY <1>5, <2>1, <2>2, WorkKept DEF RayForgets
<1>6. CASE KubeDeletesCluster
  <2>0. /\ use' = use /\ files' = files /\ seen' = seen /\ reached' = reached
        /\ (Group' <=> Group) /\ RanksOf(The)' = RanksOf(The)
    BY <1>6, PlanKept DEF KubeDeletesCluster
  <2>1. \A e \in Entries : entry'[e] \notin Owners
    BY <1>6 DEF KubeDeletesCluster, Owners, Supervising, Driving, LiveEntry
  <2>2. ASSUME NEW r \in Ranks
        PROVE  /\ rank'[r].at = IF rank[r].at \in {"none", "done"} THEN rank[r].at ELSE "dead"
               /\ rank'[r].record = rank[r].record /\ rank'[r].stopped = rank[r].stopped
               /\ proc'[r] = IF proc[r] = "running" THEN "nonzero" ELSE proc[r]
    BY <1>0, <1>6 DEF KubeDeletesCluster, RankRecords
  <2>3. ASSUME NEW r \in Ranks PROVE RankInv(r)'
    BY <2>0, <2>2 DEF WorkloadInv, RankInv
  <2>4. FinishedInv'
    <3>1. \A r \in Ranks : (Quiet(r)' <=> Quiet(r)) /\ (proc'[r] # "running")
      BY <2>2 DEF Quiet
    <3>2. \A r \in Ranks : proc[r] \in {"none", "zero"} => proc'[r] = proc[r]
      BY <2>2
    <3>3. ASSUME files.finished = "succeeded", NEW r \in RanksOf(The)
          PROVE  Quiet(r)' /\ proc'[r] = "zero" /\ ~reached'[r]
      <4>1. Quiet(r) /\ proc[r] = "zero" /\ ~reached[r]
        BY <3>3 DEF WorkloadInv, FinishedInv
      <4>2. r \in Ranks
        BY <3>3, PlanFine, SetupFacts DEF WorkloadInv, FinishedInv, RayShapes
      <4> QED
        BY <2>0, <3>1, <3>2, <4>1, <4>2
    <3> QED
      BY <2>0, <2>2, <3>1, <3>2, <3>3 DEF WorkloadInv, FinishedInv
  <2> QED
    BY <2>0, <2>1, <2>3, <2>4, NotOwner DEF WorkloadInv
<1> QED
  BY <1>1, <1>2, <1>3, <1>4, <1>5, <1>6

\* What an entrypoint's step leaves of the others, and its own obligations.
LEMMA OwnerStep ==
  ASSUME RayShapes, WorkloadInv, NEW e \in Entries, entry[e] \in Owners, NEW s, entry' = [entry EXCEPT ![e] = s],
         EntryInv(e)', \A r \in Ranks : RankInv(r)', FinishedInv', files'.abort => files'.claim
  PROVE  WorkloadInv'
<1>1. \A f \in Entries \ {e} : entry'[f] = entry[f] /\ entry'[f] \notin Owners
  BY DEF RayShapes, WorkloadInv
<1> QED
  BY <1>1, NotOwner DEF WorkloadInv

\* Nothing of the ranks moves.
LEMMA RanksKept ==
  ASSUME WorkloadInv, use' = use, files'.plan = files.plan, rank' = rank, proc' = proc, reached' = reached,
         seen'.spawns = seen.spawns, files'.claim = files.claim, files.cancel => files'.cancel,
         files.abort => files'.abort
  PROVE  \A r \in Ranks : RankInv(r)'
<1>0. (Group' <=> Group) /\ RanksOf(The)' = RanksOf(The)
  BY PlanKept
<1> QED
  BY <1>0 DEF WorkloadInv, RankInv

\* The supervisor or the driver: one owner, and an ending that is true of every
\* rank.
LEMMA EntryWork ==
  ASSUME RayShapes, RequestInv, WorkloadInv, NEW e \in Entries, Entrypoint(e), The \in Requests
  PROVE  WorkloadInv'
<1> USE DEF clusterVars
<1>0. /\ files \in FileRecords /\ seen \in SeenRecords /\ entry \in [Entries -> EntrySteps]
      /\ rank \in [Ranks -> RankRecords] /\ proc \in [Ranks -> Procs] /\ reached \in [Ranks -> BOOLEAN]
      /\ EntryInv(e) /\ \A r \in Ranks : RankInv(r)
      /\ 1 \in Ranks /\ RanksOf(The) \subseteq Ranks
      /\ (entry[e] \in Owners => files.claim /\ files.finished = "none")
  BY SetupFacts DEF RayShapes, WorkloadInv, EntryInv
<1>F. ASSUME NEW how, NEW code, Finish(e, how, code)
      PROVE  /\ entry' = [entry EXCEPT ![e] = code] /\ entry'[e] = code
             /\ files'.finished = how /\ files'.plan = files.plan /\ files'.claim = files.claim
             /\ files'.cancel = files.cancel /\ files'.abort = files.abort
  BY <1>0, <1>F DEF Finish, Put, FileRecords
<1>1. CASE ClaimsWorkload(e)
  <2>1. /\ files' = [files EXCEPT !.claim = TRUE] /\ use' = use
        /\ rank' = rank /\ proc' = proc /\ reached' = reached /\ seen' = seen
        /\ entry' = [entry EXCEPT ![e] = IF files.claim THEN "exit0" ELSE "owner"]
    BY <1>1 DEF ClaimsWorkload, Put
  <2>2. /\ files'.claim /\ files'.plan = files.plan /\ files'.finished = files.finished
        /\ files'.abort = files.abort /\ files'.cancel = files.cancel
    BY <1>0, <2>1 DEF FileRecords
  <2>3. CASE files.claim
    <3>1. \A f \in Entries : entry'[f] = entry[f] \/ entry'[f] \notin Owners
      BY <1>0, <2>1, <2>3 DEF Owners, Supervising, Driving
    <3> QED
      BY <2>1, <2>2, <2>3, <3>1, WorkKept
  <2>4. CASE ~files.claim
    <3>1. /\ \A f \in Entries : entry[f] \notin Owners
          /\ Untouched /\ files.finished = "none" /\ ~files.abort
      BY <2>4 DEF WorkloadInv, EntryInv, RankInv, FinishedInv, Untouched
    <3>2. entry'[e] = "owner" /\ \A f \in Entries \ {e} : entry'[f] \notin Owners
      BY <1>0, <2>1, <2>4, <3>1
    <3>3. Untouched'
      BY <2>1, <3>1 DEF Untouched
    <3>4. EntryInv(e)'
      BY <2>2, <3>1, <3>2, <3>3 DEF EntryInv, Supervising, Driving
    <3>5. ASSUME NEW r \in Ranks PROVE RankInv(r)'
      BY <1>0, <2>1, <2>2, <2>4, <3>1 DEF RankInv, Untouched
    <3>6. FinishedInv'
      BY <2>2, <3>1 DEF FinishedInv
    <3> QED
      BY <2>2, <3>1, <3>2, <3>4, <3>5, <3>6, NotOwner DEF WorkloadInv
  <2> QED
    BY <2>3, <2>4
<1>2. CASE BeginsWorkload(e)
  <2>0. /\ entry[e] = "owner" /\ entry[e] \in Owners /\ Untouched /\ ~files.abort /\ use' = use /\ proc' = proc
        /\ reached' = reached /\ seen' = seen
    BY <1>0, <1>2 DEF BeginsWorkload, EntryInv, Owners
  <2>1. CASE files.cancel
    <3>1. Finish(e, "never", "exit0") /\ rank' = rank
      BY <1>2, <2>1 DEF BeginsWorkload
    <3>2. EntryInv(e)'
      BY <1>F, <3>1, NotOwner DEF Owners, Supervising, Driving
    <3>3. \A r \in Ranks : RankInv(r)'
      BY <1>F, <2>0, <3>1, RanksKept
    <3>4. FinishedInv'
      <4>1. files'.finished = "never" /\ files'.cancel /\ files'.claim
        BY <1>0, <1>F, <2>0, <2>1, <3>1
      <4>2. \A r \in Ranks : proc'[r] = "none" /\ rank'[r].at = "none" /\ rank'[r].record = "none"
        BY <1>0, <2>0, <3>1 DEF Untouched, RankInv
      <4> QED
        BY <4>1, <4>2 DEF FinishedInv
    <3> QED
      BY <1>F, <2>0, <3>1, <3>2, <3>3, <3>4, OwnerStep
  <2>2. CASE ~files.cancel /\ Grouped(use.plans[The])
    <3>1. /\ entry' = [entry EXCEPT ![e] = "grouped"] /\ files' = files
          /\ rank' = [r \in Ranks |-> IF r \in RanksOf(The) THEN [rank[r] EXCEPT !.at = "asked"] ELSE rank[r]]
      BY <1>2, <2>2 DEF BeginsWorkload
    <3>2. (Group' <=> Group) /\ RanksOf(The)' = RanksOf(The) /\ Group
      BY <2>0, <2>2, <3>1, PlanKept DEF Group, The
    <3>3. EntryInv(e)'
      BY <1>0, <2>0, <3>1, <3>2 DEF EntryInv, Owners, Supervising, Driving
    <3>4. ASSUME NEW r \in Ranks PROVE RankInv(r)'
      <4>1. /\ rank'[r].at = IF r \in RanksOf(The) THEN "asked" ELSE "none"
            /\ rank'[r].record = rank[r].record /\ rank'[r].stopped = rank[r].stopped
        BY <1>0, <2>0, <3>1 DEF RankRecords, Untouched
      <4>2. /\ proc'[r] = "none" /\ ~reached'[r] /\ rank[r].record = "none" /\ rank[r].at = "none"
            /\ seen'.spawns[r] = seen.spawns[r] /\ RankInv(r)
        BY <1>0, <2>0 DEF Untouched, RankInv
      <4> QED
        BY <1>0, <2>0, <3>1, <3>2, <4>1, <4>2 DEF RankInv
    <3>5. FinishedInv'
      BY <1>0, <2>0, <3>1 DEF FinishedInv
    <3> QED
      BY <1>0, <2>0, <3>1, <3>3, <3>4, <3>5, OwnerStep
  <2>3. CASE ~files.cancel /\ ~Grouped(use.plans[The])
    <3>1. entry' = [entry EXCEPT ![e] = "clear"] /\ files' = files /\ rank' = rank
      BY <1>2, <2>3 DEF BeginsWorkload
    <3>2. (Group' <=> Group) /\ RanksOf(The)' = RanksOf(The) /\ ~Group
      BY <2>0, <2>3, <3>1, PlanKept DEF Group, The
    <3>3. EntryInv(e)'
      BY <1>0, <2>0, <3>1, <3>2 DEF EntryInv, Owners, Supervising, Driving, Untouched
    <3>4. \A r \in Ranks : RankInv(r)'
      BY <2>0, <3>1, RanksKept
    <3>5. FinishedInv'
      BY <1>0, <2>0, <3>1 DEF FinishedInv
    <3> QED
      BY <1>0, <2>0, <3>1, <3>3, <3>4, <3>5, OwnerStep
  <2> QED
    BY <2>1, <2>2, <2>3
<1>3. CASE SpawnsWorker(e)
  <2>0. /\ entry[e] = "clear" /\ entry[e] \in Owners /\ Untouched /\ ~Group /\ use' = use /\ rank' = rank
        /\ reached' = reached
    BY <1>0, <1>3 DEF SpawnsWorker, EntryInv, Owners, Supervising
  <2>1. CASE Spawn(1) /\ entry' = [entry EXCEPT ![e] = "spawned"] /\ UNCHANGED files
    <3>1. /\ proc'[1] = "running" /\ \A r \in Ranks \ {1} : proc'[r] = proc[r] /\ seen'.spawns[r] = seen.spawns[r]
          /\ seen'.spawns[1] = seen.spawns[1] + 1
      BY <1>0, <2>1 DEF Spawn, SeenRecords
    <3>2. (Group' <=> Group) /\ RanksOf(The)' = RanksOf(The)
      BY <2>0, <2>1, PlanKept
    <3>3. EntryInv(e)'
      BY <1>0, <2>0, <2>1, <3>1, <3>2 DEF EntryInv, Owners, Supervising, Driving, Untouched
    <3>4. ASSUME NEW r \in Ranks PROVE RankInv(r)'
      <4>1. RankInv(r) /\ proc[r] = "none" /\ ~reached[r] /\ rank[r].at = "none"
        BY <1>0, <2>0 DEF Untouched
      <4>2. CASE r = 1
        <5>1. seen.spawns[1] = 0
          BY <4>1, <4>2 DEF RankInv
        <5> QED
          BY <1>0, <2>0, <2>1, <3>1, <3>2, <4>1, <4>2, <5>1 DEF RankInv
      <4>3. CASE r # 1
        BY <1>0, <2>0, <2>1, <3>1, <3>2, <4>1, <4>3 DEF RankInv
      <4> QED
        BY <4>2, <4>3
    <3>5. FinishedInv'
      BY <1>0, <2>0, <2>1 DEF FinishedInv
    <3> QED
      BY <1>0, <2>0, <2>1, <3>3, <3>4, <3>5, OwnerStep DEF WorkloadInv
  <2>2. CASE Finish(e, "failed", "exit1") /\ UNCHANGED <<proc, seen>>
    <3>2. EntryInv(e)'
      BY <1>F, <2>2, NotOwner DEF Owners, Supervising, Driving
    <3>3. \A r \in Ranks : RankInv(r)'
      BY <1>F, <2>0, <2>2, RanksKept
    <3>4. FinishedInv'
      BY <1>0, <1>F, <2>0, <2>2 DEF FinishedInv, Untouched, Quiet
    <3> QED
      BY <1>F, <2>0, <2>2, <3>2, <3>3, <3>4, OwnerStep DEF WorkloadInv
  <2> QED
    BY <1>3, <2>1, <2>2 DEF SpawnsWorker
<1>4. CASE RecordsStart(e)
  <2>0. /\ entry[e] = "spawned" /\ entry[e] \in Owners /\ use' = use /\ rank' = rank /\ proc' = proc
        /\ reached' = reached /\ seen' = seen /\ entry' = [entry EXCEPT ![e] = "watching"]
    BY <1>4 DEF RecordsStart, Owners, Supervising
  <2>1. /\ files'.claim = files.claim /\ files'.plan = files.plan /\ files'.finished = files.finished
        /\ files'.abort = files.abort /\ files'.cancel = files.cancel
    BY <1>0, <1>4 DEF RecordsStart, Put, FileRecords
  <2>2. (Group' <=> Group) /\ RanksOf(The)' = RanksOf(The)
    BY <2>0, <2>1, PlanKept
  <2>3. EntryInv(e)'
    BY <1>0, <2>0, <2>1, <2>2 DEF EntryInv, Owners, Supervising, Driving
  <2>4. \A r \in Ranks : RankInv(r)'
    BY <2>0, <2>1, RanksKept
  <2>5. FinishedInv'
    BY <1>0, <2>0, <2>1 DEF FinishedInv
  <2> QED
    BY <1>0, <2>0, <2>1, <2>3, <2>4, <2>5, OwnerStep DEF WorkloadInv
<1>5. CASE Supervises(e)
  <2>0. /\ entry[e] \in {"watching", "told"} /\ entry[e] \in Owners /\ ~Group /\ use' = use /\ rank' = rank
        /\ proc' = proc /\ seen' = seen
    BY <1>0, <1>5 DEF Supervises, EntryInv, Owners, Supervising
  <2>1. \A r \in Ranks : rank[r].at = "none" /\ rank[r].record = "none" /\ (r # 1 => proc[r] = "none")
    BY <1>0, <2>0 DEF RankInv
  <2>2. RanksOf(The) = {1}
    BY <2>0 DEF RanksOf, The, Group
  <2>3. ASSUME proc[1] \in {"zero", "nonzero"}, reached' = reached,
               Finish(e, IF entry[e] = "told" THEN "cancelled"
                         ELSE IF proc[1] = "zero" THEN "succeeded" ELSE "failed",
                      IF proc[1] = "zero" THEN "exit0" ELSE "exit1")
        PROVE  WorkloadInv'
    <3>1. PICK how, code : /\ Finish(e, how, code)
                           /\ how = (IF entry[e] = "told" THEN "cancelled" ELSE IF proc[1] = "zero" THEN "succeeded" ELSE "failed")
                           /\ code \in {"exit0", "exit1"}
      BY <2>3
    <3>2. EntryInv(e)'
      BY <1>F, <3>1, NotOwner DEF Owners, Supervising, Driving
    <3>3. \A r \in Ranks : RankInv(r)'
      BY <1>F, <2>0, <2>3, <3>1, RanksKept
    <3>4. RanksOf(The)' = {1}
      BY <1>F, <2>0, <2>2, <3>1, PlanKept
    <3>5. FinishedInv'
      <4>1. \A r \in Ranks : Quiet(r)' /\ proc'[r] # "running" /\ rank'[r].record = "none"
        BY <2>0, <2>1, <2>3 DEF Quiet
      <4>2. CASE how = "cancelled"
        <5>1. files.cancel
          BY <1>0, <2>0, <3>1, <4>2 DEF EntryInv
        <5> QED
          BY <1>0, <1>F, <2>0, <3>1, <4>1, <4>2, <5>1 DEF FinishedInv
      <4>3. CASE how = "succeeded"
        <5>1. ~reached'[1] /\ proc'[1] = "zero"
          BY <1>0, <2>0, <2>3, <3>1, <4>3 DEF EntryInv
        <5> QED
          BY <1>0, <1>F, <2>0, <3>1, <3>4, <4>1, <4>3, <5>1 DEF FinishedInv
      <4>4. CASE how = "failed"
        BY <1>0, <1>F, <2>0, <3>1, <4>1, <4>4 DEF FinishedInv
      <4> QED
        BY <3>1, <4>2, <4>3, <4>4
    <3> QED
      BY <1>F, <2>0, <3>1, <3>2, <3>3, <3>5, OwnerStep DEF WorkloadInv
  <2>4. ASSUME entry[e] = "watching", files.cancel, proc[1] = "running", entry' = [entry EXCEPT ![e] = "told"],
               reached' = [reached EXCEPT ![1] = TRUE], files' = files
        PROVE  WorkloadInv'
    <3>1. (Group' <=> Group) /\ RanksOf(The)' = RanksOf(The)
      BY <2>0, <2>4, PlanKept
    <3>2. EntryInv(e)'
      BY <1>0, <2>0, <2>4, <3>1 DEF EntryInv, Owners, Supervising, Driving
    <3>3. ASSUME NEW r \in Ranks PROVE RankInv(r)'
      <4>1. RankInv(r) /\ rank[r].at = "none" /\ (reached'[r] => r = 1 \/ reached[r])
        BY <1>0, <2>1, <2>4
      <4> QED
        BY <2>0, <2>4, <3>1, <4>1 DEF RankInv
    <3>4. FinishedInv'
      BY <1>0, <2>0, <2>4 DEF FinishedInv
    <3> QED
      BY <1>0, <2>0, <2>4, <3>2, <3>3, <3>4, OwnerStep
  <2> QED
    BY <1>5, <2>3, <2>4 DEF Supervises
<1>6. CASE ReadyGroup(e)
  BY <1>0, <1>6, WorkKept DEF ReadyGroup, Put, FileRecords
<1>7. CASE SeesCancellation(e)
  <2>0. /\ entry[e] = "grouped" /\ entry[e] \in Owners /\ use' = use /\ rank' = rank /\ proc' = proc /\ files.cancel
        /\ reached' = reached /\ seen' = seen /\ entry' = [entry EXCEPT ![e] = "leaving"] /\ files' = files
    BY <1>7 DEF SeesCancellation, Owners, Driving
  <2>2. (Group' <=> Group) /\ RanksOf(The)' = RanksOf(The)
    BY <2>0, PlanKept
  <2>3. EntryInv(e)'
    BY <1>0, <2>0, <2>2 DEF EntryInv, Owners, Supervising, Driving
  <2>4. \A r \in Ranks : RankInv(r)'
    BY <2>0, RanksKept
  <2>5. FinishedInv'
    BY <1>0, <2>0 DEF FinishedInv
  <2> QED
    BY <1>0, <2>0, <2>3, <2>4, <2>5, OwnerStep
<1>8. CASE LeavesGroup(e)
  <2>0. /\ entry[e] = "leaving" /\ entry[e] \in Owners /\ use' = use /\ rank' = rank /\ proc' = proc /\ files.cancel
        /\ reached' = reached /\ seen' = seen /\ Group
    BY <1>0, <1>8 DEF LeavesGroup, Owners, Driving, EntryInv
  <2>1. CASE \A r \in RanksOf(The) : rank[r].at = "asked"
    <3>1. Finish(e, "never", "exit0")
      BY <1>8, <2>1 DEF LeavesGroup
    <3>2. EntryInv(e)'
      BY <1>F, <3>1, NotOwner DEF Owners, Supervising, Driving
    <3>3. \A r \in Ranks : RankInv(r)'
      BY <1>F, <2>0, <3>1, RanksKept
    <3>4. ASSUME NEW r \in Ranks
          PROVE  proc[r] = "none" /\ rank[r].at \notin {"clear", "waiting"} /\ rank[r].record # "failed"
      BY <1>0, <2>0, <2>1 DEF RankInv
    <3>5. FinishedInv'
      <4>1. files'.finished = "never" /\ files'.cancel /\ files'.claim
        BY <1>0, <1>F, <2>0, <3>1
      <4> QED
        BY <2>0, <3>4, <4>1 DEF FinishedInv
    <3> QED
      BY <1>F, <2>0, <3>1, <3>2, <3>3, <3>5, OwnerStep DEF WorkloadInv
  <2>2. CASE entry' = [entry EXCEPT ![e] = "polled"] /\ files' = files
    <3>2. (Group' <=> Group) /\ RanksOf(The)' = RanksOf(The)
      BY <2>0, <2>2, PlanKept
    <3>3. EntryInv(e)'
      BY <1>0, <2>0, <2>2, <3>2 DEF EntryInv, Owners, Supervising, Driving
    <3>4. \A r \in Ranks : RankInv(r)'
      BY <2>0, <2>2, RanksKept
    <3>5. FinishedInv'
      BY <1>0, <2>0, <2>2 DEF FinishedInv
    <3> QED
      BY <1>0, <2>0, <2>2, <3>3, <3>4, <3>5, OwnerStep
  <2> QED
    BY <1>8, <2>1, <2>2 DEF LeavesGroup
<1>9. CASE AbortsGroup(e)
  <2>0. /\ entry[e] \in Driving /\ entry[e] \in Owners /\ use' = use /\ rank' = rank /\ proc' = proc
        /\ reached' = reached /\ seen' = seen /\ entry' = [entry EXCEPT ![e] = "awaiting"]
    BY <1>9 DEF AbortsGroup, Owners, Driving
  <2>1. /\ files'.claim = files.claim /\ files'.plan = files.plan /\ files'.finished = files.finished
        /\ files'.abort /\ files'.cancel = files.cancel
    BY <1>0, <1>9 DEF AbortsGroup, Put, FileRecords
  <2>2. (Group' <=> Group) /\ RanksOf(The)' = RanksOf(The)
    BY <2>0, <2>1, PlanKept
  <2>3. EntryInv(e)'
    BY <1>0, <2>0, <2>1, <2>2 DEF EntryInv, Owners, Supervising, Driving
  <2>4. \A r \in Ranks : RankInv(r)'
    BY <2>0, <2>1, RanksKept
  <2>5. FinishedInv'
    BY <1>0, <2>0, <2>1 DEF FinishedInv
  <2> QED
    BY <1>0, <2>0, <2>1, <2>3, <2>4, <2>5, OwnerStep DEF WorkloadInv
<1>10. CASE EndsGroup(e)
  <2> DEFINE how == GroupOutcome(entry[e] = "awaiting")
             records == {rank[r].record : r \in RanksOf(The)}
  <2>0. /\ entry[e] \in Driving /\ entry[e] \in Owners /\ use' = use /\ rank' = rank /\ proc' = proc
        /\ reached' = reached /\ seen' = seen /\ Group
        /\ entry' = [entry EXCEPT ![e] = IF how = "failed" THEN "exit1" ELSE "exit0"]
    <3>1. entry[e] \in Driving /\ entry[e] \in Owners
      BY <1>10 DEF EndsGroup, Owners, Driving
    <3> QED
      BY <1>0, <1>10, <3>1 DEF EndsGroup, EntryInv
  <2>1. /\ files'.claim = files.claim /\ files'.plan = files.plan /\ files'.finished = how
        /\ files'.abort = files.abort /\ files'.cancel = files.cancel
    BY <1>0, <1>10 DEF EndsGroup, FileRecords
  <2>2. RanksOf(The)' = RanksOf(The)
    BY <2>0, <2>1, PlanKept
  <2>3. EntryInv(e)'
    <3>1. entry'[e] \in {"exit0", "exit1"}
      BY <1>0, <2>0
    <3> QED
      BY <3>1, NotOwner DEF Owners, Supervising, Driving
  <2>4. \A r \in Ranks : RankInv(r)'
    BY <2>0, <2>1, RanksKept
  <2>5. FinishedInv'
    <3>1. CASE entry[e] = "awaiting"
      <4>1. how = "failed" /\ files.abort
        BY <1>0, <3>1 DEF GroupOutcome, EntryInv
      <4> QED
        BY <1>0, <2>0, <2>1, <4>1 DEF FinishedInv
    <3>2. CASE entry[e] # "awaiting"
      <4>1. /\ entry[e] \in {"grouped", "leaving", "polled"}
            /\ \A r \in RanksOf(The) : rank[r].at = "done"
        BY <1>10, <3>2 DEF EndsGroup
      <4>2. \A r \in Ranks : r \notin RanksOf(The) => rank[r].at = "none"
        BY <1>0 DEF RankInv
      <4>3. \A r \in Ranks : Quiet(r)' /\ Quiet(r) /\ proc'[r] # "running"
        <5>1. ASSUME NEW r \in Ranks PROVE Quiet(r) /\ proc[r] # "running"
          BY <1>0, <2>0, <4>1, <4>2 DEF Quiet, RankInv
        <5> QED
          BY <2>0, <5>1 DEF Quiet
      <4>4. CASE "failed" \in records
        <5>1. how = "failed"
          BY <4>4 DEF GroupOutcome
        <5> QED
          BY <1>0, <2>0, <2>1, <4>3, <5>1 DEF FinishedInv
      <4>5. CASE "failed" \notin records /\ \E x \in records : x \in {"cancelled", "never"}
        <5>1. how = "cancelled"
          BY <3>2, <4>5 DEF GroupOutcome
        <5>2. files.cancel
          BY <1>0, <4>5 DEF RankInv
        <5>3. \A r \in Ranks : rank[r].record # "failed"
          BY <1>0, <4>2, <4>5 DEF RankInv
        <5> QED
          BY <1>0, <2>0, <2>1, <4>3, <5>1, <5>2, <5>3 DEF FinishedInv
      <4>6. CASE "failed" \notin records /\ ~\E x \in records : x \in {"cancelled", "never"}
        <5>1. how = "succeeded"
          BY <3>2, <4>6 DEF GroupOutcome
        <5>2. ~files.abort
          BY <1>0, <4>1, <4>6 DEF EntryInv
        <5>3. ASSUME NEW r \in RanksOf(The) PROVE proc[r] = "zero" /\ ~reached[r]
          <6>1. r \in Ranks /\ RankInv(r) /\ rank[r].at = "done" /\ rank[r] \in RankRecords
            BY <1>0, <4>1
          <6>2. rank[r].record \in records
            OBVIOUS
          <6>3. rank[r].record = "ended"
            BY <4>6, <5>2, <6>1, <6>2 DEF RankInv, RankRecords
          <6> QED
            BY <5>2, <6>1, <6>3 DEF RankInv
        <5> QED
          BY <1>0, <2>0, <2>1, <2>2, <4>3, <5>1, <5>3 DEF FinishedInv
      <4> QED
        BY <4>4, <4>5, <4>6
    <3> QED
      BY <3>1, <3>2
  <2> QED
    BY <1>0, <2>0, <2>1, <2>3, <2>4, <2>5, OwnerStep DEF WorkloadInv
<1> QED
  BY <1>1, <1>2, <1>3, <1>4, <1>5, <1>6, <1>7, <1>8, <1>9, <1>10 DEF Entrypoint

-----------------------------------------------------------------------------
\* While a rank is at work there is no ending, or the group failed or was never
\* started.
LEMMA AtWork ==
  ASSUME RayShapes, RequestInv, WorkloadInv, NEW r \in Ranks, ~Quiet(r)
  PROVE  /\ Group /\ r \in RanksOf(The) /\ files.claim /\ Fine(files.plan) /\ RanksOf(The) \subseteq Ranks
         /\ files.finished \in {"none", "never", "failed"}
         /\ files.finished = "failed" => files.abort
         /\ files.finished = "never" => rank[r].at \notin {"clear", "waiting"}
         /\ \A e \in Entries : entry[e] \notin {"owner"} \cup Supervising
<1>1. Group /\ r \in RanksOf(The) /\ files.claim
  BY DEF WorkloadInv, RankInv, Quiet
<1>2. Fine(files.plan) /\ RanksOf(The) \subseteq Ranks
  BY <1>1, PlanFine, SetupFacts DEF RayShapes
<1>3. files \in FileRecords
  BY DEF RayShapes
<1>4. /\ files.finished \in {"none", "never", "failed"}
      /\ files.finished = "failed" => files.abort
      /\ files.finished = "never" => rank[r].at \notin {"clear", "waiting"}
  BY <1>1, <1>3 DEF WorkloadInv, FinishedInv, FileRecords, RayEndings
<1>5. \A e \in Entries : entry[e] \notin {"owner"} \cup Supervising
  BY <1>1 DEF WorkloadInv, EntryInv, Untouched, Quiet
<1> QED
  BY <1>1, <1>2, <1>4, <1>5

\* A rank's step: what it must keep of the group, for a rank at work.
LEMMA RankWork ==
  ASSUME RayShapes, RequestInv, WorkloadInv, NEW r \in Ranks, ~Quiet(r),
         use' = use, entry' = entry,
         files'.plan = files.plan, files'.claim = files.claim, files'.finished = files.finished,
         files'.cancel = files.cancel, files.abort => files'.abort,
         \A q \in Ranks \ {r} : /\ rank'[q] = rank[q] /\ proc'[q] = proc[q] /\ reached'[q] = reached[q]
                                /\ seen'.spawns[q] = seen.spawns[q],
         RankInv(r)',
         files'.abort /\ ~files.abort => rank'[r].record = "failed",
         rank[r].record # "failed",
         files.finished = "never" =>
           proc'[r] = "none" /\ rank'[r].at \notin {"clear", "waiting"} /\ rank'[r].record # "failed",
         proc'[r] = "running" => files.finished \in {"none", "failed"}
  PROVE  WorkloadInv'
<1>0. (Group' <=> Group) /\ RanksOf(The)' = RanksOf(The)
  BY PlanKept
<1>1. ASSUME NEW e \in Entries PROVE EntryInv(e)'
  <2>1. EntryInv(e) /\ entry[e] \notin {"owner"} \cup Supervising
    BY AtWork DEF WorkloadInv
  <2>2. entry[e] \in {"grouped", "leaving", "polled"} /\ files'.abort =>
          \E q \in RanksOf(The) : rank'[q].record = "failed"
    <3>1. SUFFICES ASSUME entry[e] \in {"grouped", "leaving", "polled"}, files'.abort
                   PROVE  \E q \in RanksOf(The) : rank'[q].record = "failed"
      OBVIOUS
    <3>2. r \in RanksOf(The) /\ RanksOf(The) \subseteq Ranks
      BY AtWork
    <3>3. CASE files.abort
      <4>1. PICK q \in RanksOf(The) : rank[q].record = "failed"
        BY <2>1, <3>1, <3>3 DEF EntryInv
      <4> QED
        BY <3>2, <4>1
    <3> QED
      BY <3>1, <3>2, <3>3
  <2> QED
    BY <1>0, <2>1, <2>2 DEF EntryInv, Owners, Supervising
<1>2. ASSUME NEW q \in Ranks PROVE RankInv(q)'
  <2>1. CASE q # r
    BY <1>0, <2>1 DEF WorkloadInv, RankInv
  <2> QED
    BY <2>1
<1>3. FinishedInv'
  <2>0. /\ files.finished \in {"none", "never", "failed"} /\ files.claim
        /\ files.finished = "failed" => files.abort
    BY AtWork
  <2>1. CASE files.finished = "none"
    BY <2>1 DEF FinishedInv
  <2>2. CASE files.finished = "never"
    <3>1. ASSUME NEW q \in Ranks
          PROVE  proc'[q] = "none" /\ rank'[q].at \notin {"clear", "waiting"} /\ rank'[q].record # "failed"
      BY <2>2 DEF WorkloadInv, FinishedInv
    <3>2. files'.cancel
      BY <2>2 DEF WorkloadInv, FinishedInv
    <3> QED
      BY <2>0, <2>2, <3>1, <3>2 DEF FinishedInv
  <2>3. CASE files.finished = "failed"
    BY <2>0, <2>3 DEF FinishedInv
  <2> QED
    BY <2>0, <2>1, <2>2, <2>3
<1> QED
  BY <1>1, <1>2, <1>3, AtWork DEF WorkloadInv

\* run_rank: what a rank does with its worker, its record and its group.
LEMMA RanksWork ==
  ASSUME RayShapes, RequestInv, WorkloadInv, NEW r \in Ranks,
         Announces(r) \/ RankStep(r) \/ RankDies(r) \/ WorkerEnds(r)
  PROVE  WorkloadInv'
<1> USE DEF clusterVars
<1>0. /\ files \in FileRecords /\ seen \in SeenRecords /\ seen.spawns \in [Ranks -> Nat]
      /\ rank \in [Ranks -> RankRecords] /\ rank[r] \in RankRecords
      /\ proc \in [Ranks -> Procs] /\ proc[r] \in Procs /\ reached \in [Ranks -> BOOLEAN] /\ RankInv(r)
  BY DEF RayShapes, WorkloadInv, SeenRecords
<1>A. ASSUME ~Quiet(r)
      PROVE  /\ Group /\ r \in RanksOf(The) /\ files.claim /\ rank[r].record = "none"
             /\ files.finished \in {"none", "never", "failed"}
             /\ files.finished = "failed" => files.abort
             /\ files.finished = "never" => files.cancel /\ proc[r] = "none" /\ rank[r].at \notin {"clear", "waiting"}
  BY <1>0, <1>A, AtWork DEF RankInv, Quiet, WorkloadInv, FinishedInv
<1>P. ASSUME use' = use, files'.plan = files.plan
      PROVE  (Group' <=> Group) /\ RanksOf(The)' = RanksOf(The)
  BY <1>P, PlanKept
<1>1. ASSUME NEW s \in {"announced", "clear", "dead"}, ~Quiet(r), RankAt(r, s), files' = files, use' = use,
             entry' = entry, proc' = proc, reached' = reached, seen' = seen,
             s \in {"announced", "clear"} => rank[r].at \in {"asked", "announced"},
             s = "clear" => ~files.cancel
      PROVE  WorkloadInv'
  <2>1. /\ rank'[r].at = s /\ rank'[r].record = rank[r].record /\ rank'[r].stopped = rank[r].stopped
        /\ \A q \in Ranks \ {r} : rank'[q] = rank[q]
    BY <1>0, <1>1 DEF RankAt, RankRecords
  <2>2. RankInv(r)'
    BY <1>0, <1>1, <1>A, <1>P, <2>1 DEF RankInv
  <2>3. proc[r] = "running" => files.finished \in {"none", "failed"}
    BY <1>1, <1>A
  <2>4. files.finished = "never" => proc[r] = "none" /\ s # "clear"
    BY <1>1, <1>A
  <2> QED
    BY <1>1, <1>A, <2>1, <2>2, <2>3, <2>4, RankWork
<1>2. CASE Announces(r)
  <2>1. ~Quiet(r)
    BY <1>2 DEF Announces, Quiet
  <2> QED
    BY <1>1, <1>2, <2>1 DEF Announces
<1>3. CASE Checks(r)
  <2>1. ~Quiet(r) /\ rank[r].at = "announced"
    BY <1>3 DEF Checks, Quiet
  <2>2. CASE files.cancel \/ files.abort
    <3>1. PICK x \in {"never", "idle"} : /\ rank' = [rank EXCEPT ![r].at = "done", ![r].record = x]
                                         /\ x = "never" => files.cancel
                                         /\ x = "idle" => files.abort
      BY <1>3, <2>2 DEF Checks
    <3>2. /\ rank'[r].at = "done" /\ rank'[r].record = x /\ rank'[r].stopped = rank[r].stopped
          /\ \A q \in Ranks \ {r} : rank'[q] = rank[q]
      BY <1>0, <3>1 DEF RankRecords
    <3>3. RankInv(r)'
      BY <1>0, <1>3, <1>A, <1>P, <2>1, <3>1, <3>2 DEF Checks, RankInv
    <3>4. proc[r] = "none"
      BY <1>0, <2>1 DEF RankInv
    <3> QED
      BY <1>3, <1>A, <2>1, <3>2, <3>3, <3>4, RankWork DEF Checks
  <2>3. CASE ~(files.cancel \/ files.abort)
    BY <1>1, <1>3, <2>1, <2>3 DEF Checks
  <2> QED
    BY <2>2, <2>3
<1>4. CASE SpawnsRank(r)
  <2>1. ~Quiet(r) /\ rank[r].at = "clear" /\ proc[r] = "none" /\ ~reached[r] /\ seen.spawns[r] = 0
    BY <1>0, <1>4 DEF SpawnsRank, Quiet, RankInv
  <2>2. CASE Spawn(r) /\ rank' = [rank EXCEPT ![r].at = "waiting", ![r].started = TRUE] /\ files' = files
    <3>1. /\ rank'[r].at = "waiting" /\ rank'[r].record = rank[r].record /\ rank'[r].stopped = rank[r].stopped
          /\ \A q \in Ranks \ {r} : rank'[q] = rank[q]
      BY <1>0, <2>2 DEF RankRecords
    <3>2. /\ proc'[r] = "running" /\ \A q \in Ranks \ {r} : proc'[q] = proc[q] /\ seen'.spawns[q] = seen.spawns[q]
          /\ seen'.spawns[r] = seen.spawns[r] + 1
      BY <1>0, <2>2 DEF Spawn, SeenRecords
    <3>3. seen'.spawns[r] = 1
      BY <2>1, <3>2
    <3>4. use' = use /\ entry' = entry /\ reached' = reached
      BY <1>4 DEF SpawnsRank
    <3>5. RankInv(r)'
      BY <1>0, <1>A, <1>P, <2>1, <2>2, <3>1, <3>2, <3>3, <3>4 DEF RankInv
    <3> QED
      BY <1>A, <2>1, <2>2, <3>1, <3>2, <3>4, <3>5, RankWork
  <2>3. CASE /\ rank' = [rank EXCEPT ![r].at = "done", ![r].record = "failed"]
             /\ Put("abort", TRUE) /\ UNCHANGED <<proc, seen>>
    <3>1. /\ rank'[r].at = "done" /\ rank'[r].record = "failed" /\ rank'[r].stopped = rank[r].stopped
          /\ \A q \in Ranks \ {r} : rank'[q] = rank[q]
      BY <1>0, <2>3 DEF RankRecords
    <3>2. /\ files'.claim = files.claim /\ files'.plan = files.plan /\ files'.finished = files.finished
          /\ files'.abort /\ files'.cancel = files.cancel
      BY <1>0, <2>3 DEF Put, FileRecords
    <3>4. use' = use /\ entry' = entry /\ reached' = reached
      BY <1>4 DEF SpawnsRank
    <3>5. RankInv(r)'
      BY <1>0, <1>A, <1>P, <2>1, <2>3, <3>1, <3>2, <3>4 DEF RankInv
    <3> QED
      BY <1>A, <2>1, <2>3, <3>1, <3>2, <3>4, <3>5, RankWork
  <2> QED
    BY <1>4, <2>2, <2>3 DEF SpawnsRank
<1>5. CASE StopsRank(r)
  <2>1. /\ ~Quiet(r) /\ rank[r].at = "waiting" /\ proc[r] # "none" /\ files' = files /\ use' = use
        /\ entry' = entry /\ proc' = proc /\ seen' = seen
    BY <1>5 DEF StopsRank, Quiet
  <2>2. PICK x \in {"cancel", "group"} : /\ rank' = [rank EXCEPT ![r].stopped = x]
                                         /\ x = "cancel" => files.cancel
                                         /\ x = "group" => files.abort
    BY <1>5 DEF StopsRank
  <2>3. /\ rank'[r].at = "waiting" /\ rank'[r].record = rank[r].record /\ rank'[r].stopped = x
        /\ \A q \in Ranks \ {r} : rank'[q] = rank[q] /\ reached'[q] = reached[q]
    BY <1>0, <1>5, <2>1, <2>2 DEF StopsRank, RankRecords
  <2>4. RankInv(r)'
    BY <1>0, <1>A, <1>P, <2>1, <2>2, <2>3 DEF RankInv
  <2> QED
    BY <1>A, <2>1, <2>3, <2>4, RankWork
<1>6. CASE ReapsRank(r)
  <2> DEFINE own == rank[r].stopped = "no" /\ proc[r] = "nonzero"
  <2>1. /\ ~Quiet(r) /\ rank[r].at = "waiting" /\ proc[r] \in {"zero", "nonzero"} /\ use' = use
        /\ entry' = entry /\ proc' = proc /\ seen' = seen /\ reached' = reached
    BY <1>6 DEF ReapsRank, Quiet, Exited
  <2>2. PICK x \in {"failed", "cancelled", "ended"} :
          /\ rank' = [rank EXCEPT ![r].at = "done", ![r].record = x]
          /\ x = (IF own THEN "failed" ELSE IF rank[r].stopped = "cancel" THEN "cancelled" ELSE "ended")
    BY <1>6 DEF ReapsRank
  <2>3. /\ rank'[r].at = "done" /\ rank'[r].record = x /\ rank'[r].stopped = rank[r].stopped
        /\ \A q \in Ranks \ {r} : rank'[q] = rank[q]
    BY <1>0, <2>2 DEF RankRecords
  <2>4. /\ files'.claim = files.claim /\ files'.plan = files.plan /\ files'.finished = files.finished
        /\ files'.abort = (files.abort \/ own) /\ files'.cancel = files.cancel
    BY <1>0, <1>6 DEF ReapsRank, FileRecords
  <2>5. x = "ended" => rank[r].stopped = "group" \/ (rank[r].stopped = "no" /\ proc[r] = "zero")
    BY <1>0, <2>1, <2>2 DEF RankRecords
  <2>6. RankInv(r)'
    BY <1>0, <1>A, <1>P, <2>1, <2>2, <2>3, <2>4, <2>5 DEF RankInv
  <2> QED
    BY <1>A, <2>1, <2>2, <2>3, <2>4, <2>6, RankWork
<1>7. CASE RankDies(r)
  <2>1. ~Quiet(r)
    BY <1>7 DEF RankDies, Quiet
  <2> QED
    BY <1>1, <1>7, <2>1 DEF RankDies
<1>8. CASE WorkerEnds(r)
  <2>1. PICK code \in {"zero", "nonzero"} : proc' = [proc EXCEPT ![r] = code]
    BY <1>8 DEF WorkerEnds
  <2>2. /\ proc[r] = "running" /\ proc'[r] = code /\ \A q \in Ranks \ {r} : proc'[q] = proc[q]
        /\ use' = use /\ files' = files /\ entry' = entry /\ rank' = rank /\ reached' = reached /\ seen' = seen
    BY <1>0, <1>8, <2>1 DEF WorkerEnds
  <2>3. (Group' <=> Group) /\ RanksOf(The)' = RanksOf(The)
    BY <1>P, <2>2
  <2>4. ASSUME NEW e \in Entries PROVE EntryInv(e)'
    <3>1. EntryInv(e) /\ (Untouched' => Untouched) /\ ~Untouched
      BY <2>2 DEF Untouched, WorkloadInv
    <3>2. proc[1] # "none" => proc'[1] # "none"
      BY <2>2, SetupFacts DEF RayShapes
    <3> QED
      BY <2>2, <2>3, <3>1, <3>2 DEF EntryInv
  <2>5. ASSUME NEW q \in Ranks PROVE RankInv(q)'
    <3>1. RankInv(q)
      BY DEF WorkloadInv
    <3>2. CASE q = r
      BY <2>2, <2>3, <3>1, <3>2 DEF RankInv
    <3>3. CASE q # r
      BY <2>2, <2>3, <3>1, <3>3 DEF RankInv
    <3> QED
      BY <3>2, <3>3
  <2>6. FinishedInv'
    <3>2. files.finished # "none" => files.finished = "failed" /\ files.abort /\ files.claim
      BY <2>2 DEF WorkloadInv, FinishedInv
    <3> QED
      BY <2>2, <3>2 DEF FinishedInv
  <2> QED
    BY <2>2, <2>4, <2>5, <2>6 DEF WorkloadInv
<1> QED
  BY <1>2, <1>3, <1>4, <1>5, <1>6, <1>7, <1>8 DEF RankStep

-----------------------------------------------------------------------------
(* Answers. *)

\* A running entrypoint, or a job that goes on: nothing has been told.
LEMMA NothingTold ==
  ASSUME AnswerInv, ~seen.resent, ~NoneLive \/ (Exists /\ JobStatus(job) \notin Over)
  PROVE  OverAs("none") /\ (files.finished = "none" => seen.endings = {})
<1>1. PICK t \in {"none"} \cup Over : OverAs(t)
  BY DEF AnswerInv
<1>2. t = "none"
  BY <1>1 DEF OverAs, Over
<1> QED
  BY <1>1, <1>2 DEF OverAs, Told

\* A step that does not change how the job is over, or that it is not, changes
\* no answer.
LEMMA OverKept ==
  ASSUME AnswerInv, ~seen.resent, seen'.lost = seen.lost, seen'.endings = seen.endings,
         Exists' <=> Exists, JobStatus(job)' = JobStatus(job), NoneLive => NoneLive',
         \A c \in Clients :
           client'[c].at = "answer" => client[c].at = "answer" /\ client'[c].read = client[c].read,
         files'.finished = files.finished, files.cancel => files'.cancel,
         files'.started => files.started \/ ~NoneLive
  PROVE  /\ (\E t \in {"none"} \cup Over : OverAs(t))'
         /\ files'.finished # "none" => seen'.endings \subseteq {Classified'}
<1>1. PICK t \in {"none"} \cup Over : OverAs(t)
  BY DEF AnswerInv
<1>2. \A c \in Clients : JobStatus(client[c].read)' = JobStatus(client'[c].read)
  BY DEF JobStatus
<1>3. Told(t) \subseteq Told(t)' \/ ~NoneLive
  BY DEF Told, Over
<1>4. CASE NoneLive
  <2>1. OverAs(t)'
    BY <1>1, <1>2, <1>3, <1>4 DEF OverAs
  <2> QED
    BY <2>1 DEF AnswerInv, Classified
<1>5. CASE ~NoneLive
  <2>1. t = "none"
    BY <1>1, <1>5 DEF OverAs
  <2>2. Told("none")' = {} /\ Told("none") = {}
    BY DEF Told
  <2>3. OverAs("none")'
    BY <1>1, <1>2, <2>1, <2>2 DEF OverAs, Over
  <2> QED
    BY <2>3 DEF AnswerInv, Classified
<1> QED
  BY <1>4, <1>5

\* A job that goes on turns out to be over, or goes on.
LEMMA OverTurns ==
  ASSUME AnswerInv, ~seen.resent, Exists, JobStatus(job) \notin Over, Exists',
         seen'.endings = seen.endings, JobStatus(job)' \in Over => NoneLive',
         \A c \in Clients :
           client'[c].at = "answer" => client[c].at = "answer" /\ client'[c].read = client[c].read,
         files'.finished = files.finished
  PROVE  /\ (\E t \in {"none"} \cup Over : OverAs(t))'
         /\ files'.finished # "none" => seen'.endings \subseteq {Classified'}
<1>1. OverAs("none") /\ (files.finished = "none" => seen.endings = {})
  BY NothingTold
<1>2. \A c \in Clients : JobStatus(client[c].read)' = JobStatus(client'[c].read)
  BY DEF JobStatus
<1>3. \A c \in Clients :
        ~(client'[c].at = "answer" /\ client'[c].read.request # 0 /\ JobStatus(client'[c].read) \in Over)
  BY <1>1 DEF OverAs, Over
<1>4. PICK t \in {"none"} \cup Over :
        IF JobStatus(job)' \in Over THEN t = JobStatus(job)' ELSE t = "none"
  OBVIOUS
<1>5. OverAs(t)'
  BY <1>1, <1>2, <1>3, <1>4 DEF OverAs, Over
<1> QED
  BY <1>5 DEF AnswerInv, Classified

\* Nothing becomes of a job that stays as it is.
LEMMA JobKept ==
  ASSUME JobInv, use' = use, job' = job, seen'.lost = seen.lost, seen'.resent = seen.resent,
         NoneLive => NoneLive', Unborn => Unborn'
  PROVE  JobInv'
BY DEF JobInv, Exists

\* A job that is made again after it was lost is the exception `resent' stands
\* for; one that is made the first time has not been told of.
LEMMA MadeAnswer ==
  ASSUME RayShapes, AnswerInv, NEW d \in Requests, ~Exists, Made(d), use' = use, entry' = entry,
         files'.finished = files.finished, files.cancel => files'.cancel, files'.started = files.started,
         \A c \in Clients :
           client'[c].at = "answer" => client[c].at = "answer" /\ client'[c].read = client[c].read
  PROVE  AnswerInv'
<1>1. /\ job' = NewJob(d) /\ Exists' /\ job'.status = "PENDING" /\ job'.deployed = "ok"
      /\ JobStatus(job)' = "PENDING"
  BY NewJobShape, SetupFacts DEF Made, Exists, JobStatus, RayShapes, Terminal
<1>2. /\ seen'.lost = seen.lost /\ seen'.endings = seen.endings
      /\ (seen'.resent <=> (seen.resent \/ seen.lost))
  BY DEF RayShapes, Made, SeenRecords
<1>3. (Unborn' <=> Unborn) /\ (NoneLive' <=> NoneLive)
  BY DEF Unborn, NoneLive, LiveEntry
<1>4. JobInv'
  BY <1>1, <1>2, <1>3 DEF AnswerInv, JobInv, Exists, Terminal
<1>5. ASSUME ~seen'.resent
      PROVE  /\ (\E t \in {"none"} \cup Over : OverAs(t))'
             /\ files'.finished # "none" => seen'.endings \subseteq {Classified'}
  <2>1. PICK t \in {"none"} \cup Over : OverAs(t)
    BY <1>2, <1>5 DEF AnswerInv
  <2>2. t = "none"
    BY <1>2, <1>5, <2>1 DEF OverAs
  <2>3. \A c \in Clients : JobStatus(client[c].read)' = JobStatus(client'[c].read)
    BY DEF JobStatus
  <2>4. OverAs("none")'
    BY <1>1, <1>2, <2>1, <2>2, <2>3 DEF OverAs, Over, Told
  <2> QED
    BY <1>2, <1>5, <2>4 DEF AnswerInv, Classified
<1> QED
  BY <1>4, <1>5 DEF AnswerInv

\* Steps that leave the job and what is known of it as they were.
LEMMA AnswerKept ==
  ASSUME AnswerInv, use' = use, job' = job, seen'.lost = seen.lost, seen'.resent = seen.resent,
         seen'.endings = seen.endings, NoneLive => NoneLive', Unborn => Unborn',
         \A c \in Clients :
           client'[c].at = "answer" => client[c].at = "answer" /\ client'[c].read = client[c].read,
         files'.finished = files.finished, files.cancel => files'.cancel,
         files'.started => files.started \/ ~NoneLive
  PROVE  AnswerInv'
<1>1. JobInv'
  BY JobKept DEF AnswerInv
<1>2. (Exists' <=> Exists) /\ JobStatus(job)' = JobStatus(job)
  BY DEF Exists, JobStatus
<1>3. ~seen.resent => /\ (\E t \in {"none"} \cup Over : OverAs(t))'
                      /\ files'.finished # "none" => seen'.endings \subseteq {Classified'}
  BY <1>2, OverKept
<1> QED
  BY <1>1, <1>3 DEF AnswerInv

\* What a client reads, and answers afterwards, is what the job is over as.
LEMMA ClientAnswer ==
  ASSUME RayShapes, RequestInv, AnswerInv, NEW c \in Clients, Client(c) \/ ClientDies(c)
  PROVE  AnswerInv'
<1> USE DEF clusterVars
<1>0. /\ client \in [Clients -> ClientRecords] /\ seen \in SeenRecords /\ files \in FileRecords /\ job \in JobRecords
  BY DEF RayShapes
<1>E. entry' = entry => (NoneLive' <=> NoneLive) /\ (Unborn' <=> Unborn)
  BY DEF NoneLive, LiveEntry, Unborn
<1>T. ASSUME NEW s \in ClientSteps \ {"answer"}, To(c, s), use' = use
      PROVE  \A k \in Clients : client'[k].at = "answer" => client[k].at = "answer" /\ client'[k].read = client[k].read
  <2>1. client'[c].at # "answer" /\ \A k \in Clients \ {c} : client'[k] = client[k]
    BY <1>T, ToShape DEF RayShapes
  <2> QED
    BY <2>1
<1>1. ASSUME NEW d \in Requests, SubmitBegins(c, d) PROVE AnswerInv'
  <2>1. \A k \in Clients : client'[k].at = "answer" => client[k].at = "answer" /\ client'[k].read = client[k].read
    BY <1>0, <1>1 DEF SubmitBegins, ClientRecords
  <2>2. files'.finished = files.finished /\ files'.cancel = files.cancel /\ files'.started = files.started
    BY <1>0, <1>1 DEF SubmitBegins, Put, FileRecords
  <2> QED
    BY <1>1, <1>E, <2>1, <2>2, AnswerKept DEF SubmitBegins
<1>2. CASE SubmitAsks(c) \/ SubmitConfirms(c)
  <2>1. PICK s \in ClientSteps \ {"answer"} : To(c, s)
    BY <1>2 DEF SubmitAsks, SubmitConfirms, ClientSteps
  <2> QED
    BY <1>2, <1>E, <1>T, <2>1, AnswerKept DEF SubmitAsks, SubmitConfirms
<1>3. CASE SubmitRechecks(c)
  <2>1. \A k \in Clients : client'[k].at = "answer" => client[k].at = "answer" /\ client'[k].read = client[k].read
    <3>1. CASE \E s \in ClientSteps \ {"answer"} : To(c, s)
      BY <1>3, <1>T, <3>1 DEF SubmitRechecks
    <3>2. CASE client' = [client EXCEPT ![c].at = "idle", ![c].asks = 0, ![c].ref = client[c].asks]
      BY <1>0, <3>2 DEF ClientRecords
    <3> QED
      BY <1>3, <3>1, <3>2 DEF SubmitRechecks, ClientSteps
  <2> QED
    BY <1>3, <1>E, <2>1, AnswerKept DEF SubmitRechecks
<1>4. CASE SubmitPlans(c) \/ CancelWrites(c)
  <2>1. PICK s \in ClientSteps \ {"answer"} : To(c, s)
    BY <1>4 DEF SubmitPlans, CancelWrites, ClientSteps
  <2>2. files'.finished = files.finished /\ (files.cancel => files'.cancel) /\ files'.started = files.started
    BY <1>0, <1>4 DEF SubmitPlans, CancelWrites, Put, FileRecords
  <2> QED
    BY <1>4, <1>E, <1>T, <2>1, <2>2, AnswerKept DEF SubmitPlans, CancelWrites
<1>5. CASE SubmitSends(c)
  <2>1. PICK s \in ClientSteps \ {"answer"} : To(c, s)
    BY <1>5 DEF SubmitSends, ClientSteps
  <2>2. files'.finished = files.finished /\ files'.cancel = files.cancel /\ files'.started = files.started
    BY <1>0, <1>5 DEF SubmitSends, Put, FileRecords
  <2>3. client[c].asks \in Requests
    BY <1>5 DEF SubmitSends, At, RequestInv, ClientInv, Sending
  <2>4. CASE UNCHANGED <<job, seen>>
    BY <1>5, <1>E, <1>T, <2>1, <2>2, <2>4, AnswerKept DEF SubmitSends
  <2>5. CASE ~Exists /\ Made(client[c].asks)
    <3>1. PICK d \in Requests : d = client[c].asks
      BY <2>3
    <3>2. Made(d)
      BY <2>5, <3>1
    <3> QED
      BY <1>5, <1>T, <2>1, <2>2, <2>5, <3>2, MadeAnswer DEF SubmitSends
  <2> QED
    BY <1>5, <2>4, <2>5 DEF SubmitSends
<1>6. CASE SubmitAccepts(c)
  <2>1. \A k \in Clients : client'[k].at = "answer" => client[k].at = "answer" /\ client'[k].read = client[k].read
    BY <1>0, <1>6 DEF SubmitAccepts, ClientRecords
  <2>2. files'.finished = files.finished /\ files'.cancel = files.cancel /\ files'.started = files.started
    BY <1>0, <1>6 DEF SubmitAccepts, FileRecords
  <2> QED
    BY <1>6, <1>E, <2>1, <2>2, AnswerKept DEF SubmitAccepts
<1>7. CASE Asks(c)
  <2>0. /\ client'[c].read = job /\ \A k \in Clients \ {c} : client'[k] = client[k]
        /\ use' = use /\ job' = job /\ seen' = seen /\ files' = files /\ entry' = entry
    BY <1>0, <1>7 DEF Asks, ClientRecords
  <2>1. JobInv'
    BY <1>E, <2>0, JobKept DEF AnswerInv
  <2>2. ASSUME NEW t \in {"none"} \cup Over, OverAs(t) PROVE OverAs(t)'
    <3>1. \A k \in Clients : JobStatus(client[k].read)' = JobStatus(client'[k].read)
      BY DEF JobStatus
    <3>2. JobStatus(job)' = JobStatus(job) /\ (Exists' <=> Exists) /\ Told(t)' = Told(t)
      BY <2>0 DEF JobStatus, Exists, Told
    <3>3. job.request # 0 <=> Exists
      BY DEF Exists
    <3>4. ASSUME NEW k \in Clients, client'[k].at = "answer", client'[k].read.request # 0,
                 JobStatus(client'[k].read) \in Over
          PROVE  JobStatus(client'[k].read) = t
      <4>1. CASE k = c
        BY <2>0, <2>2, <3>3, <3>4, <4>1 DEF OverAs
      <4>2. CASE k # c
        BY <2>0, <2>2, <3>4, <4>2 DEF OverAs
      <4> QED
        BY <4>1, <4>2
    <3> QED
      BY <1>E, <2>0, <2>2, <3>1, <3>2, <3>4 DEF OverAs
  <2> QED
    BY <2>0, <2>1, <2>2 DEF AnswerInv, Classified
<1>8. CASE Answers(c)
  <2>0. /\ use' = use /\ job' = job /\ files' = files /\ entry' = entry /\ To(c, "idle")
        /\ seen'.lost = seen.lost /\ seen'.resent = seen.resent
        /\ seen'.endings = seen.endings \cup Answered(WorkloadStatus(client[c].read))
        /\ client[c].at = "answer"
    BY <1>0, <1>8 DEF Answers, SeenRecords, At
  <2>1. JobInv'
    BY <1>E, <2>0, JobKept DEF AnswerInv
  <2>2. \A k \in Clients : client'[k].at = "answer" => client[k].at = "answer" /\ client'[k].read = client[k].read
    BY <1>T, <2>0 DEF ClientSteps
  <2>3. ASSUME NEW t \in {"none"} \cup Over, OverAs(t) PROVE OverAs(t)'
    <3>1. \A k \in Clients : JobStatus(client[k].read)' = JobStatus(client'[k].read)
      BY DEF JobStatus
    <3>2. JobStatus(job)' = JobStatus(job) /\ (Exists' <=> Exists) /\ Told(t)' = Told(t)
      BY <2>0 DEF JobStatus, Exists, Told
    <3>3. files.finished = "none" => Answered(WorkloadStatus(client[c].read)) \subseteq Told(t)
      <4> SUFFICES ASSUME files.finished = "none" PROVE Answered(WorkloadStatus(client[c].read)) \subseteq Told(t)
        OBVIOUS
      <4>1. CASE client[c].read.request = 0
        <5>1. WorkloadStatus(client[c].read) = "unknown"
          BY <4>1 DEF WorkloadStatus
        <5> QED
          BY <5>1 DEF Answered, RayEndings
      <4>2. CASE client[c].read.request # 0 /\ JobStatus(client[c].read) = "STOPPED"
        <5>1. WorkloadStatus(client[c].read) = "cancelled" /\ t = "STOPPED"
          BY <2>0, <2>3, <4>2 DEF WorkloadStatus, OverAs, Over
        <5> QED
          BY <5>1 DEF Answered, RayEndings, Told
      <4>3. CASE client[c].read.request # 0 /\ JobStatus(client[c].read) = "FAILED"
        <5>1. /\ WorkloadStatus(client[c].read) = IF files.cancel /\ ~files.started THEN "cancelled" ELSE "failed"
              /\ t = "FAILED"
          BY <2>0, <2>3, <4>3 DEF WorkloadStatus, OverAs, Over
        <5> QED
          BY <5>1 DEF Answered, RayEndings, Told
      <4>4. CASE client[c].read.request # 0 /\ JobStatus(client[c].read) \notin Over
        <5>1. WorkloadStatus(client[c].read) \in {"unknown", "live"}
          BY <4>4 DEF WorkloadStatus, Over
        <5> QED
          BY <5>1 DEF Answered, RayEndings
      <4> QED
        BY <4>1, <4>2, <4>3, <4>4 DEF Over
    <3> QED
      BY <1>E, <2>0, <2>2, <2>3, <3>1, <3>2, <3>3 DEF OverAs
  <2>4. files.finished # "none" => Answered(WorkloadStatus(client[c].read)) \subseteq {Classified}
    BY DEF WorkloadStatus, Answered
  <2> QED
    BY <2>0, <2>1, <2>3, <2>4 DEF AnswerInv, Classified
<1>9. CASE CancelAsks(c)
  <2>1. \A k \in Clients : client'[k].at = "answer" => client[k].at = "answer" /\ client'[k].read = client[k].read
    BY <1>0, <1>9 DEF CancelAsks, ClientRecords
  <2> QED
    BY <1>9, <1>E, <2>1, AnswerKept DEF CancelAsks
<1>10. CASE StopsJob(c)
  <2>0. use' = use /\ seen' = seen /\ files' = files /\ entry' = entry /\ To(c, "idle") /\ use.backend = "jobs"
    BY <1>10 DEF StopsJob
  <2>1. \A k \in Clients : client'[k].at = "answer" => client[k].at = "answer" /\ client'[k].read = client[k].read
    BY <1>T, <2>0 DEF ClientSteps
  <2>2. job.deployed = "ok"
    BY <2>0 DEF AnswerInv, JobInv
  <2>3. /\ job'.request = job.request /\ job'.status = job.status /\ job'.deployed = job.deployed
        /\ ~Exists => job' = job
    BY <1>0, <1>10 DEF StopsJob, JobRecords
  <2>4. (Exists' <=> Exists) /\ JobStatus(job)' = JobStatus(job)
    BY <2>2, <2>3 DEF Exists, JobStatus
  <2>5. JobInv'
    BY <1>E, <2>0, <2>3, <2>4 DEF AnswerInv, JobInv
  <2> QED
    BY <1>E, <2>0, <2>1, <2>4, <2>5, OverKept DEF AnswerInv
<1>11. CASE Suspends(c)
  <2>0. /\ use' = use /\ files' = files /\ entry' = entry
        /\ seen'.lost = seen.lost /\ seen'.resent = seen.resent /\ seen'.endings = seen.endings
    BY <1>0, <1>11 DEF Suspends, SeenRecords
  <2>1. \A k \in Clients : client'[k].at = "answer" => client[k].at = "answer" /\ client'[k].read = client[k].read
    <3>1. CASE To(c, "idle")
      BY <1>T, <2>0, <3>1 DEF ClientSteps
    <3>2. CASE client' = [client EXCEPT ![c].read = job] /\ client[c].at = "stop"
      BY <1>0, <3>2 DEF ClientRecords
    <3> QED
      BY <1>11, <3>1, <3>2 DEF Suspends, At
  <2>2. CASE job' = job
    BY <1>E, <2>0, <2>1, <2>2, AnswerKept
  <2>3. CASE job' # job
    <3>1. job' = Suspended(job) /\ JobStatus(job) \notin Terminal
      BY <1>11, <2>3 DEF Suspends
    <3>2. job'.request = job.request /\ job'.status = job.status /\ job'.deployed = job.deployed /\ job'.marker
      BY <1>0, <3>1 DEF Suspended, JobRecords
    <3>3. CASE Exists
      <4>1. JobStatus(job)' \in Over => job.deployed = "Suspended"
        BY <3>1, <3>2 DEF JobStatus, Over, Terminal
      <4>2. JobStatus(job)' \in Over => NoneLive'
        BY <1>E, <2>0, <4>1 DEF AnswerInv, JobInv
      <4>3. JobInv'
        BY <1>E, <2>0, <3>2, <3>3 DEF AnswerInv, JobInv, Exists
      <4>4. Exists' /\ JobStatus(job) \notin Over
        BY <3>1, <3>2, <3>3 DEF Exists, Over, Terminal
      <4> QED
        BY <1>E, <2>0, <2>1, <3>3, <4>2, <4>3, <4>4, OverTurns DEF AnswerInv
    <3>4. CASE ~Exists
      <4>1. client[c].at = "stop" /\ client[c].read = job
        BY <1>11, <2>3 DEF Suspends, At
      <4> QED
        BY <3>4, <4>1 DEF RequestInv, ClientInv, Exists
    <3> QED
      BY <3>3, <3>4
  <2> QED
    BY <2>2, <2>3
<1>12. CASE ClientDies(c)
  BY <1>12, <1>E, <1>T, AnswerKept DEF ClientDies, ClientSteps
<1> QED
  BY <1>1, <1>2, <1>3, <1>4, <1>5, <1>6, <1>7, <1>8, <1>9, <1>10, <1>11, <1>12 DEF Client

\* Ray changes its mind about no job that is over, until it forgets it.
LEMMA ClusterAnswer ==
  ASSUME RayShapes, RequestInv, AnswerInv,
         \/ \E d \in Requests : ArrivesLate(d)
         \/ \E e \in Entries : StartsEntry(e) \/ JobEnds(e) \/ RayTerminates(e) \/ KillsEntry(e)
         \/ JobFails \/ RayStopsPending \/ OperatorStops \/ KubeSuspends \/ KubeDeletesCluster
         \/ ServerDefaults \/ SomebodyEdits \/ RayForgets
  PROVE  AnswerInv'
<1> USE DEF clusterVars
<1>0. files \in FileRecords /\ job \in JobRecords /\ seen \in SeenRecords /\ entry \in [Entries -> EntrySteps]
  BY DEF RayShapes
<1>J. JobInv
  BY DEF AnswerInv
<1>E. entry' = entry => (NoneLive' <=> NoneLive) /\ (Unborn' <=> Unborn)
  BY DEF NoneLive, LiveEntry, Unborn
\* The job turns from one that goes on.
<1>T. ASSUME use' = use, files' = files, client' = client, seen' = seen, Exists, JobStatus(job) \notin Over, Exists',
             JobStatus(job)' \in Over => NoneLive' \/ seen.resent, JobInv'
      PROVE  AnswerInv'
  BY <1>T, OverTurns DEF AnswerInv
<1>1. ASSUME NEW d \in Requests, ArrivesLate(d) PROVE AnswerInv'
  <2>1. CASE Exists
    BY <1>1, <1>E, <2>1, AnswerKept DEF ArrivesLate
  <2>2. CASE ~Exists
    BY <1>1, <2>2, MadeAnswer DEF ArrivesLate
  <2> QED
    BY <2>1, <2>2
<1>2. ASSUME NEW e \in Entries, StartsEntry(e) PROVE AnswerInv'
  <2>1. /\ job'.request = job.request /\ job'.status = "RUNNING" /\ job'.deployed = "ok" /\ Exists /\ Exists'
        /\ use' = use /\ files' = files /\ client' = client /\ seen' = seen
        /\ JobStatus(job) \in {"PENDING", "RUNNING"}
    BY <1>0, <1>2 DEF StartsEntry, JobRecords, Exists
  <2>2. JobStatus(job)' = "RUNNING" /\ JobStatus(job) \notin Over
    BY <2>1 DEF JobStatus, Terminal, Over
  <2>3. JobInv'
    BY <1>J, <2>1 DEF JobInv, Terminal
  <2> QED
    BY <1>T, <2>1, <2>2, <2>3 DEF Over
<1>3. ASSUME NEW e \in Entries, JobEnds(e) PROVE AnswerInv'
  <2>1. /\ job'.request = job.request /\ job'.deployed = "ok" /\ Exists /\ Exists'
        /\ use' = use /\ files' = files /\ client' = client /\ seen' = seen /\ entry' = entry
        /\ job.status = "RUNNING" /\ job.deployed = "ok"
        /\ job'.status = CASE job.marker /\ use.backend = "jobs" -> "STOPPED"
                           [] entry[e] = "exit0" -> "SUCCEEDED" [] OTHER -> "FAILED"
    BY <1>0, <1>3 DEF JobEnds, JobRecords, Exists
  <2>2. JobStatus(job) = "RUNNING" /\ job'.status \in Terminal /\ JobStatus(job)' = job'.status
    BY <2>1 DEF JobStatus, Terminal
  <2>3. JobStatus(job)' \in Over => NoneLive
    <3>1. CASE job.marker
      BY <1>3, <3>1 DEF JobEnds, NoneLive
    <3>2. CASE ~job.marker /\ entry[e] = "exit0"
      BY <2>1, <2>2, <3>2 DEF Over
    <3>3. CASE ~job.marker /\ entry[e] # "exit0"
      BY <1>3, <3>3 DEF JobEnds, NoneLive
    <3> QED
      BY <3>1, <3>2, <3>3
  <2>4. JobInv'
    BY <1>J, <1>E, <2>1, <2>2 DEF JobInv, Terminal
  <2> QED
    BY <1>T, <1>E, <2>1, <2>2, <2>3, <2>4 DEF Over
<1>4. ASSUME NEW e \in Entries, RayTerminates(e) PROVE AnswerInv'
  <2>1. files'.finished = files.finished /\ files'.cancel /\ files'.started = files.started
    BY <1>0, <1>4 DEF RayTerminates, Put, FileRecords
  <2> QED
    BY <1>4, <1>E, <2>1, AnswerKept DEF RayTerminates
<1>5. ASSUME NEW e \in Entries, KillsEntry(e) PROVE AnswerInv'
  <2>1. (NoneLive => NoneLive') /\ (Unborn => Unborn')
    BY <1>0, <1>5 DEF KillsEntry, NoneLive, LiveEntry, Unborn
  <2> QED
    BY <1>5, <2>1, AnswerKept DEF KillsEntry
<1>6. CASE JobFails
  <2>1. /\ job'.request = job.request /\ Exists /\ Exists' /\ job.status = "PENDING" /\ job.deployed = "ok"
        /\ use' = use /\ files' = files /\ client' = client /\ seen' = seen /\ entry' = entry
        /\ IF use.backend = "jobs" THEN job'.status = "FAILED" /\ job'.deployed = "ok"
                                   ELSE job'.status = "PENDING" /\ job'.deployed = "Failed"
    BY <1>0, <1>6 DEF JobFails, JobRecords, Exists
  <2>2. JobStatus(job) = "PENDING"
    BY <2>1 DEF JobStatus, Terminal
  <2>3. Unborn => NoneLive
    BY DEF Unborn, NoneLive, LiveEntry
  <2>4. JobInv'
    BY <1>J, <1>E, <2>1 DEF JobInv, Terminal
  <2> QED
    BY <1>J, <1>T, <1>E, <2>1, <2>2, <2>3, <2>4 DEF JobInv, Over
<1>7. CASE RayStopsPending
  <2>1. /\ job'.request = job.request /\ job.status = "PENDING" /\ use.backend = "jobs"
        /\ use' = use /\ files' = files /\ client' = client /\ seen' = seen /\ entry' = entry
        /\ job'.status = "STOPPED" /\ job'.deployed = job.deployed
    BY <1>0, <1>7 DEF RayStopsPending, JobRecords
  <2>2. job.deployed = "ok" /\ Exists /\ Exists'
    BY <1>J, <2>1 DEF JobInv, NoJob, Exists
  <2>3. JobStatus(job) = "PENDING"
    BY <2>1, <2>2 DEF JobStatus, Terminal
  <2>4. Unborn => NoneLive
    BY DEF Unborn, NoneLive, LiveEntry
  <2>5. JobInv'
    BY <1>J, <1>E, <2>1, <2>2 DEF JobInv, Terminal
  <2> QED
    BY <1>J, <1>T, <1>E, <2>1, <2>2, <2>3, <2>4, <2>5 DEF JobInv, Over
<1>8. CASE OperatorStops \/ ServerDefaults \/ SomebodyEdits
  <2>1. /\ job'.request = job.request /\ job'.status = job.status /\ job'.deployed = job.deployed /\ Exists /\ Exists'
        /\ use' = use /\ files' = files /\ client' = client /\ seen' = seen /\ entry' = entry
        /\ use.backend # "jobs" => job'.marker = job.marker
    BY <1>0, <1>8 DEF OperatorStops, ServerDefaults, SomebodyEdits, JobRecords, Exists
  <2>2. use.backend = "jobs" => job.deployed = "ok"
    BY <1>J DEF JobInv
  <2>3. JobStatus(job)' = JobStatus(job)
    BY <2>1, <2>2 DEF JobStatus
  <2>4. JobInv'
    BY <1>J, <1>E, <2>1 DEF JobInv
  <2>5. ~seen.resent => /\ (\E t \in {"none"} \cup Over : OverAs(t))'
                        /\ files'.finished # "none" => seen'.endings \subseteq {Classified'}
    BY <1>E, <2>1, <2>3, OverKept
  <2> QED
    BY <2>1, <2>4, <2>5 DEF AnswerInv
<1>9. CASE KubeSuspends
  <2>1. /\ job'.request = job.request /\ job'.status = job.status /\ job'.deployed = "Suspending"
        /\ job.deployed = "ok" /\ job.status \notin Terminal /\ use.backend = "ephemeral" /\ job.suspend
        /\ use' = use /\ files' = files /\ client' = client /\ seen' = seen /\ entry' = entry
    BY <1>0, <1>9 DEF KubeSuspends, JobRecords
  <2>2. Exists /\ Exists'
    BY <1>J, <2>1 DEF JobInv, NoJob, Exists
  <2>3. JobStatus(job) \notin Over /\ JobStatus(job)' \notin Over
    BY <2>1 DEF JobStatus, Over, Terminal
  <2>4. JobInv'
    BY <1>J, <1>E, <2>1, <2>2 DEF JobInv
  <2> QED
    BY <1>T, <2>1, <2>2, <2>3, <2>4
<1>10. CASE KubeDeletesCluster
  <2>1. /\ job'.request = job.request /\ job'.status = job.status /\ job'.deployed = "Suspended"
        /\ job.deployed = "Suspending"
        /\ use' = use /\ files' = files /\ client' = client /\ seen' = seen
    BY <1>0, <1>10 DEF KubeDeletesCluster, JobRecords
  <2>2. Exists /\ Exists' /\ job.status \notin Terminal /\ use.backend # "jobs"
    BY <1>J, <2>1 DEF JobInv, NoJob, Exists
  <2>3. JobStatus(job) \notin Over
    BY <2>1, <2>2 DEF JobStatus, Over, Terminal
  <2>4. NoneLive' /\ (Unborn => Unborn')
    BY <1>10 DEF KubeDeletesCluster, NoneLive, Unborn, LiveEntry
  <2>5. JobInv'
    BY <1>J, <2>1, <2>2, <2>4 DEF JobInv
  <2> QED
    BY <1>T, <2>1, <2>2, <2>3, <2>4, <2>5
<1>11. CASE RayForgets
  <2>1. /\ job' = NoJob /\ ~Exists' /\ Exists
        /\ use' = use /\ files' = files /\ client' = client
        /\ seen'.resent = seen.resent /\ seen'.endings = seen.endings
        /\ seen'.lost <=> seen.lost \/ JobStatus(job) \in Terminal \/ ~Unborn
    BY <1>0, <1>11 DEF RayForgets, SeenRecords, NoJob, Exists, Unborn
  <2>2. (NoneLive => NoneLive') /\ (Unborn => Unborn')
    BY <1>0, <1>11 DEF RayForgets, NoneLive, Unborn, LiveEntry
  <2>3. JobInv'
    BY <2>1, <2>2 DEF JobInv, NoJob
  <2>4. ASSUME NEW t \in {"none"} \cup Over, OverAs(t) PROVE OverAs(t)'
    <3>1. \A k \in Clients : JobStatus(client[k].read)' = JobStatus(client'[k].read)
      BY DEF JobStatus
    <3>2. Told(t)' = Told(t)
      BY <2>1 DEF Told
    <3>3. t # "none" => NoneLive' /\ seen'.lost
      BY <2>1, <2>2, <2>4 DEF OverAs, Over, Terminal
    <3> QED
      BY <2>1, <2>4, <3>1, <3>2, <3>3 DEF OverAs
  <2> QED
    BY <2>1, <2>3, <2>4 DEF AnswerInv, Classified
<1> QED
  BY <1>1, <1>2, <1>3, <1>4, <1>5, <1>6, <1>7, <1>8, <1>9, <1>10, <1>11

\* A running entrypoint ends what nothing was told of.
LEMMA EntryAnswer ==
  ASSUME RayShapes, WorkloadInv, AnswerInv, NEW e \in Entries, Entrypoint(e)
  PROVE  AnswerInv'
<1> USE DEF clusterVars
<1>0. files \in FileRecords /\ seen \in SeenRecords /\ entry \in [Entries -> EntrySteps]
  BY DEF RayShapes
<1>1. LiveEntry(e) /\ (entry[e] # "born" => entry[e] \in Owners)
  BY DEF Entrypoint, ClaimsWorkload, BeginsWorkload, SpawnsWorker, RecordsStart, Supervises, ReadyGroup,
         SeesCancellation, LeavesGroup, AbortsGroup, EndsGroup, LiveEntry, Owners, Supervising, Driving
<1>2. ~NoneLive /\ ~Unborn
  BY <1>1 DEF NoneLive, Unborn, LiveEntry
<1>3. /\ use' = use /\ job' = job /\ client' = client
      /\ seen'.lost = seen.lost /\ seen'.resent = seen.resent /\ seen'.endings = seen.endings
  <2>1. CASE ClaimsWorkload(e) \/ BeginsWorkload(e) \/ RecordsStart(e) \/ Supervises(e)
    BY <2>1 DEF ClaimsWorkload, BeginsWorkload, RecordsStart, Supervises
  <2>2. CASE SpawnsWorker(e)
    BY <1>0, <2>2 DEF SpawnsWorker, Spawn, SeenRecords
  <2>3. CASE ReadyGroup(e) \/ SeesCancellation(e) \/ LeavesGroup(e) \/ AbortsGroup(e) \/ EndsGroup(e)
    BY <2>3 DEF ReadyGroup, SeesCancellation, LeavesGroup, AbortsGroup, EndsGroup
  <2> QED
    BY <2>1, <2>2, <2>3 DEF Entrypoint
<1>4. files'.finished = files.finished \/ files.finished = "none"
  <2>1. CASE entry[e] = "born"
    <3>1. ClaimsWorkload(e)
      BY <2>1 DEF Entrypoint, ClaimsWorkload, BeginsWorkload, SpawnsWorker, RecordsStart, Supervises, ReadyGroup,
                  SeesCancellation, LeavesGroup, AbortsGroup, EndsGroup
    <3> QED
      BY <1>0, <3>1 DEF ClaimsWorkload, Put, FileRecords
  <2>2. CASE entry[e] # "born"
    BY <1>1, <2>2 DEF WorkloadInv, EntryInv
  <2> QED
    BY <2>1, <2>2
<1>5. files'.finished = "none" => files.finished = "none"
  <2>1. CASE entry[e] = "born"
    <3>1. ClaimsWorkload(e)
      BY <2>1 DEF Entrypoint, ClaimsWorkload, BeginsWorkload, SpawnsWorker, RecordsStart, Supervises, ReadyGroup,
                  SeesCancellation, LeavesGroup, AbortsGroup, EndsGroup
    <3> QED
      BY <1>0, <3>1 DEF ClaimsWorkload, Put, FileRecords
  <2>2. CASE entry[e] # "born"
    BY <1>1, <2>2 DEF WorkloadInv, EntryInv
  <2> QED
    BY <2>1, <2>2
<1>6. JobInv'
  BY <1>2, <1>3, JobKept DEF AnswerInv
<1>7. ASSUME ~seen'.resent
      PROVE  /\ (\E t \in {"none"} \cup Over : OverAs(t))'
             /\ files'.finished # "none" => seen'.endings \subseteq {Classified'}
  <2>1. OverAs("none") /\ (files.finished = "none" => seen.endings = {})
    BY <1>2, <1>3, <1>7, NothingTold
  <2>2. \A k \in Clients : JobStatus(client[k].read)' = JobStatus(client[k].read)
    BY <1>3 DEF JobStatus
  <2>3. JobStatus(job)' = JobStatus(job) /\ (Exists' <=> Exists) /\ Told("none")' = {}
    BY <1>3 DEF JobStatus, Exists, Told
  <2>4. OverAs("none")'
    BY <1>3, <1>5, <2>1, <2>2, <2>3 DEF OverAs
  <2>5. files'.finished # "none" => seen'.endings \subseteq {Classified'}
    <3>1. CASE files.finished = "none"
      BY <1>3, <2>1, <3>1
    <3>2. CASE files.finished # "none"
      <4>1. files'.finished = files.finished
        BY <1>4, <3>2
      <4> QED
        BY <1>3, <1>7, <3>2, <4>1 DEF AnswerInv, Classified
    <3> QED
      BY <3>1, <3>2
  <2> QED
    BY <2>4, <2>5
<1> QED
  BY <1>6, <1>7 DEF AnswerInv

\* Ranks and workers change no answer.
LEMMA RankAnswer ==
  ASSUME RayShapes, AnswerInv, NEW r \in Ranks,
         Announces(r) \/ RankStep(r) \/ RankDies(r) \/ WorkerEnds(r)
  PROVE  AnswerInv'
<1> USE DEF clusterVars
<1>0. files \in FileRecords /\ seen \in SeenRecords
  BY DEF RayShapes
<1>E. entry' = entry => (NoneLive' <=> NoneLive) /\ (Unborn' <=> Unborn)
  BY DEF NoneLive, LiveEntry, Unborn
<1>1. CASE Announces(r) \/ Checks(r) \/ StopsRank(r) \/ RankDies(r) \/ WorkerEnds(r)
  BY <1>1, <1>E, AnswerKept DEF Announces, Checks, StopsRank, RankDies, WorkerEnds
<1>2. CASE SpawnsRank(r)
  <2>1. seen'.lost = seen.lost /\ seen'.resent = seen.resent /\ seen'.endings = seen.endings
    BY <1>0, <1>2 DEF SpawnsRank, Spawn, SeenRecords
  <2>2. files'.finished = files.finished /\ files'.cancel = files.cancel /\ files'.started = files.started
    BY <1>0, <1>2 DEF SpawnsRank, Put, FileRecords
  <2> QED
    BY <1>2, <1>E, <2>1, <2>2, AnswerKept DEF SpawnsRank
<1>3. CASE ReapsRank(r)
  <2>1. files'.finished = files.finished /\ files'.cancel = files.cancel /\ files'.started = files.started
    BY <1>0, <1>3 DEF ReapsRank, FileRecords
  <2> QED
    BY <1>3, <1>E, <2>1, AnswerKept DEF ReapsRank
<1> QED
  BY <1>1, <1>2, <1>3 DEF RankStep

-----------------------------------------------------------------------------
\* The invariant holds at first.
LEMMA RayInvInit == RayInit => RayInv
<1> SUFFICES ASSUME RayInit PROVE RayInv
  OBVIOUS
<1>1. RayShapes
  BY InitShapes
<1>2. RequestInv
  <2>1. \A c \in Clients : ClientInv(c)
    BY DEF RayInit, ClientInv, Sending
  <2> QED
    BY <2>1 DEF RayInit, RequestInv, NoJob, NoFiles, Exists
<1>3. WorkloadInv
  <2>1. \A e \in Entries : entry[e] \notin Owners
    BY DEF RayInit, Owners, Supervising, Driving
  <2>2. \A e \in Entries : EntryInv(e)
    BY <2>1 DEF EntryInv, Owners, Supervising, Driving
  <2>3. \A r \in Ranks : RankInv(r)
    BY DEF RayInit, RankInv
  <2>4. FinishedInv /\ ~files.abort
    BY DEF RayInit, FinishedInv, NoFiles
  <2> QED
    BY <2>1, <2>2, <2>3, <2>4 DEF WorkloadInv
<1>4. AnswerInv
  <2>1. JobInv
    BY DEF RayInit, JobInv, Unborn, Exists, NoJob
  <2>2. OverAs("none")
    BY DEF RayInit, OverAs, NoJob, Exists, Told
  <2> QED
    BY <2>1, <2>2 DEF AnswerInv, RayInit, NoFiles
<1> QED
  BY <1>1, <1>2, <1>3, <1>4 DEF RayInv

\* Every step preserves it.
LEMMA RayInvStep == RayInv /\ [RayNext]_rayVars => RayInv'
<1> SUFFICES ASSUME RayInv, [RayNext]_rayVars PROVE RayInv'
  OBVIOUS
<1> USE DEF RayInv
<1>1. ASSUME NEW c \in Clients, Client(c) \/ ClientDies(c) PROVE RayInv'
  BY <1>1, ClientShapes, ClientRequest, ClientWork, ClientAnswer
<1>2. CASE \/ \E d \in Requests : ArrivesLate(d)
           \/ \E e \in Entries : StartsEntry(e) \/ JobEnds(e) \/ RayTerminates(e) \/ KillsEntry(e)
           \/ JobFails \/ RayStopsPending \/ OperatorStops \/ KubeSuspends \/ KubeDeletesCluster
           \/ ServerDefaults \/ SomebodyEdits \/ RayForgets
  BY <1>2, ClusterShapes, ClusterRequest, ClusterWork, ClusterAnswer
<1>3. ASSUME NEW e \in Entries, Entrypoint(e) PROVE RayInv'
  <2>1. entry[e] # "unborn"
    BY <1>3 DEF Entrypoint, ClaimsWorkload, BeginsWorkload, SpawnsWorker, RecordsStart, Supervises, ReadyGroup,
                SeesCancellation, LeavesGroup, AbortsGroup, EndsGroup
  <2>2. Fine(files.plan) /\ The \in Requests
    BY <2>1, PlanFine
  <2> QED
    BY <1>3, <2>2, EntryShapes, WorkRequest, EntryWork, EntryAnswer
<1>4. ASSUME NEW r \in Ranks, Announces(r) \/ RankStep(r) \/ RankDies(r) \/ WorkerEnds(r) PROVE RayInv'
  <2>1. rank[r].at # "none" \/ proc[r] # "none"
    BY <1>4 DEF Announces, RankStep, Checks, SpawnsRank, StopsRank, ReapsRank, RankDies, WorkerEnds
  <2>2. Fine(files.plan) /\ The \in Requests
    BY <2>1, PlanFine
  <2> QED
    BY <1>4, <2>2, RankShapes, WorkRequest, RanksWork, RankAnswer
<1>5. CASE UNCHANGED rayVars
  <2>1. /\ use' = use /\ job' = job /\ underway' = underway /\ files' = files /\ client' = client /\ entry' = entry
        /\ rank' = rank /\ proc' = proc /\ reached' = reached /\ seen' = seen /\ mishaps' = mishaps
    BY <1>5 DEF rayVars
  <2>2. RayShapes'
    BY <2>1, ShapesKept DEF RayShapes
  <2>3. RequestInv'
    BY <2>1, RequestKept DEF RequestInv
  <2>4. WorkloadInv'
    BY <2>1, WorkKept
  <2>5. AnswerInv'
    <3>1. (NoneLive => NoneLive') /\ (Unborn => Unborn')
      BY <2>1 DEF NoneLive, LiveEntry, Unborn
    <3> QED
      BY <2>1, <3>1, AnswerKept
  <2> QED
    BY <2>2, <2>3, <2>4, <2>5
<1> QED
  BY <1>1, <1>2, <1>3, <1>4, <1>5 DEF RayNext

\* A set with one candidate has at most one member.
LEMMA AtMostOne ==
  ASSUME NEW S, NEW x, S \subseteq {x}
  PROVE  Cardinality(S) <= 1
<1>1. S = {} \/ S = {x}
  OBVIOUS
<1>2. Cardinality(S) \in {0, 1}
  BY <1>1, FS_EmptySet, FS_Singleton
<1> QED
  BY <1>2

\* It implies every part of RaySound.
LEMMA RayInvSound == RayInv => RaySound
<1> SUFFICES ASSUME RayInv PROVE RaySound
  OBVIOUS
<1>0. RayShapes /\ RequestInv /\ WorkloadInv /\ AnswerInv
  BY DEF RayInv
<1>1. RayTypeOK
  <2>1. JobStatus(job) \in Terminal \cup {"PENDING", "RUNNING"}
    BY DEF JobStatus, Terminal
  <2>2. files.finished \in RayEndings \cup {"none", "never"}
    BY <1>0 DEF RayShapes, FileRecords
  <2> QED
    BY <1>0, <2>1, <2>2, SetupFacts DEF RayTypeOK, RayShapes, Procs
<1>2. SubmittedOnce
  <2>1. \A r \in Ranks : seen.spawns[r] <= 1
    BY <1>0 DEF WorkloadInv, RankInv
  <2>2. files.rejected \notin seen.ran
    BY <1>0, SetupFacts DEF RequestInv, Fine, RayShapes
  <2> QED
    BY <1>0, <2>1, <2>2 DEF SubmittedOnce, RequestInv
<1>3. GroupEndsTogether
  <2>1. files.finished = "never" => ~Started
    BY <1>0 DEF WorkloadInv, FinishedInv, RankInv, Started
  <2>2. files.finished = "never" => files.cancel /\ \A r \in Ranks : rank[r].record # "failed"
    BY <1>0 DEF WorkloadInv, FinishedInv
  <2>3. files.finished = "cancelled" => files.cancel /\ \A r \in Ranks : rank[r].record # "failed"
    BY <1>0 DEF WorkloadInv, FinishedInv
  <2> QED
    BY <1>0, <2>1, <2>2, <2>3 DEF GroupEndsTogether, WorkloadInv, FinishedInv
<1>4. AnswersStable
  <2>1. CASE seen.resent
    BY <2>1 DEF AnswersStable
  <2>2. CASE ~seen.resent /\ files.finished # "none"
    BY <1>0, <2>2, AtMostOne DEF AnswerInv, AnswersStable
  <2>3. CASE ~seen.resent /\ files.finished = "none"
    <3>1. PICK t \in {"none"} \cup Over : OverAs(t)
      BY <1>0, <2>3 DEF AnswerInv
    <3>2. seen.endings \subseteq Told(t)
      BY <2>3, <3>1 DEF OverAs
    <3>3. CASE Told(t) \subseteq {"cancelled"} \/ Told(t) \subseteq {"failed"}
      BY <3>2, <3>3, AtMostOne DEF AnswersStable
    <3>4. CASE Told(t) = {"failed", "cancelled"} /\ files.cancel /\ ~files.started
      <4>1. seen.endings \subseteq {"failed"} \/ seen.endings \subseteq {"cancelled"} \/ seen.endings = {"failed", "cancelled"}
        BY <3>2, <3>4
      <4> QED
        BY <2>3, <3>4, <4>1, AtMostOne DEF AnswersStable
    <3> QED
      BY <3>3, <3>4 DEF Told, Over
  <2> QED
    BY <2>1, <2>2, <2>3
<1>5. StopVerified
  BY <1>0 DEF RequestInv, StopVerified
<1> QED
  BY <1>1, <1>2, <1>3, <1>4, <1>5 DEF RaySound

\* For any number of clients, entrypoint runs, ranks and mishaps: a rank's worker
\* is started once and of the accepted request, finished.json is true of every
\* rank, one ending is answered, and only the verified RayJob is suspended,
\* whatever the cluster starts late, repeats, kills or forgets.
THEOREM RayTrue == RaySpec => []RaySound
BY RayInvInit, RayInvStep, RayInvSound, PTL DEF RaySpec
=============================================================================
