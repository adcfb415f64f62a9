# xaytune in TLA+

xaytune fine-tunes models under a durable control plane: an *experiment* is
submitted, a controller trains candidates on a runtime, evaluates them, decides
and branches, recovers what fails, and everything it intends and observes is in
one SQLite database, so that another process can take over after a crash. Beside
it stand a worker that can be resumed exactly, and a harness that runs agents,
records what they did and searches for a better harness. This directory models
these protocols: who may write, how an external effect is made exactly once, how
its outcome gets into the record, and what happens when a step in the middle
does not.

Run a model with `tlc -config X.cfg MCModule` and check the proofs with
`tlapm ModuleProofs.tla`. `PROJECT.json` lists the runs, the source lines each
definition stands for, the hazards the properties are about, a mutant for every
property and the theorems.

## 1. The system

| component | state | operations | hard part |
|---|---|---|---|
| **controller lease** (`storage/leases.py`, `daemon/lock.py`, `core/sqlite.py`) | one row: owner, fencing epoch, expiry; a flock per machine | acquire, renew, release, check a fence inside a write | stalled owners, expiry by wall clock, embedded hosts on the same file |
| **daemon** (`daemon/`) | its lease, `halt`, the host it runs; ControllerRequests and rests in the database | serve, heartbeat, sweep, process requests, stop; a client records, repeats, joins, waits | losing the lease while observers run; a repeated request; a handoff that is believed |
| **controller host** (`experiment/host.py`) | observer tasks, escalations; everything else is in the database | submit, issue, adopt, observe, settle, attach, reconcile, cancel, branch, recover | every `await` and every commit is a place to crash or to be overtaken |
| **repository** (`storage/control_plane.py`) | experiments, nodes, runs, attempts, Actions, RuntimeOperations with revisions, ledger, events | one transaction per transition, compare-and-set on the revision | what commits together and what does not |
| **runtime contract** (`runtimes/__init__.py`) | workloads by operation id | `submit_or_get`, `lookup_operation`, `get_status`, `watch`, `cancel` | answers lost, requests late, runtimes that forget |
| **local runtime** (`runtimes/local/`) | a registry database, files per workload, launcher and worker processes | the contract; the launcher's claim, spawn, wait, signal | two launchers, dead owners, files read while they are written |
| **Ray runtimes** (`ray/`) | a job in a cluster, a shared directory, a supervisor or a driver with ranks | the contract, over the Jobs API or a KubeRay RayJob | a cluster that starts late, repeats, kills and forgets |
| **evaluation, decision, branching, budget** | cycles, results, decisions, PLANNED nodes; ledger entries | begin a cycle, record a result, decide, materialise, realise; reserve, settle, release | restarts in the middle; deciding once; the last slot |
| **planning** (`planning/`, `search/`) | the journal of agent invocations | ask, record the answer, replay, propose | a crash with the answer unread; a build that answers differently |
| **incident recovery, interventions** | incidents, plan revisions, governed actions, directives | diagnose, plan, approve, create a successor attempt, replay interventions | late evidence; stale approvals; two drivers |
| **workers, checkpoints, telemetry** (`workers/`, `checkpoints/`, `runtimes/local/`) | model and sampler position, bundles, observations, event files, cursors | train, capture, publish, restore, relay, ingest | torn lines, generations, what a resumed attempt repeats |
| **trajectory store, harness runner** (`trajectory/`, `harness/runner.py`) | append-only directories, locks, a published result | run, record, roll, seal, reconcile, contain, retain, replay | a refused or torn file operation; sealing what nobody finishes |
| **harness evaluation and search** (`harness/`) | evidence of task runs; a spending ledger | verify, measure, judge, disclose; reserve, evaluate, compare, report | evidence that changes under the reader; units that cost more than reserved |
| training library, CLI, API, studio | mostly none | computation and I/O | - |

The host calls the repository (synchronously, one transaction each) and a
runtime (awaiting it); the daemon owns a host and fences its transactions with
the lease; embedded hosts in other processes use the same database with a
weaker fence. A runtime knows only operation ids. The order that everything
rests on is: *commit the intent, call the runtime, commit the outcome*.

What makes each part correct, in a sentence: a write lands only under the
current epoch; a workload is started at most once per operation and its
operation tells the truth about it; an attempt's and a run's outcome is what
the runtime observed and is final; nothing begun is left behind; CANCELLED
means nothing runs; one worker per local operation; a status is never invented;
the ledger agrees with the transitions and stays within its limits; a question
is asked of a model once, and a proposal is a function of the record; a failed
attempt has one successor, decided on all the evidence; a resumed attempt
trains what an uninterrupted one would have; what is sealed is what happened.

## 2. The modules

```
ControllerLease ------ ControllerLeaseProofs
      (FencedWrites and LeaseProgress justify Submission's MayWrite, Superseded)

RuntimeContract <--implements-- LocalRuntime -- LocalRuntimeProofs
      |  EXTENDS                RayRuntime -- RayRuntimeProofs
Submission ---------------------------- SubmissionProofs
      |  EXTENDS                             |  EXTENDS
ExperimentCancellation --------------- ExperimentCancellationProofs

ExperimentLifecycle -- ExperimentLifecycleProofs
Planning -- PlanningProofs
IncidentRecovery -- IncidentRecoveryProofs
DaemonRequests         ManagedTraining
HarnessRun <--EXTENDS-- TrajectoryStore    HarnessSearch     HarnessEvaluation
```

`MC*` modules give the model values and the setups a cfg uses. Five of them put
two worlds side by side that share no state: `MCHosts` (two hosts with a crash
and a forgetful runtime, or with a cancellation), `MCRuntimes` (the local
runtime, or a Ray one), `MCExperimentLifecycle` (experiments, or searches over
harnesses: the two searches that are held to a budget), `MCManagedTraining`
(what is trained, or what is measured: HarnessEvaluation) and `MCSubmission`
(the coroutines of one attempt followed at a time). A variable that is set in
the initial state tells the worlds apart, and a property is stated of its world.

Several modules have a variable `setup` (`use`, `request`): the configuration a
user chose, drawn in `Init` from a set the MC module lists, and constant after.

### ControllerLease
`lease`, `left` are the row (`left` is `lease_expires_at - now`: the code only
compares the two); `writer` is SQLite's write lock; `flock`, `phase`, `held`,
`lost`, `beating` are a daemon's lock, where it is in `serve()`, the epoch of
its fence, `_lost` and its heartbeat. A write is two steps, `Begin` (the fence,
inside the transaction) and `Commit`, so anything can happen in between.
`StepBack` moves the wall clock back: `utc_now` is not monotonic.

### RuntimeContract
The abstract specification of a runtime: what became of a workload (`wl`), how
often it was started (`starts`), whether the runtime still remembers it
(`forgot`), and whether it was asked to stop (`asked`). `Lookup` and `Statuses`
are its answers; `unknown` is always a possible answer for a live workload.
`Submission` extends it as the environment of the controller; `LocalRuntime`
is shown to implement it.

### Submission
Per attempt: the submit operation (`sub`), the attempt and its run (`att`,
`run`), and what a worker said of an evaluation (`report`): nothing yet,
emitted and not read, held and usable, or held and not to be attributed to the
attempt (or without a metric it asks for), in which case the evaluation is
settled FAILED although its workload succeeded. Per controller process: `up`
and a program counter per attempt (`pc`) that stops where the coroutine awaits
or commits. `Sync` names the places between which asyncio runs nothing else of
the same process; other processes come in everywhere. `transit` holds
submit_or_get calls the runtime has not received: they outlive their sender.
`Fenced` chooses between daemons under the lease (only `owner` may write, a
stalled former owner may still call runtimes) and embedded hosts, of which
several may drive the same experiment.

`_settle` is two commits, the attempt's and then the run's, with a crash or a
takeover possible in between. Abstracted: `begin_evaluation_cycle` and the
activation that follows it are one step (the second changes nothing this module
keeps; ExperimentLifecycle has both); `_settle`'s extra step of a succeeded attempt through RUNNING
happens with the settlement; reconciliation takes an experiment's attempts in
any order; revisions are represented by the state they guard. Each run has one
attempt here (`ExperimentLifecycle` has several attempts of an evaluation,
`IncidentRecovery` several of a training run).

### ExperimentCancellation
`parent` is the one effective `cancel-experiment` Action, `child` and `cop` its
child Actions and their cancel operations; `effects`, `calling`, `closing` are
where a controller is in `_carry_out_cancellation` and in
`reconcile_experiment_cancellation`, whose child settlements and final commit
are separate steps. `Request` differs for the daemon, which attaches before it
carries the effects on. Every other step is Submission's.

### LocalRuntime
`row`, `spawnedPid`, `launcherPid`, `cancelRow` are the registry database;
`cancelFile`, `started`, `finished` the files of a workload; `cpc` where a
caller is in a call, `lpc` where a launcher is in `supervise_workload`, `told`
its `signalled`, `worker` its worker process. Callers, launchers and workers die
at any step. Pids are not reused and dead processes are reaped at once, except a
worker, which is a zombie until its launcher reaps it. `_status` is two steps:
`ReadFinished` and `Probe`. A launcher's poll and its signal are one step, here
and in RayRuntime; section 4 (`LocalZombie.cfg`) has what lies between them.

`Contract` maps this to RuntimeContract: a workload exists from its claim on,
has the recorded ending once there is one, and is `lost` once its owner is gone,
nothing it spawned runs and nothing was recorded. Nobody takes over from a dead
owner, so `lost` is final, which is what makes the mapping an implementation.

### RayRuntime
One operation over two runtimes (one supervised worker, or a group with a
driver and ranks) and three backends (the Jobs API, a RayJob on an existing
cluster, an ephemeral RayJob). `job` is what the cluster records, `underway` the
submissions whose sender is gone, `files` the shared directory through which
clients, supervisor, driver and ranks speak to each other. Ray itself is
external: it may start a job late, run its entrypoint again, end it, kill its
processes and forget it, each within `mishaps`. Which plans a runtime refuses
is computed from the plan as the code does. The model does not claim to
implement RuntimeContract: section 4 has the ways in which it does not.

### ExperimentLifecycle
Per node: its status, candidate and parent, training run, evaluation run with
up to `MaxEvals` attempts, result, decision; the ledger as a set of keys
(dimension, kind, subject), as its unique index has it. Per host: the chain of
commits it is in (`task`), what it observes, where its `attach()` is, and the
adaptive pass. A submission is intended, then confirmed or refused; how it
survives is Submission's.

### Planning
Nodes in order of creation and the journal of model invocations in order of
insertion. A pass of a host binds the planner, reads the context, asks or
replays, and branches the proposal; every step of it may be overtaken by
another host. `CreateNode` is a user's: it refuses nothing, so it may repeat a
candidate, planned or finished. `Realize` runs what the recorded planner
branched, all of it, and leaves nodes made by hand alone; it escalates when the
planner does not bind, a compiler does not support the candidate or its seed has
no source, and closes the experiment when the budget is spent. A search over a
record with a repeated candidate (`HasTwins`) raises an error that nobody
catches: `PlanningRests` states that as its one exception. A `build` is the code a host runs as the record sees it:
`recorded`, or one that asks or derives differently, which a restart may bring.
`proposed` is history: each proposal with the context it was made from.

### IncidentRecovery
Attempts of one training run with their incidents, plan revisions, governed
actions, checkpoints and directives. Two drivers of one process interleave where
the code awaits (`setup.alone`); drivers of two processes everywhere. An
attempt's ending and its run's are two commits, as in `_settle`, and the process
may die between them. An incident carries an optimizer step or not
(`CarriesStep`: what is reported of a nonfinite loss does, an out-of-memory error
does not), and only one that does is compared with a checkpoint's step; being
reported before the incident is required of every checkpoint. `RecoveryRests`
has one exception, `Stranded`: the death between the two commits, which section
4 shows.

### ManagedTraining
A sample is its position in the canonical order of the run, and a model is the
sequence of samples it was updated with: exact resumption is then an equation.
Around the worker: the observations file with its torn last line, the launcher
that relays it, the event stream with generations, and the controller's cursor.
Under fp16 (`setup.scaled`) the GradScaler may skip an update whose step is
counted all the same: the model then has a skipped step in it, and a run that
captures bundles stops there with an error (`native_checkpoint.py:390-391`).
`Settle` and `Close` are the two commits of `_settle`; `RunEnds` has the same
exception as `RecoveryRests` ("stranded"). That a worker
reports `cuda-oom` is left to the code outside the repository that
`docs/control-plane/concepts.md:573` names. `Compiles` keeps one refusal of the
compilers, the one about checkpoints.

### HarnessRun, TrajectoryStore
`HarnessRun` has the runner's loop as operators on a record (no variables): turns,
context policy, tool calls, limits, endings, the events it records, the rules of
a well-formed history and its re-drive. `TrajectoryStore` runs it: every durable
file operation is a step that may raise, with or without its effect, or be torn
by a crash; beside the runner there are a reconciler, an operator who contains a
secret, and retention.

### HarnessSearch, HarnessEvaluation
The search loop with its reservations, charges and refusals, patches and
ceilings, comparisons and report. The evaluation's evidence, its verification,
what is measured and judged from it, and what is disclosed to a provider, in a
store that others change.

### DaemonRequests
Clients and sessions: a request is recorded, accepted with its intent, completed
or failed. An attach is one step per commit: the attempts it looks up, the
cancellation it carries on, the planning it resumes; `Issue` ends in a confirmed
submission, in the runtime's refusal or in an error. `mind` is what the serving session holds in memory and loses;
`rests` is what `wait()` reads. Of an experiment only what a request or a rest
can tell apart is kept.

## 3. What the runs check

| run (states) | instance | properties |
|---|---|---|
| `lease` (135,100) | 2 daemons on 2 machines, an embedded host, TTL 2, clock back by 1, 3 epochs | `FencedWrites`, `NothingAfterLoss`, `EpochOrder`, `LeaseProgress` |
| `hosts` (3,257,568, symmetry) | 2 embedded hosts, a training and an evaluation attempt; a crash on a runtime that forgets, or a cancellation | `SubmissionSound` = `TypeOK` ∧ `StartedOnce` ∧ `JournalHonest` ∧ `AttemptsHonest`; `CancellationSound` = `CancelTypeOK` ∧ `CreditHonest` ∧ `CancelledMeansStopped`; `AttemptForward` |
| `submit_liveness` (225,070) | 2 daemons, 1 crash or takeover, 1 error | `RunsHonest`, `SubmissionProgress` |
| `cancel_liveness` (38,201) | 1 daemon, an evaluation attempt, crashes and errors | `CancellationEnds` |
| `runtimes` (257,055) | local: 1 operation, 2 callers, 2 launchers, 1 crash; Ray: 12 setups, 2 runs of the entrypoint, 2 ranks, 1 mishap each | `OneWorker`, `EndingHonest`, `ImplementsContract`, `CancelSurvives`; `RaySound` = `RayTypeOK` ∧ `SubmittedOnce` ∧ `GroupEndsTogether` ∧ `AnswersStable` ∧ `StopVerified`; `RayCancelReaches` |
| `recorded_run` (357,179) | 2 attempts, chunks of 2 events, 2 faults, 1 expired blob | `EvidenceHonest`; `RunsAgree` = `StageVerifies` ∧ `ReplayFaithful` ∧ `AnswerStands`; `EventuallySealed` |
| `lifecycle` (207,567) | experiments: 7 setups, 2 hosts, 3 candidates and nodes, 2 attempts of an evaluation; searches over harnesses: 12 setups with a fault | `BudgetKept` = `LifecycleTypeOK` ∧ `LedgerAgrees` ∧ `WithinBudget`; `BranchingSound` = `DecisionHonest` ∧ `OneCandidateAtATime`; `NothingLeftBehind`; `ExperimentsRest`; `SearchSound` = `SpendingKept` ∧ `ReportTrue` ∧ `CandidatesSound`; `SearchesEnd` |
| `recovery` (898,157) | 2 drivers, 2 optimizer steps, 2 incidents of an attempt, 2 stale rounds | `SuccessorSound` = `RecoveryTypeOK` ∧ `OneSuccessor` ∧ `DecidedOnAllEvidence` ∧ `RestoresBeforeIncident` ∧ `BatchPreserved`; `TrainingPreserved` = `InterventionsKept` ∧ `DirectivesFit`; `RunEndsHonestly`; `RecoveryRests` |
| `daemon` (275,644) | 15 setups: 2 experiments, 2 requests, 1 session that ends, 1 error, 1 repeat, a refused submission, a replaced session | `RequestsHonest` = `MailboxTypeOK` ∧ `IntentOnce` ∧ `FailedUnlessReplaced` ∧ `OwnedIsDriven`; `AnswersHonest` = `OnlyForward` ∧ `HandoffHonest` ∧ `WaitHonest`; `ClientsAnswered` |
| `planning` (523,666) | 2 hosts, 4 ranks, quota 4, 3 rounds, 1 consecutive duplicate | `PlanningSound` = `JournalSound` ∧ `ProposalsDetermined` ∧ `BranchesAreNew`; `SearchReproducible`; `PlanningRests` |
| `managed_training` (1,339,693) | training: 9 setups (3 of them fp16), 3 attempts; evaluations: 9 setups of 2 tasks | `TrainingExact` = `TypeOK` ∧ `ExactResume` ∧ `BundlesHonest` ∧ `SuccessIsWhole`; `RecordExact` = `CursorHonest` ∧ `NothingLost`; `TrainingEnds`; `EvaluationSound`; `DisclosureKept` |
| `training_run_closes` (violation) | 2 daemons, 1 crash or takeover | `TrainingRunCloses`, see section 4 |

**Bounds.** Operations do not interact in LocalRuntime, and in Submission only
through `Trained`, attach and the single thread of a process, so one and two
cover those; two controllers are one that acts and one that interferes; a
takeover needs two processes and a third epoch shows the second one being fenced
too. Two launchers suffice for a race for ownership. Launchers get their pids in
order, and in `runtimes` one caller asks for the status: the other would only
repeat its reads. The local runtime's refusals are not in this instance; the
proofs cover every set `Refused`. `submit_liveness` follows the coroutines of
one attempt at a time. Three candidates make two branches, so a budget of two
runs is exhausted and a decision has something to reject. Two drivers are one
that planned and one that overtakes it; `StaleRetries` is 2 (the code has 3) and
`MaxDuplicates` 1 (the code has 16): both loops then run out within a few
rounds. Two events fill a chunk, so that every run rolls. Two tasks are what it
takes for an aggregate to hide one. Faults are bounded by named constants; one
fault separates any two commits and the second hits its repair. What the proofs
of section 5 cover, they cover without any bound.

Deadlock checking is off where an instance comes to rest: its attempts are over,
its request is answered, its bounds are used up.

**Fairness.** *Lease*: time passes, `_acquire_lease` polls at least every third
of a TTL (strong, because others hold the write lock in between), no
transaction stays open, `halt` is acted on. Nothing makes a daemon renew in
time. *Submission*: a coroutine that can go on does; requests in transit arrive;
workloads end; a process is started again; and somebody attaches an experiment
nobody is driving. The last is the daemon's sweep after a start, any request for
the experiment, or a user calling `attach`; after an observer *raised* in a
running daemon it is only the latter two, so there the liveness results are
conditional on being asked. *Cancellation*: the same, strong where a coroutine
can find its process between another's commits, since asyncio runs ready
coroutines in turn. *LocalRuntime*: a call that was begun goes on, a launcher
is scheduled while it lives, and an unconfirmed cancellation is asked for again
(`_carry_out_cancellation` on resume). Workers are not assumed to exit.
*RayRuntime*: supervisors, drivers and ranks go on, and a worker that was sent
SIGTERM exits. *Lifecycle, Planning*: a host goes on and is restarted, workloads
end. *IncidentRecovery*: drivers go on and attach, workers confirm or refuse a
directive, the slot another run holds is released. *TrajectoryStore*: the runner
and the reconciler go on; the reconciler is an operator's command, so sealing
after a crash is conditional on somebody running it. *DaemonRequests*: a session
is started, reads its mailbox, and its tasks and the clients' polls go on.
*ManagedTraining*: worker, launcher and controller go on. *HarnessSearch*: the
one thread goes on.

Each property has a mutant: a small plausible mistake in a modelled operation
(named in a `Mutant:` comment beside the definition) under which TLC finds the
property violated.

## 4. Where the code does not do what it says

The first is the run `training_run_closes`; the other configurations are in no
run. Each ends in a counterexample that TLC finds within a minute.

* `SubmitTrainingCloses.cfg` (MCSubmission): `_settle` commits the attempt and
  then the run. A crash in between is repaired for evaluations
  (`_reconcile_evaluation`) and not for training: `_reconcile` looks only at
  attempts that have not ended, and the recovery drivers it calls for a failed
  one (`experiment/host.py:2514`) return without an incident, although
  `host.py:1473-1476` says that what a crash left behind is carried forward. The
  run stays ACTIVE, and cancelling the experiment later turns it CANCELLED. The
same window is `Stranded` in IncidentRecovery and "stranded" in ManagedTraining.
* `CancelStartsWork.cfg` (MCExperimentCancellation): the daemon records a
  cancellation and attaches before carrying it out; attaching gives an
  evaluation run that a crash left without an attempt its first one, because
  only the experiment's status is checked. The cancellation then has no child
  for that workload. It does not end early (`CancelledMeansStopped` holds), but
  waits for the evaluation.
* `LocalUnknown.cfg` (MCLocalRuntime): `_status` looks for `finished.json` and
  then for processes. A launcher that finishes in between makes the answer
  `unknown`, with the ending on disk. The host does not ask again: it leaves the
  attempt unsettled until the experiment is attached again.
* `LocalZombie.cfg` (MCLocalRuntime): on Linux `killpg` succeeds for a process
  that has exited and is not reaped, so a worker that finished by itself between
  the poll and the signal is recorded as cancelled, which the comment there
  rules out.
* `TrajectoryUnsealable.cfg` (MCTrajectoryStore): a roll publishes its chunk and
  then truncates the tail (`trajectory/writer.py:329-336`). If the truncation
  raises, the tail repeats the chunk's events, and neither the writer's abandon
  (the comment at 396-397) nor reconciliation (`reconcile.py:84`) can seal the
  attempt. `contain_attempt` (`writer.py:541`) still moves it away.
* `LifecycleTwoHosts.cfg` (MCExperimentLifecycle): with two hosts on one
  database an experiment can be closed (`exhaust_budget`, or `host.py:1777`)
  while the other host's attempt is still running, against the docstring of
  `exhaust_budget` ("nothing running"). With one host it holds
  (`NothingLeftBehind`).
* `SearchOvershoot.cfg` (MCExperimentLifecycle): tool calls of one turn are not bounded by
  the harness's token limit (`runner.py:836` counts after the turn), so an
  attempt may cost more than its reservation, which
  `core/domain/harness_search.py:665-666` calls a ceiling. The ledger records
  what was really spent (`SpendingKept`).
* `DaemonRefused.cfg` (MCDaemonRequests): a request that is answered FAILED is to
  have written nothing (`daemon/server.py:200-201`). A session records the Action
  of a proposal and ends; the next one, without the experiment's runtime, takes
  the request up again. `_propose` resolves the runtime
  (`experiment/host.py:757-761`) before it finds the recorded Action, so the
  request is FAILED with its intent on record. `FailedUnlessReplaced`, which the
  run `daemon` checks with these setups included, says that this is the only way.
* `DaemonRaises.cfg` (MCDaemonRequests): the client's `wait()` may raise while the
  experiment is driven again (`daemon/host.py:391`): the rest of an attach that
  failed in passing, or of a session that escalated, stays the latest as long as
  whoever takes the experiment up records no event.
* `DaemonDeaf.cfg` (MCDaemonRequests): when an observer fails, or the startup
  reconciliation of one experiment does, nothing looks at that experiment again
  before the next request or restart, and a `wait()` on it has no end until then.

Met while modelling, and described here because no property of a run states them:

* *Recovery.* Drivers in two processes may each record a plan for the same
  failure (one process never does). A limit that is exceeded only at the commit
  raises `StaleRecoveryContextError`, which escalates on every later attach. The
  numerical driver does not supersede actions of an older plan revision. Late
  transient evidence fails the run. An out-of-memory incident together with a
  fatal one leaves the run ACTIVE and escalated. `InterventionReplayError` is
  not caught by the out-of-memory driver.
* *Branching.* `create_node` does not refuse a candidate that the experiment
  already has (`control_plane.py:803-838`; a test in `test_graph.py` makes one).
  A SearchContext with the candidate twice raises a ValidationError
  (`core/domain/search.py:403-404`) that nobody catches: planning stands still
  with no escalation on record. `BranchesAreNew` is about branched nodes, and
  `PlanningRests` has the exception.
* *Cancellation.* A cancellation that is recorded while a submission is awaited,
  which the runtime then refuses, is reconciled by nobody before the next attach:
  `_settle_refused` ends the attempt (`experiment/host.py:1386`), and the
  cancellation's own pass is over. `OwnedIsDriven` has the exception
  (`Unreconciled`).
* *Training.* An fp16 run that captures bundles cannot go on past an update the
  GradScaler skips, which it does as a matter of course while it finds its scale.
  The numerical guard sees the last micro-batch of a step only
  (`workers/native.py:272-280`). A checkpoint taken exactly at `max_steps` would
  train one step more when restored; no path restores one.
* *Evaluation.* `_write_reports` ignores that `write_new` found another report;
  evidence is verified and then read from the store again (`_read_tasks`,
  484-501); the names of a single task's `withheld` metrics are disclosed;
  `attempts_for` skips a quarantined attempt it cannot read
  (`harness/evidence.py:180-187`).
* *Ray.* `plan.json` is read and then written, so two clients with *different*
  requests for one operation may run one's plan under the other's acceptance
  (the setups with differing requests have one client). A job that FAILED before
  it started is reported cancelled after a later `cancel()`. A rank that has not
  started within 30 s, or whose actor died, is not waited for, so that a worker
  may outlive "a failed group leaves nothing running"; STOPPED or FAILED may be
  answered while an orphaned worker runs. A job that Ray forgot before its
  acceptance was recorded is returned to a different request. A submission under
  way while Ray forgets the job makes it again, and two endings can be answered
  (`seen.resent` marks it). A request the runtime refuses is recorded as rejected
  even if another request runs under the id, and `lookup_operation` then answers
  "rejected": `SubmittedOnce` says that the rejected request itself never runs.

## 5. What is proved

The `*Proofs` modules are checked by TLAPS for every value of the constants: any
number of daemons, hosts, operations, nodes, crashes and retries. The
assumptions are the named ASSUMEs of the modules they extend (`LeaseAssumption`,
`LocalAssumption`, `ContractAssumption`, `SubmissionAssumption`,
`CancellationAssumption`, `PlanningAssumption`, `LifecycleAssumption`,
`SetupsAssumption`, `RayAssumption`): the types of the constants and of the configurations a user
may choose, identifiers that differ from the values that stand for "none", and in `LifecycleAssumption` a slot limit above zero, which `BudgetSpec` requires. TLC
evaluates each of them on the instances of the runs.

| theorem | says | along which argument |
|---|---|---|
| `ControllerLeaseProofs!Fencing`, `OneDaemonPerEpoch` | a daemon writes only under the row's epoch; an epoch is one daemon's | `FencingInv`: no daemon remembers a later epoch than the row's, the row's epoch is remembered by its owner only (`EpochsBounded`), and only an open controller is inside a transaction (`WriterIsOpen`) |
| `CommitsOrdered` | commits come in the order of the epochs, whatever the clock does | the same invariant; no assumption on `StepBack` |
| `LostWritesNothing`, `ExpiredStaysExpired` | nothing is written under a lost lease, or after an embedded host wrote over it, as long as the clock has not stepped back | `ExpiryInv`: an expired lease stays expired until it is acquired |
| `LocalRuntimeProofs!WorkerUnique`, `StatusTruthful` | one worker per operation; a status the contract allows | `Inv`: who may own a workload (`Ownership`, `Claimed`), what is recorded and by whom (`Recorded`, `RecordedOwned`) |
| `EndingTrue` | a success was not signalled, a cancellation was asked for (`EndingHonest`) | `CancelInv`: the file follows the row, and only an asked-for launcher signals; `SignalInv`, `EndingInv`: what the launcher that waits or has read the exit code knows of its worker and of its own signal |
| `Refinement` | the local runtime implements `RuntimeContract` | every step is a contract step or a stutter: `SameIsStutter`, and `EndsIsEnd` for the step at which a workload's end becomes visible |
| `RayRuntimeProofs!RayTrue` | a rank's worker starts once and of the accepted request, `finished.json` is true of every rank, one ending is answered, only the verified RayJob is suspended (`RaySound`) | see below |
| `SubmissionProofs!Sound` | no workload starts twice; operations and attempts tell the truth, and an evaluation succeeds only with a usable report in hand (`SubmissionSound`) | `SubmissionInv`: a runtime that may forget is asked once (`SentOnce`), an ending it vouched for is unique (`VouchedOnce`), and what each coroutine knows at each program counter (`KnownAt`) |
| `Forward` | attempts and operations only move forward (`AttemptForward`) | the same invariant |
| `RunsTrue` | a run ends as its attempt did (`RunsHonest`) | with what a coroutine about to settle a run has read |
| `ExperimentCancellationProofs!CancellationTrue` | CANCELLED only when nothing runs or can start; credit only for one's own effect (`CancellationSound`) | `SagaInv` (parent, children and operations), `CallInv` (a call under way), `StoppedInv` (a cancelled experiment has nothing live) |
| `SoundWhileCancelling`, `ForwardWhileCancelling` | the saga breaks nothing Submission promises | each of its steps keeps `SubmissionInv`; the others are Submission's |
| `PlanningProofs!PlanningTrue` | a question is asked once, proposals are functions of the record, and what is branched was new to the experiment, whatever is made by hand (`PlanningSound`) | `JournalInv`, `PassInv` (what a pass read still holds at the revision it checks), `DeterminedInv` over the prefixes of the journal |
| `ExperimentLifecycleProofs!BudgetTrue` | the ledger is what the record asks for, and the limits hold of real runs (`BudgetKept`) | see below |
| `BranchingTrue` | decisions rest on measurements, one candidate is open at a time (`BranchingSound`) | see below |
| `LeftBehindTrue` | with one controller, an experiment ends only when nothing it owns runs, and at rest nothing waits for a restart (`NothingLeftBehind`) | see below |
| `IncidentRecoveryProofs!SuccessorTrue` | one successor per failed attempt, from one action that covers all the evidence, restored from before it (and, where an incident names its step, not beyond it), at the same effective batch (`SuccessorSound`) | see below |
| `RunEndsTrue` | a run succeeded only with an attempt that did and confirmed its directives; one process closes no run with an attempt at work (`RunEndsHonestly`) | see below |

*Ray.* `RaySound` looks at the directory and at history; what keeps it true is
spread over processes that meet only there. `RequestInv` follows one request from
`plan.json` to the workers: whoever sends has the planned request in hand, so
that whatever exists, arrives late or runs is that one. It needs what
`RaySetupOK` says of the controllers: clients that run at the same time submit
one request (they read it from the operation's row). `WorkloadInv` has the one
owner of the claim, and what it may rely on at each step although it may be
killed at any and the ranks go on without it: nothing runs before it asks
(`Untouched`), an abort that the driver did not ask for has a rank that failed,
and while a rank is at work the only endings are "failed" with an abort on record
and "never" (`AtWork`). `AnswerInv` is about time: a client answers from a record
it read many steps ago. `OverAs(t)` says that Ray, every such record and what was
answered agree on how the job is over, and that no entrypoint lives that could
still write another ending (`NothingTold`); `lost` and `resent` bound where that
ends. The invariant was model-checked on instances with up to two mishaps first.

*The lifecycle.* `BudgetKept` is not inductive: that a new run fits the limit
depends on what the ledger's balance counts, and that an ending writes `consume`
or `release` on whether the submission was confirmed, which a host learned
commits ago. `WorkInv` therefore has the ledger entry by entry (`Written`), the
balance as a number of runs (`RunsBalance`, `SlotsBalance`: what `Remaining`
computes is the limit less `Held`, what `Outstanding` computes is `Training`),
and `AttemptInv` ties an attempt, its submission, its run and its workload.
`BranchingSound` needs `ChainInv`: the nodes are 1..k and all but the last are
settled for planning, and `PassOK`: a proposal that is still fresh was asked for
in a state where *every* node was settled. Each action is then a change of the
work (`Works`) beside a change of the nodes (`Changes`), and `StepKeeps` puts
the two together; the two commits that open a run are proved on their own
(`OpeningKeeps`), because they change both at once. The invariant was
model-checked on the instance of `lifecycle` before it was proved.

*One controller.* `NothingLeftBehind` speaks of a host at rest, and says nothing
of the hundreds of states between two rests. `SoleInv(h)` does: whatever is
still to be done is in the chain of commits `h` is in, among the attempts it
observes, ahead of its `attach()` (or `h` is down, and `attach()` will come), or
in its adaptive pass (`SoleLive`, `SoleNode`). To stay true that needs what one
host's steps rely on. A node has at most one live attempt and no second
evaluation attempt (`SoleWork`), because the number counted before the commit is
the number at the commit (`SoleTask`). A proposal it waits for is still fresh
(`SolePass`) and cannot repeat an earlier one, since a node's proposal was made
when the node did not exist (`SoleOrigin`); so no pass ends by finding its
candidate taken and leaves a planned node behind. With two hosts neither is
true, and `AloneTerminalMeansStopped` fails without `Alone`
(`LifecycleTwoHosts.cfg`). `SoleInv` was model-checked on the instance of
`lifecycle` first.

*Recovery.* What a driver or an approved action learned of an attempt may be
many commits old when the successor is created, and the commit checks little of
it again. It stays true because nothing is rewritten: observations and plans of
an attempt are only appended (`Evolves`), and once it has a successor its
episode no longer changes. `RecoveryInv` therefore says of each attempt, action
and driver what it says *of the attempts* (`AttemptsIn`, `ActionsIn`,
`DriversIn`: an action was proposed on a plan that exists, a checkpoint in a
driver's hand is recorded), the `Growth` lemmas carry it over any step that
appends, and the commit itself needs only that the plan it consumed covers the
accepted incidents at that moment. The effective batch is a product kept by the
proposal, not by the successor. `RunEndsHonestly` of one process needs `AloneIn`
besides: of two drivers at most one is between two awaits, and the episode it
gives up is the latest one.

In every module the proof of the step has one lemma or step per action, and
under it one per part of the invariant that the action can disturb.

## 6. What is only model-checked, and what is left out

Out of the prover's reach: the liveness properties (`LeaseProgress`,
`SubmissionProgress`, `CancellationEnds`, `CancelSurvives`, `RayCancelReaches`,
`EventuallySealed`, `ExperimentsRest`, `RecoveryRests`, `SearchesEnd`,
`ClientsAnswered`, `PlanningRests`, `TrainingEnds`), and what needs an induction over
data: `SearchReproducible` replays a journal of any length.

Not proved so far, checked on the instances above: `TrainingPreserved` of recovery, whose directives are a sorted
selection of the interventions; everything about trajectories, the harness, the
daemon's requests and managed training.

Not modelled: the training library, the command line, HTTP API and studio (thin
callers or numerical code); row mapping and migrations; comparison of two
harnesses outside a search; checkpoint retention; the policy's rule language and
the expiry of approvals; Ray's `watch()` and logs; PAUSED experiments, which no
controller writes. Each is listed in `PROJECT.json` with its reason.

What remains is of two kinds. `TrainingPreserved`, `TrainingExact`, `RecordExact`,
`EvidenceHonest`, `RunsAgree` and the harness's properties compare sequences of
any length that folds, filters or re-drives compute; each is an induction over
data, and stays with TLC. `AnswersHonest`
is about finite control and could be proved with the method of section 5. So
could `RequestsHonest`, with the exceptions it states; without them it is false
(`DaemonRefused.cfg`).
