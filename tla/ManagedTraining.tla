--------------------------- MODULE ManagedTraining ---------------------------
(***************************************************************************)
(* A training run from the worker's loop to the controller's record, over  *)
(* several attempts: the native and the TRL worker (workers/native.py,     *)
(* workers/trl.py), the loop (trainer/loop.py), exact capture and restore  *)
(* (workers/native_checkpoint.py, checkpoints/), the observations file,    *)
(* the launcher that relays it into the event stream (runtimes/local/),    *)
(* and the controller that ingests the stream (_observe).                  *)
(*                                                                         *)
(* A sample is its position in the canonical order of the run, epoch * the *)
(* dataset's size + its place in the epoch's seeded permutation.  What a   *)
(* model is, is the sequence of the samples it was updated with, the steps *)
(* whose update a GradScaler skipped, the base learning rate and whether a *)
(* nonfinite update is in it.  A successor attempt is one step here;       *)
(* IncidentRecovery has how it is decided.                                 *)
(*                                                                         *)
(* Left out: cancellation (LocalRuntime), two controllers (Submission),    *)
(* RNG and scheduler state (captured and restored with the model's).       *)
(***************************************************************************)
EXTENDS Integers, Sequences, FiniteSets, SequencesExt

CONSTANTS
  Setups,       \* trainer, batch shape, epochs, options and faults of an experiment;
                \* scaled: it trains in fp16, where a GradScaler scales the loss
  MaxAttempts   \* bound: attempts of the run (max_attempts_per_run)

VARIABLES
  setup,
  attempt,   \* the current RunAttempt: number, batch shape, restore, directives
  worker,    \* the worker process
  model,     \* what it trains
  store,     \* published checkpoint bundles
  saved,     \* the declared model output is on disk
  obs,       \* the observations file: its complete lines
  torn,      \* it ends in a line that was cut off
  launcher,  \* the supervisor: where it is and what it has relayed
  events,    \* the event stream
  finished,  \* finished.json
  ctl,       \* the controller's observer task
  rec,       \* the durable record of the attempt
  history,   \* the durable record of the run: checkpoints, applications, ...
  faults

workerVars == <<worker, model, saved>>
fileVars == <<store, obs, torn, events, finished>>
vars == <<setup, attempt, workerVars, fileVars, launcher, ctl, rec, history, faults>>

-----------------------------------------------------------------------------
(* Samples and batches. *)

Effective(a) == a.micro * a.accum
Total == setup.size * setup.epochs

\* How many optimizer steps the run has.
LastStep ==
  LET all == Total \div Effective(attempt) IN
    IF setup.maxSteps > 0 /\ setup.maxSteps < all THEN setup.maxSteps ELSE all

Canonical(n) == [i \in 1..n |-> i - 1]

Empty == [seen |-> <<>>, skips |-> {}, lr |-> setup.lr, poison |-> FALSE, step |-> 0]

\* A worker that has not been started.
Unborn ==
  [pc |-> "unborn", epoch |-> 0, first |-> 0, base |-> 0, offset |-> 0, step |-> 0,
   window |-> <<>>, bad |-> FALSE, loss |-> TRUE, embodied |-> <<>>, todo |-> <<>>,
   why |-> "none", code |-> 0]

NewRecord ==
  [status |-> "queued", cursor |-> 0, generation |-> 0, metrics |-> {}, incidents |-> {},
   artifacts |-> {}, checkpoints |-> {}, outcome |-> "none"]

\* Managed: a checkpoint store is declared and something is to be captured or
\* restored.  The TRL worker knows of neither.
Managed == setup.trainer = "native" /\ setup.every > 0

\* _checkpoint_refusals: no bundles from a worker that cannot report them.
Compiles(s) == s.trainer = "trl" => s.every = 0

InitialAttempt(s) ==
  [number |-> 1, micro |-> s.micro, accum |-> s.accum, restore |-> <<>>, directives |-> <<>>]

Init ==
  /\ setup \in Setups /\ Compiles(setup)
  /\ attempt = InitialAttempt(setup)
  /\ worker = Unborn
  /\ model = Empty
  /\ store = {}
  /\ saved = FALSE
  /\ obs = <<>> /\ torn = FALSE
  /\ launcher = [pc |-> "spawn", relayed |-> 0, upto |-> 0, corrupt |-> FALSE]
  /\ events = <<>>
  /\ finished = "none"
  /\ ctl = [pc |-> "watch", pos |-> 0]
  /\ rec = NewRecord
  /\ history = [checkpoints |-> {}, applied |-> <<>>, lowered |-> 0, run |-> "active"]
  /\ faults = 0

-----------------------------------------------------------------------------
(* The worker: what it reports. *)

Alive == worker.pc \notin {"unborn", "exited"}

\* ObservationWriter.write and report(): one flushed line.
Report(o) == obs' = Append(obs, o) /\ UNCHANGED torn

Note(kind, detail) == [kind |-> kind, detail |-> detail]

At(s) == worker.pc = s

Outside == <<setup, attempt, launcher, events, finished, ctl, rec, history>>

\* setup.faults bounds errors, deaths and bad lines.
Fault == faults < setup.faults /\ faults' = faults + 1

\* An exception: main reports TrainingFailed with its reason, and raises.
FailsWith(why) == worker' = [worker EXCEPT !.pc = "failing", !.why = why]

-----------------------------------------------------------------------------
(* The worker: starting. *)

\* require_honourable_precision: the device computes in what was declared.
Precise == setup.trainer = "native" => setup.supported

\* verify_versions and verify_classification: a release somebody has classified.
Audited == setup.trainer = "trl" => setup.supported

\* The adapter's constructor: an epoch is made of whole optimizer windows.
WholeWindows == setup.size % Effective(attempt) = 0

\* main, up to the trainer's start.
Honourable ==
  /\ Precise /\ Audited
  /\ Managed => WholeWindows
  /\ attempt.directives # <<>> => Managed /\ attempt.restore # <<>>

Boot ==
  /\ At("boot")
  /\ IF ~Honourable THEN FailsWith("refused")
       ELSE worker' = [worker EXCEPT !.pc = IF attempt.restore = <<>> THEN "start" ELSE "restore"]
  /\ UNCHANGED <<model, saved, store, obs, torn, faults, Outside>>

Bundle(ref) == CHOOSE b \in store : b.ref = ref

\* verify: the file set, sizes and digests are the manifest's.
Verified(b) == b.intact

\* CheckpointManager.restore: the bundle is there and verifies; that it was made
\* for this candidate, data and order is so within a run.
Restorable(ref) == \E b \in store : b.ref = ref /\ Verified(b)

\* bind_restore: the cursor stands at a window of this attempt's batch shape.
Binds(ref) == Restorable(ref) /\ Bundle(ref).offset % Effective(attempt) = 0

\* bind_restore and the state it applies.
\* Mutant: the sampler starts the restored epoch from its beginning.
RestoreEpochOnly ==
  /\ At("restore")
  /\ IF ~Binds(attempt.restore)
       THEN FailsWith("refused") /\ UNCHANGED model
       ELSE LET b == Bundle(attempt.restore) IN
              /\ model' = b.model
              /\ worker' = [worker EXCEPT !.pc = "direct", !.epoch = b.epoch, !.first = b.epoch,
                              !.base = 0, !.embodied = b.embodied, !.todo = attempt.directives]
  /\ UNCHANGED <<saved, store, obs, torn, faults, Outside>>

Restore ==
  /\ At("restore")
  /\ IF ~Binds(attempt.restore)
       THEN FailsWith("refused") /\ UNCHANGED model
       ELSE LET b == Bundle(attempt.restore) IN
              /\ model' = b.model
              /\ worker' = [worker EXCEPT !.pc = "direct", !.epoch = b.epoch, !.first = b.epoch,
                              !.base = b.offset, !.embodied = b.embodied,
                              !.todo = attempt.directives]
  /\ UNCHANGED <<saved, store, obs, torn, faults, Outside>>

\* apply_directives: one directed learning rate, if the restored base rate is
\* the one it expects; reported as it is applied.
Direct ==
  /\ At("direct")
  /\ IF worker.todo = <<>>
       THEN worker' = [worker EXCEPT !.pc = "start"] /\ UNCHANGED <<model, obs, torn>>
       ELSE LET d == Head(worker.todo) IN
              IF d.from # model.lr
                THEN FailsWith("refused") /\ UNCHANGED <<model, obs, torn>>
                ELSE /\ model' = [model EXCEPT !.lr = d.to]
                     /\ worker' = [worker EXCEPT !.todo = Tail(@), !.embodied = Append(@, d)]
                     /\ Report(Note("applied", d))
  /\ UNCHANGED <<saved, store, faults, Outside>>

-----------------------------------------------------------------------------
(* The worker: the training loop. *)

\* train_start.
TrainStart ==
  /\ At("start")
  /\ Report(Note("started", model.step))
  /\ worker' = [worker EXCEPT !.pc = "epoch"]
  /\ UNCHANGED <<model, saved, store, faults, Outside>>

\* epoch_start: the restored epoch goes on from its offset, the others from 0.
EpochStart ==
  /\ At("epoch")
  /\ IF worker.epoch = setup.epochs THEN worker' = [worker EXCEPT !.pc = "ended"]
       ELSE worker' = [worker EXCEPT !.pc = "batch", !.step = 0,
                         !.offset = IF worker.epoch = worker.first THEN worker.base ELSE 0]
  /\ UNCHANGED <<model, saved, store, obs, torn, faults, Outside>>

NextSample == worker.offset + worker.step * attempt.micro

\* The loader has no batch left: epoch_end.
EpochEnd ==
  /\ At("batch") /\ NextSample >= setup.size
  /\ worker' = [worker EXCEPT !.pc = "epoch", !.epoch = @ + 1]
  /\ UNCHANGED <<model, saved, store, obs, torn, faults, Outside>>

\* What step_end is told: of the last micro-batch's loss; by TRL of the window's.
LossFinite(last, bad) == IF setup.trainer = "trl" THEN ~bad ELSE last

\* GradScaler.step updates nothing with a gradient that is not finite, which a
\* scaled one may be although the loss is.
Skips(bad) == IF ~setup.scaled THEN {FALSE} ELSE IF bad THEN {TRUE} ELSE BOOLEAN

\* training_step: one micro-batch; the update comes with the last of a window,
\* or is skipped, and the step is counted either way.  A loss is nonfinite by
\* misfortune, or because the model already is.
MicroBatch ==
  /\ At("batch") /\ NextSample < setup.size
  /\ \E finite \in BOOLEAN :
       /\ IF finite THEN ~model.poison /\ UNCHANGED faults
            ELSE IF model.poison THEN UNCHANGED faults ELSE Fault
       /\ LET batch == [i \in 1..attempt.micro |-> worker.epoch * setup.size + NextSample + i - 1]
              window == worker.window \o batch
              bad == worker.bad \/ ~finite
          IN
            IF Len(window) < Effective(attempt)
              THEN /\ worker' = [worker EXCEPT !.step = @ + 1, !.window = window, !.bad = bad]
                   /\ UNCHANGED model
              ELSE /\ worker' = [worker EXCEPT !.pc = "stepEnd", !.step = @ + 1,
                                   !.window = <<>>, !.bad = FALSE,
                                   !.loss = LossFinite(finite, bad)]
                   /\ \E skipped \in Skips(bad) :
                        IF skipped
                          THEN model' = [model EXCEPT !.step = @ + 1,
                                                      !.skips = @ \cup {model.step + 1}]
                          ELSE model' = [model EXCEPT !.step = @ + 1, !.seen = @ \o window,
                                                      !.poison = @ \/ bad]
  /\ UNCHANGED <<saved, store, obs, torn, Outside>>

\* The device runs out of memory in a training step.  The worker's exception
\* says so without naming the device, which diagnoses nothing; a cuda-oom
\* incident is reported beside it, if there is one, by code outside the workers.
OutOfMemory ==
  /\ At("batch") /\ NextSample < setup.size
  /\ Fault
  /\ FailsWith("memory")
  /\ \/ Report(Note("incident", "cuda-oom"))
     \/ UNCHANGED <<obs, torn>>
  /\ UNCHANGED <<model, saved, store, Outside>>

\* _capture refuses to go on from an update that was skipped.
SkippedUpdate == Managed /\ model.step \in model.skips

Due == Managed /\ model.step % setup.every = 0

\* step_end, in the order the callbacks were registered: the observation, the
\* numerical guard, then capture.
StepEnd ==
  /\ At("stepEnd")
  /\ Report(Note(IF worker.loss THEN "metric" ELSE "nonfinite", model.step))
  /\ IF setup.armed /\ ~worker.loss THEN FailsWith("numerical")
       ELSE IF SkippedUpdate THEN FailsWith("skipped")
       ELSE worker' = [worker EXCEPT !.pc = IF Due THEN "publish" ELSE "after"]
  /\ UNCHANGED <<model, saved, store, faults, Outside>>

\* capture: all that training goes on from.
Capture(offset) ==
  [ref |-> <<attempt.number, model.step>>, intact |-> TRUE, epoch |-> worker.epoch,
   offset |-> offset, model |-> model, embodied |-> worker.embodied, finite |-> worker.loss]

\* put_staging and commit: the bundle exists from the rename on, and nobody lists
\* what was only staged.
Stage ==
  /\ At("publish")
  /\ worker' = [worker EXCEPT !.pc = "rename"]
  /\ UNCHANGED <<model, saved, store, obs, torn, faults, Outside>>

Publish ==
  /\ At("rename")
  /\ store' = store \cup {Capture(NextSample)}
  /\ worker' = [worker EXCEPT !.pc = "announce"]
  /\ UNCHANGED <<model, saved, obs, torn, faults, Outside>>

\* The bundle cannot be written, or read back: an exception out of step_end.
PublishFails ==
  /\ worker.pc \in {"publish", "rename", "announce"}
  /\ Fault
  /\ FailsWith("checkpoint")
  /\ UNCHANGED <<model, saved, store, obs, torn, Outside>>

\* The committed payload is written once the bundle has been read back and
\* verifies; one that does not is there and is never reported.
Announce ==
  /\ At("announce")
  /\ IF Verified(Bundle(<<attempt.number, model.step>>))
       THEN /\ Report(Note("checkpoint", <<attempt.number, model.step>>))
            /\ worker' = [worker EXCEPT !.pc = "after"]
       ELSE FailsWith("checkpoint") /\ UNCHANGED <<obs, torn>>
  /\ UNCHANGED <<model, saved, store, faults, Outside>>

\* The loop goes on until max_steps.
AfterStep ==
  /\ At("after")
  /\ worker' = [worker EXCEPT !.pc = IF setup.maxSteps > 0 /\ model.step >= setup.maxSteps
                                       THEN "ended" ELSE "batch"]
  /\ UNCHANGED <<model, saved, store, obs, torn, faults, Outside>>

TrainEnd ==
  /\ At("ended")
  /\ Report(Note("completed", model.step))
  /\ worker' = [worker EXCEPT !.pc = "save"]
  /\ UNCHANGED <<model, saved, store, faults, Outside>>

-----------------------------------------------------------------------------
(* The worker: its ending. *)

\* publish_model: written, confirmed to exist, and only then reported.  A save
\* may raise, or return having written nothing.
SaveModel ==
  /\ At("save")
  /\ \E written \in BOOLEAN :
       /\ IF written THEN UNCHANGED faults ELSE Fault
       /\ saved' = written
       /\ Report(Note(IF written THEN "artifact" ELSE "incident",
                      IF written THEN attempt.number ELSE "publication"))
       /\ worker' = [worker EXCEPT !.pc = "exited", !.code = IF written THEN 0 ELSE 1]
  /\ UNCHANGED <<model, store, Outside>>

\* TrainingFailed is reported at the boundary, and the exception goes on.
Fail ==
  /\ At("failing")
  /\ Report(Note("failed", worker.why))
  /\ worker' = [worker EXCEPT !.pc = "exited", !.code = 1]
  /\ UNCHANGED <<model, saved, store, faults, Outside>>

\* The process dies anywhere, and may leave a line it had begun.
Killed ==
  /\ Alive
  /\ Fault
  /\ worker' = [worker EXCEPT !.pc = "exited", !.code = -9]
  /\ torn' \in BOOLEAN
  /\ UNCHANGED <<model, saved, store, obs, Outside>>

\* The worker's code writes something that is not a record.
Garble ==
  /\ Alive
  /\ Fault
  /\ Report(Note("garbled", 0))
  /\ UNCHANGED <<worker, model, saved, store, Outside>>

\* A bundle loses its bytes.
Rot ==
  /\ Fault
  /\ \E b \in store :
       b.intact /\ store' = (store \ {b}) \cup {[b EXCEPT !.intact = FALSE]}
  /\ UNCHANGED <<workerVars, obs, torn, Outside>>

WorkerStep ==
  \/ Boot \/ Restore \/ Direct \/ TrainStart \/ EpochStart \/ EpochEnd \/ MicroBatch
  \/ StepEnd \/ Stage \/ Publish \/ Announce \/ AfterStep \/ TrainEnd \/ SaveModel \/ Fail

WorkerFault == OutOfMemory \/ PublishFails \/ Killed \/ Garble \/ Rot

-----------------------------------------------------------------------------
(* The launcher. *)

OutsideLauncher == <<setup, attempt, model, saved, store, obs, torn, ctl, rec, history>>

LAt(s) == launcher.pc = s

Emit(o) == events' = Append(events, o)

\* supervise_workload: the worker exists before WorkerReady is written.
Spawn ==
  /\ LAt("spawn")
  /\ launcher' = [launcher EXCEPT !.pc = "ready"]
  /\ worker' = [worker EXCEPT !.pc = "boot"]
  /\ UNCHANGED <<events, finished, faults, OutsideLauncher>>

Ready ==
  /\ LAt("ready")
  /\ launcher' = [launcher EXCEPT !.pc = "poll"]
  /\ Emit(Note("ready", 0))
  /\ UNCHANGED <<worker, finished, faults, OutsideLauncher>>

\* child.poll(): while it runs, relay; once it has exited, read once more.
Poll ==
  /\ LAt("poll")
  /\ worker.pc = "exited"
  /\ launcher' = [launcher EXCEPT !.pc = "drain", !.upto = Len(obs)]
  /\ UNCHANGED <<worker, events, finished, faults, OutsideLauncher>>

\* read_new: a batch of the lines that are complete now.
ReadNew ==
  /\ LAt("poll")
  /\ launcher.relayed < Len(obs)
  /\ launcher' = [launcher EXCEPT !.pc = "relay", !.upto = Len(obs)]
  /\ UNCHANGED <<worker, events, finished, faults, OutsideLauncher>>

Relaying == LAt("relay") \/ LAt("drain")

\* relay_observations: the valid records in their order, ...
Relay ==
  /\ Relaying
  /\ launcher.relayed < launcher.upto
  /\ LET o == obs[launcher.relayed + 1] IN
       IF o.kind = "garbled"
         THEN launcher' = [launcher EXCEPT !.relayed = @ + 1, !.corrupt = TRUE] /\ UNCHANGED events
         ELSE launcher' = [launcher EXCEPT !.relayed = @ + 1] /\ Emit(o)
  /\ UNCHANGED <<worker, finished, faults, OutsideLauncher>>

\* ... then one incident for all the lines of the batch that were not records.
RelayCorrupt ==
  /\ Relaying
  /\ launcher.relayed = launcher.upto /\ launcher.corrupt
  /\ launcher' = [launcher EXCEPT !.corrupt = FALSE]
  /\ Emit(Note("incident", "corrupt"))
  /\ UNCHANGED <<worker, finished, faults, OutsideLauncher>>

\* _supervise and the end of supervise_workload, an event or none at each step.
\* Mutant: the last batch is what was there before the exit was seen.
RelayedWithoutDrain ==
  /\ Relaying
  /\ launcher.relayed = launcher.upto /\ ~launcher.corrupt
  /\ launcher' = [launcher EXCEPT !.pc = IF worker.pc = "exited" THEN "torn" ELSE "poll"]
  /\ UNCHANGED <<worker, events, finished, faults, OutsideLauncher>>

Relayed ==
  /\ Relaying
  /\ launcher.relayed = launcher.upto /\ ~launcher.corrupt
  /\ launcher' = [launcher EXCEPT !.pc = IF LAt("drain") THEN "torn" ELSE "poll"]
  /\ UNCHANGED <<worker, events, finished, faults, OutsideLauncher>>

Truncated ==
  /\ LAt("torn")
  /\ launcher' = [launcher EXCEPT !.pc = "code"]
  /\ IF torn THEN Emit(Note("incident", "truncated")) ELSE UNCHANGED events
  /\ UNCHANGED <<worker, finished, faults, OutsideLauncher>>

Exit ==
  /\ LAt("code")
  /\ launcher' = [launcher EXCEPT !.pc = "finish"]
  /\ IF worker.code # 0 THEN Emit(Note("incident", "process")) ELSE UNCHANGED events
  /\ UNCHANGED <<worker, finished, faults, OutsideLauncher>>

Finish ==
  /\ LAt("finish")
  /\ launcher' = [launcher EXCEPT !.pc = "gone"]
  /\ finished' = IF worker.code = 0 THEN "succeeded" ELSE "failed"
  /\ UNCHANGED <<worker, events, faults, OutsideLauncher>>

\* The launcher dies; its worker runs on unobserved.
LauncherDies ==
  /\ ~LAt("spawn") /\ ~LAt("gone")
  /\ Fault
  /\ launcher' = [launcher EXCEPT !.pc = "gone"]
  /\ UNCHANGED <<worker, events, finished, OutsideLauncher>>

LauncherStep ==
  \/ Spawn \/ Ready \/ Poll \/ ReadNew \/ Relay \/ RelayCorrupt \/ Relayed \/ Truncated
  \/ Exit \/ Finish

-----------------------------------------------------------------------------
(* The controller: ingesting the stream. *)

OutsideController == <<setup, attempt, workerVars, fileVars, launcher>>

CAt(s) == ctl.pc = s

Failures == {"failed", "incident", "nonfinite"}

\* IncidentClassifier: what one event is evidence of.
Category(e) ==
  CASE e.kind = "nonfinite" -> "numerical"
    [] e.kind = "failed" /\ e.detail = "numerical" -> "numerical"
    [] e.kind = "incident" /\ e.detail = "cuda-oom" -> "oom"
    [] e.kind = "incident" /\ e.detail = "process" -> "process"
    [] OTHER -> "unknown"

Path == <<"queued", "starting", "running">>

Rank(s) == CHOOSE i \in DOMAIN Path : Path[i] = s

\* _advance_attempt: forward only, and the cursor with the last step.
Advance(target, i) ==
  IF rec.outcome # "none" \/ Rank(rec.status) >= Rank(target) THEN rec
    ELSE [rec EXCEPT !.status = target, !.cursor = i]

\* record_artifact, record_checkpoint, record_incident: with the cursor.
Keep(field, i) ==
  IF i \in rec[field] THEN rec ELSE [rec EXCEPT ![field] = @ \cup {i}, !.cursor = i]

\* record_metric_points: points are evidence, and leave the cursor where it is.
KeepPoints(i) == [rec EXCEPT !.metrics = @ \cup {i}]

Embodied(ref) == IF ref = <<>> THEN {} ELSE {d.id : d \in ToSet(Bundle(ref).embodied)}

Trajectory(ref) == SelectSeq(history.applied, LAMBDA a : a.id \in Embodied(ref))

RateAfter(seq) == IF seq = <<>> THEN setup.lr ELSE seq[Len(seq)].to

\* _effective_learning_rate: of what the attempt restored and then applied.
RecordedRate ==
  RateAfter(SelectSeq(history.applied,
              LAMBDA a : a.id \in Embodied(attempt.restore) \/ a.id[1] = attempt.number))

Confirmed == {history.applied[i].id : i \in DOMAIN history.applied}

\* record_intervention_application: only for a directive of this attempt, at the
\* rate the record has for its trajectory; a replay moves the cursor alone.
KeepApplied(d, i) ==
  IF d.id \in Confirmed THEN rec' = [rec EXCEPT !.cursor = i] /\ UNCHANGED history
    ELSE IF d.from # RecordedRate THEN UNCHANGED <<rec, history>>
    ELSE /\ rec' = [rec EXCEPT !.cursor = i]
         /\ history' = [history EXCEPT !.applied = Append(@, d)]

Pending == rec.generation = 0 /\ ctl.pos < Len(events)

\* One event of the stream.
Ingest ==
  /\ CAt("watch") /\ Pending
  /\ LET i == ctl.pos + 1
         e == events[i]
     IN
       \/ e.kind = "ready" /\ rec' = Advance("starting", i) /\ UNCHANGED history
       \/ e.kind = "started" /\ rec' = Advance("running", i) /\ UNCHANGED history
       \/ e.kind = "artifact" /\ rec' = Keep("artifacts", i) /\ UNCHANGED history
       \/ e.kind = "applied" /\ KeepApplied(e.detail, i)
       \/ /\ e.kind = "checkpoint"
          /\ rec' = Keep("checkpoints", i)
          /\ history' = [history EXCEPT !.checkpoints = @ \cup {[ref |-> e.detail, at |-> i]}]
       \/ e.kind = "metric" /\ rec' = KeepPoints(i) /\ UNCHANGED history
       \/ e.kind \in Failures /\ rec' = Keep("incidents", i) /\ UNCHANGED history
       \/ e.kind = "completed" /\ UNCHANGED <<rec, history>>
  /\ ctl' = [ctl EXCEPT !.pos = @ + 1]
  /\ UNCHANGED <<faults, OutsideController>>

-----------------------------------------------------------------------------
(* The controller: the end of the stream, and of the attempt. *)

\* The runtime's status: an outcome once finished.json is there, live while the
\* worker or its supervisor is, and unknown otherwise.
RuntimeStatus ==
  IF finished # "none" THEN finished
    ELSE IF Alive \/ ~LAt("gone") THEN "live" ELSE "unknown"

\* _stream_ended, and the last pass over the file.  Of a supervisor that is gone
\* over a live workload the record says so: record_telemetry_degraded.
StreamEnds ==
  /\ CAt("watch") /\ ~Pending
  /\ LAt("gone")
  /\ ctl' = [ctl EXCEPT !.pc = "outcome"]
  /\ rec' = IF RuntimeStatus = "live" THEN [rec EXCEPT !.generation = 1] ELSE rec
  /\ UNCHANGED <<history, faults, OutsideController>>

\* intervention_directives.unconfirmed_for_attempt.
Unconfirmed == {d \in ToSet(attempt.directives) : d.id \notin Confirmed}

Categories == {Category(events[i]) : i \in rec.incidents}

\* There is an incident that recovery answers.
Answerable == "oom" \in Categories \/ (setup.armed /\ "numerical" \in Categories)

\* Recovery may go on with this run: the host has a checkpoint manager.
Recoverable == setup.every > 0 /\ Answerable

\* What is left of _observe, once the workload has ended: _settle commits the
\* attempt's outcome, ...
Settle ==
  /\ CAt("outcome")
  /\ RuntimeStatus \in {"succeeded", "failed"}
  /\ rec' = [rec EXCEPT !.outcome = RuntimeStatus]
  /\ ctl' = [ctl EXCEPT !.pc = IF RuntimeStatus = "failed" /\ Recoverable
                                 THEN "recover" ELSE "close"]
  /\ UNCHANGED <<history, faults, OutsideController>>

\* ... then, in a transaction of its own, the run's.
Close ==
  /\ CAt("close")
  /\ history' = [history EXCEPT !.run =
                   IF rec.outcome = "succeeded" /\ Unconfirmed = {} THEN "succeeded" ELSE "failed"]
  /\ ctl' = [ctl EXCEPT !.pc = "done"]
  /\ UNCHANGED <<rec, faults, OutsideController>>

\* Nothing observed how it ended: left unsettled rather than guessed.
Escalate ==
  /\ CAt("outcome")
  /\ RuntimeStatus = "unknown"
  /\ ctl' = [ctl EXCEPT !.pc = "escalated"]
  /\ UNCHANGED <<rec, history, faults, OutsideController>>

-----------------------------------------------------------------------------
(* The controller: the next attempt. *)

\* checkpoint_report_problem.
Eligible(c) ==
  \A i \in rec.incidents :
    /\ c.ref[1] = attempt.number => c.at < i
    /\ events[i].kind = "nonfinite" => c.ref[2] <= events[i].detail

\* select_restore_checkpoint: the newest of the run whose bytes validate.
Candidates == {c.ref : c \in {k \in history.checkpoints : Eligible(k) /\ Restorable(k.ref)}}

Newest == {r \in Candidates :
             \A s \in Candidates : s[2] < r[2] \/ (s[2] = r[2] /\ s[1] <= r[1])}

\* plan_intervention_directives: what the restored state does not embody is
\* applied again, in its order, then what is new.
Dropped(ref) ==
  LET kept == {a.iv : a \in ToSet(Trajectory(ref))}
      firsts == {i \in DOMAIN history.applied :
                   /\ history.applied[i].iv \notin kept
                   /\ \A j \in 1..(i - 1) : history.applied[j].iv # history.applied[i].iv}
  IN [k \in 1..Cardinality(firsts) |-> history.applied[SetToSortSeq(firsts, <)[k]].iv]

\* An intervention lowers the rate of the run by one notch.
Directives(ref, new) ==
  LET ivs == Dropped(ref) \o new
      base == RateAfter(Trajectory(ref))
  IN [k \in DOMAIN ivs |->
        [id |-> <<attempt.number + 1, k>>, iv |-> ivs[k],
         from |-> IF k = 1 THEN base ELSE ivs[k - 1], to |-> ivs[k]]]

\* OOMRecoveryPlanner keeps the effective batch; NumericalRecoveryPlanner keeps
\* the shape and lowers the rate.
Oom == "oom" \in Categories

Resizable == attempt.micro > 1

NextAttempt(ref) ==
  [number |-> attempt.number + 1,
   micro |-> IF Oom THEN attempt.micro \div 2 ELSE attempt.micro,
   accum |-> IF Oom THEN attempt.accum * 2 ELSE attempt.accum,
   restore |-> ref,
   directives |-> Directives(ref, IF Oom THEN <<>> ELSE <<history.lowered + 1>>)]

Succeeds(ref) ==
  /\ attempt' = NextAttempt(ref)
  /\ history' = [history EXCEPT !.lowered = IF Oom THEN @ ELSE @ + 1]
  /\ worker' = Unborn /\ model' = Empty /\ saved' = FALSE
  /\ obs' = <<>> /\ torn' = FALSE /\ events' = <<>> /\ finished' = "none"
  /\ launcher' = [pc |-> "spawn", relayed |-> 0, upto |-> 0, corrupt |-> FALSE]
  /\ ctl' = [pc |-> "watch", pos |-> 0]
  /\ rec' = NewRecord

Recover ==
  /\ CAt("recover")
  /\ \/ /\ attempt.number < MaxAttempts /\ (Oom => Resizable)
        /\ \E ref \in Newest : Succeeds(ref)
     \/ /\ attempt.number = MaxAttempts \/ (Oom /\ ~Resizable) \/ Newest = {}
        /\ history' = [history EXCEPT !.run = "failed"]
        /\ ctl' = [ctl EXCEPT !.pc = "done"]
        /\ UNCHANGED <<attempt, workerVars, obs, torn, events, finished, launcher, rec>>
  /\ UNCHANGED <<setup, store, faults>>

\* The controller's process dies, and another attaches.
ControllerDies ==
  /\ ~CAt("down")
  /\ Fault
  /\ ctl' = [pc |-> "down", pos |-> 0]
  /\ UNCHANGED <<rec, history, OutsideController>>

\* Mutant: an attempt that has settled is not looked at again.
AttachUnsettled ==
  /\ CAt("down")
  /\ ctl' = [pc |-> IF rec.outcome # "none" THEN "done" ELSE "watch", pos |-> rec.cursor]
  /\ UNCHANGED <<rec, history, faults, OutsideController>>

\* _reconcile, of a run that is active over an attempt that has settled: only a
\* failed one is looked at, and only by the recovery drivers, which close the
\* run when there is no checkpoint manager and return when there is nothing to
\* answer.
Reconciled ==
  IF rec.outcome # "failed" \/ ~Answerable THEN "stranded"
    ELSE IF Recoverable THEN "recover" ELSE "close"

Attach ==
  /\ CAt("down")
  /\ ctl' = [pc |-> IF history.run # "active" THEN "done"
                      ELSE IF rec.outcome = "none" THEN "watch" ELSE Reconciled,
             pos |-> rec.cursor]
  /\ UNCHANGED <<rec, history, faults, OutsideController>>

ControllerStep == Ingest \/ StreamEnds \/ Settle \/ Close \/ Escalate \/ Recover \/ Attach

Over == CAt("done") \/ CAt("escalated") \/ CAt("stranded")

Done == Over /\ worker.pc \in {"unborn", "exited"} /\ LAt("gone") /\ UNCHANGED vars

Next ==
  \/ WorkerStep \/ WorkerFault \/ LauncherStep \/ LauncherDies
  \/ ControllerStep \/ ControllerDies \/ Done

\* A worker that is not killed goes on, and so do its supervisor and a
\* controller; a controller that died is started again.
Fairness == WF_vars(WorkerStep) /\ WF_vars(LauncherStep) /\ WF_vars(ControllerStep)

Spec == Init /\ [][Next]_vars /\ Fairness

-----------------------------------------------------------------------------
(* Properties. *)

TypeOK ==
  /\ setup \in Setups
  /\ attempt.number \in 1..MaxAttempts
  /\ Effective(attempt) = setup.micro * setup.accum
  /\ model.step \in 0..Total
  /\ launcher.relayed \in 0..Len(obs) /\ launcher.upto \in 0..Len(obs)
  /\ rec.cursor \in 0..Len(events)
  /\ history.run \in {"active", "succeeded", "failed"}
  /\ faults \in 0..setup.faults

\* However often a run was interrupted, restored from and reshaped, its model
\* has been updated with every sample of its order once and in that order, but
\* for the windows whose update the GradScaler skipped.
ExactResume ==
  model.seen = SelectSeq(Canonical(model.step * Effective(attempt)),
                         LAMBDA x : x \div Effective(attempt) + 1 \notin model.skips)

\* A bundle's cursor is where its model stands in the order of samples, all of
\* which it has been updated with, its interventions are those its rate comes
\* from, and with recovery armed no step that was reported nonfinite has one.
BundlesHonest ==
  \A b \in store :
    /\ b.epoch * setup.size + b.offset = Len(b.model.seen)
    /\ b.ref[2] = b.model.step
    /\ b.model.lr = RateAfter(b.embodied)
    /\ setup.armed => b.finite

\* A run recorded as succeeded trained to its last step, without skipping an
\* update if it may be restored, at the rate the record derives for it, with each
\* directed intervention confirmed, and its model is
\* on disk and recorded.
SuccessIsWhole ==
  history.run = "succeeded" =>
    /\ model.step = LastStep
    /\ Managed => model.skips = {}
    /\ model.lr = RecordedRate
    /\ Unconfirmed = {}
    /\ saved
    /\ rec.artifacts # {} \/ rec.generation = 1

TrainingExact == TypeOK /\ ExactResume /\ BundlesHonest /\ SuccessIsWhole

\* What the record holds of the events up to i.
Holds(i) ==
  /\ {j \in 1..i : events[j].kind \in Failures} \subseteq rec.incidents
  /\ {j \in 1..i : events[j].kind = "checkpoint"} \subseteq rec.checkpoints
  /\ {j \in 1..i : events[j].kind = "artifact"} \subseteq rec.artifacts
  /\ {j \in 1..i : events[j].kind = "metric"} \subseteq rec.metrics

\* Every event up to the durable cursor is in the record, wherever a controller
\* died, and what is in the record was reported.
CursorHonest ==
  /\ Holds(rec.cursor)
  /\ rec.incidents \cup rec.checkpoints \cup rec.artifacts \cup rec.metrics
       \subseteq DOMAIN events
  /\ \A c \in history.checkpoints : \E b \in store : b.ref = c.ref

\* Once there is an outcome, every valid line the worker wrote has become one
\* event, in its order, and an attempt that settles without a gap in its stream
\* has all of it on record.
NothingLost ==
  /\ finished # "none" =>
       SelectSeq(events, LAMBDA e : e \notin {Note("ready", 0), Note("incident", "corrupt"),
                                              Note("incident", "truncated"),
                                              Note("incident", "process")})
         = SelectSeq(obs, LAMBDA o : o.kind # "garbled")
  /\ rec.outcome # "none" /\ rec.generation = 0 => Holds(Len(events))

RecordExact == CursorHonest /\ NothingLost

\* A run ends, or its ending is escalated, whoever dies on the way, but for a
\* controller that dies between _settle's two commits: the attempt has settled
\* then, and the one that attaches finds nothing to do for a run that succeeded,
\* or failed of what recovery does not answer.
RunEnds == <>[](history.run # "active" \/ CAt("escalated") \/ CAt("stranded"))
=============================================================================
