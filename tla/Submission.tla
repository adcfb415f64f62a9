----------------------------- MODULE Submission -----------------------------
(***************************************************************************)
(* How an attempt's workload is started exactly once, observed and settled *)
(* whatever crashes: EmbeddedControllerHost._issue, _adopt, _observe,      *)
(* _observe_evaluation, _settle, _settle_evaluation, attach, _reconcile    *)
(* and _reconcile_submission (experiment/host.py) over the journal of      *)
(* storage/control_plane.py and an external runtime (RuntimeContract).     *)
(*                                                                         *)
(* An operation id names the attempt it submits, so Operations is also the *)
(* set of attempts; each is the attempt of one logical run.  A controller  *)
(* is a process: a daemon, fenced by its lease (ControllerLease), or one   *)
(* of several embedded hosts on one database, which nothing fences.  Its   *)
(* coroutines are its program counters, one per attempt; a step ends where *)
(* the code awaits or commits, so another process may come in between.     *)
(*                                                                         *)
(* Left out: recovery from an incident and training interventions, under   *)
(* which a failed attempt's run stays open for a successor and a run may   *)
(* fail although its attempt succeeded.                                    *)
(***************************************************************************)
EXTENDS RuntimeContract

CONSTANTS
  Controllers,
  Evaluations,   \* the attempts that evaluate; the others train
  Fenced,        \* controllers are daemons, under the controller lease
  MaxCrashes,    \* bound: processes that die or lose the lease alive
  MaxErrors      \* bound: runtime calls that raise something else than a refusal

ASSUME SubmissionAssumption ==
  /\ Evaluations \subseteq Operations
  /\ Fenced \in BOOLEAN
  /\ MaxCrashes \in Nat
  /\ MaxErrors \in Nat

VARIABLES
  sub,       \* the submit RuntimeOperation's state
  att,       \* RunAttempt.status / EvaluationAttempt.status
  run,       \* Run.status / EvaluationRun.status
  report,    \* EvaluationCompleted: none, emitted by the worker, or held durably,
             \* and then usable or not (no metrics, or not attributable to its run)
  degraded,  \* the telemetry stream is gone, so nothing more is read from it
  up,        \* the controller process is alive
  owner,     \* who holds the lease (read only when Fenced)
  pc,        \* where each controller is with each attempt
  seen,      \* the outcome it read, on its way to the record
  transit,   \* submit_or_get requests not yet received by the runtime
  crashes,
  errors

journalVars == <<sub, att, run, report>>
hostVars == <<up, owner, pc, seen>>
boundVars == <<crashes, errors>>
vars == <<runtimeVars, journalVars, degraded, hostVars, transit, boundVars>>

\* CREATED, then _ATTEMPT_PATH and _EVALUATION_PATH, in order.
Rank == [created |-> 0, queued |-> 1, starting |-> 2, running |-> 3]
Live == {"created", "queued", "starting", "running"}
Ended == {"succeeded", "failed", "cancelled", "preempted"}

Steps == {"idle", "todo", "begun", "issue", "sent", "accepted", "refused", "lookup",
          "adopt", "watch", "result", "settle", "settleRun", "after"}

\* Between these and the coroutine's next await nothing else of its process
\* runs (asyncio); other processes do.
Sync == {"begun", "issue", "adopt", "result", "settle", "settleRun", "after"}

TypeOK ==
  /\ RuntimeTypeOK
  /\ sub \in [Operations -> {"none", "intended", "confirmed", "failed"}]
  /\ att \in [Operations -> {"none"} \cup Live \cup Ended]
  /\ run \in [Operations -> {"none", "active", "succeeded", "failed", "cancelled"}]
  /\ report \in [Operations -> {"none", "emitted", "usable", "unusable"}]
  /\ degraded \in [Operations -> BOOLEAN]
  /\ up \in [Controllers -> BOOLEAN]
  /\ owner \in Controllers
  /\ pc \in [Controllers -> [Operations -> Steps]]
  /\ seen \in [Controllers -> [Operations -> Ended]]
  /\ transit \subseteq Controllers \X Operations
  /\ crashes \in 0..MaxCrashes
  /\ errors \in 0..MaxErrors

Init ==
  /\ RuntimeInit
  /\ sub = [o \in Operations |-> "none"]
  /\ att = [o \in Operations |-> "none"]
  /\ run = [o \in Operations |-> "none"]
  /\ report = [o \in Operations |-> "none"]
  /\ degraded = [o \in Operations |-> FALSE]
  /\ up = [c \in Controllers |-> ~Fenced]
  /\ owner \in Controllers
  /\ pc = [c \in Controllers |-> [o \in Operations |-> "idle"]]
  /\ seen = [c \in Controllers |-> [o \in Operations |-> "failed"]]
  /\ transit = {}
  /\ crashes = 0
  /\ errors = 0

-----------------------------------------------------------------------------
(* Helpers. *)

\* A controller write commits: under a lease only the owner's does
\* (ControllerLease!FencedWrites); embedded hosts are not fenced.
MayWrite(c) == up[c] /\ (Fenced => owner = c)

\* _advance_attempt: forward along the path, a late observation is a no-op.
\* Mutant: the observation is applied whatever the record says.
AdvanceBlindly(o, target) == target

Advance(o, target) ==
  IF att[o] \in Live /\ Rank[att[o]] < Rank[target] THEN target ELSE att[o]

\* _RUNTIME_OUTCOME and _EVALUATION_OUTCOME: the run's side of an ending.
RunOutcome(s) == IF s = "preempted" THEN "failed" ELSE s

\* What _observe and _observe_evaluation conclude from the runtime's status;
\* "escalate" when nothing may be recorded.  An evaluation whose workload
\* succeeded has a result only if the record holds a completion with metrics that
\* _record_evaluation_result can attribute to the run; otherwise it FAILED.
Conclude(o, s) ==
  IF s = "unknown" \/ (s = "preempted" /\ o \notin Evaluations) THEN "escalate"
  ELSE IF s = "succeeded" /\ o \in Evaluations /\ report[o] # "usable" THEN "failed"
  ELSE s

Waits(c, o) == up[c] /\ pc[c][o] = "sent"

At(c, o, s) ==
  /\ up[c] /\ pc[c][o] = s
  /\ \A p \in Operations \ {o} : pc[c][p] \notin Sync

Goto(c, o, s) == pc' = [pc EXCEPT ![c][o] = s]

\* An exception leaves the coroutine; one that runs under attach() takes the
\* rest of the reconciliation with it.
Abandon(c, o) ==
  pc' = [pc EXCEPT ![c] = [p \in Operations |->
           IF p = o \/ pc[c][p] = "todo" THEN "idle" ELSE pc[c][p]]]


-----------------------------------------------------------------------------
(* Submitting: the intent is committed, then the runtime is called. *)

\* _create_with_submit_intent: an attempt exists from its intent on.
CreateWithIntent(o) ==
  /\ att' = [att EXCEPT ![o] = "created"]
  /\ sub' = [sub EXCEPT ![o] = "intended"]

\* _submit, admit_experiment and realize_planned_node: the training run, its
\* attempt and the INTENDED submit in one commit.
Admit(c, o) ==
  /\ MayWrite(c)
  /\ At(c, o, "idle")
  /\ o \notin Evaluations /\ run[o] = "none"
  /\ run' = [run EXCEPT ![o] = "active"]
  /\ CreateWithIntent(o)
  /\ Goto(c, o, "issue")
  /\ UNCHANGED <<runtimeVars, report, degraded, up, owner, seen, transit, boundVars>>

\* Every training run has ended and one succeeded.  (An instance without
\* training runs is one whose training is over.)
Trained ==
  LET training == Operations \ Evaluations IN
    training # {} => /\ \A o \in training : run[o] \notin {"none", "active"}
                     /\ \E o \in training : run[o] = "succeeded"

\* _continue_to_evaluation and begin_evaluation_cycle: the evaluation run exists
\* before its attempt does.  "active" stands for CREATED as well: nothing but the
\* activation in _start_evaluation_run tells the two apart, so that commit is a
\* stuttering step here.
BeginCycle(c, o) ==
  /\ MayWrite(c)
  /\ At(c, o, "idle")
  /\ o \in Evaluations /\ run[o] = "none"
  /\ Trained
  /\ run' = [run EXCEPT ![o] = "active"]
  /\ Goto(c, o, "begun")
  /\ UNCHANGED <<runtimeVars, sub, att, report, degraded, up, owner, seen, transit, boundVars>>

\* _start_evaluation_run and _create_with_submit_intent: the evaluation
\* attempt and its INTENDED submit in one commit, unless the run has ended or
\* another host has recorded attempt 1 (a unique index); or the evaluator
\* refuses or the budget is exhausted, and the run fails without an attempt.
\* One attempt per run is modelled: a host that counts the attempts after the
\* other's commit adds attempt 2, which is beyond this module.
StartEvaluation(c, o) ==
  /\ MayWrite(c)
  /\ At(c, o, "begun")
  /\ \/ /\ run[o] = "active" /\ att[o] = "none"
        /\ CreateWithIntent(o)
        /\ Goto(c, o, "issue")
        /\ UNCHANGED run
     \/ /\ run[o] = "active" /\ att[o] = "none"
        /\ run' = [run EXCEPT ![o] = "failed"]
        /\ Goto(c, o, "idle")
        /\ UNCHANGED <<att, sub>>
     \/ /\ ~(run[o] = "active" /\ att[o] = "none")
        /\ Abandon(c, o)
        /\ UNCHANGED <<att, sub, run>>
  /\ UNCHANGED <<runtimeVars, report, degraded, up, owner, seen, transit, boundVars>>

\* _issue: the request leaves.  It may arrive after its sender has died.
Issue(c, o) ==
  /\ At(c, o, "issue")
  /\ transit' = transit \cup {<<c, o>>}
  /\ Goto(c, o, "sent")
  /\ UNCHANGED <<runtimeVars, journalVars, degraded, up, owner, seen, boundVars>>

\* The runtime accepts a request, and answers the caller if it still waits.
Accept(c, o) ==
  /\ <<c, o>> \in transit
  /\ transit' = transit \ {<<c, o>>}
  /\ SubmitOrGet(o)
  /\ IF Waits(c, o) THEN Goto(c, o, "accepted") ELSE UNCHANGED pc
  /\ UNCHANGED <<journalVars, degraded, up, owner, seen, boundVars>>

Reject(c, o) ==
  /\ <<c, o>> \in transit
  /\ transit' = transit \ {<<c, o>>}
  /\ Refuse(o)
  /\ IF Waits(c, o) THEN Goto(c, o, "refused") ELSE UNCHANGED pc
  /\ UNCHANGED <<journalVars, degraded, up, owner, seen, boundVars>>

\* confirm_operation with the reference, at the revision read before the
\* call: a journal that moved meanwhile raises ConcurrentModificationError.
Confirm(c, o) ==
  /\ MayWrite(c)
  /\ At(c, o, "accepted")
  /\ IF sub[o] = "intended"
       THEN /\ sub' = [sub EXCEPT ![o] = "confirmed"]
            /\ Goto(c, o, "adopt")
       ELSE /\ Abandon(c, o)
            /\ UNCHANGED sub
  /\ UNCHANGED <<runtimeVars, att, run, report, degraded, up, owner, seen, transit, boundVars>>

\* fail_operation, on a definitive refusal and nothing else; then
\* _settle_refused settles the attempt and its run FAILED.
FailOperation(c, o) ==
  /\ MayWrite(c)
  /\ At(c, o, "refused")
  /\ IF sub[o] = "intended"
       THEN /\ sub' = [sub EXCEPT ![o] = "failed"]
            /\ seen' = [seen EXCEPT ![c][o] = "failed"]
            /\ Goto(c, o, "settle")
       ELSE /\ Abandon(c, o)
            /\ UNCHANGED <<sub, seen>>
  /\ UNCHANGED <<runtimeVars, att, run, report, degraded, up, owner, transit, boundVars>>

\* _adopt: the attempt is at least QUEUED, and an observer task starts.
Adopt(c, o) ==
  /\ MayWrite(c)
  /\ At(c, o, "adopt")
  /\ att' = [att EXCEPT ![o] = Advance(o, "queued")]
  /\ Goto(c, o, "watch")
  /\ UNCHANGED <<runtimeVars, sub, run, report, degraded, up, owner, seen, transit, boundVars>>

-----------------------------------------------------------------------------
(* Observing. *)

\* WorkerReady and TrainingStarted / EvaluationStarted, read from the durable
\* cursor on, so possibly after a later one was already applied.
Observe(c, o, target) ==
  /\ MayWrite(c)
  /\ At(c, o, "watch")
  /\ starts[o] > 0 /\ ~degraded[o]
  /\ att' = [att EXCEPT ![o] = Advance(o, target)]
  /\ UNCHANGED <<runtimeVars, sub, run, report, degraded, hostVars, transit, boundVars>>

\* An evaluation worker emits its completion before it exits.
Report(o) ==
  /\ o \in Evaluations
  /\ wl[o] = "live" /\ report[o] = "none"
  /\ report' = [report EXCEPT ![o] = "emitted"]
  /\ UNCHANGED <<runtimeVars, sub, att, run, degraded, hostVars, transit, boundVars>>

\* hold_evaluation_completion: durable, with the cursor, and unseen: whether it
\* carries metrics, and whether they and its report name this run's evaluator,
\* version, seed and no producer, is looked at when the workload has ended.
Hold(c, o) ==
  /\ MayWrite(c)
  /\ At(c, o, "watch")
  /\ report[o] = "emitted" /\ ~degraded[o]
  /\ \E r \in {"usable", "unusable"} : report' = [report EXCEPT ![o] = r]
  /\ UNCHANGED <<runtimeVars, sub, att, run, degraded, hostVars, transit, boundVars>>

\* The stream ends while the workload runs: record_telemetry_degraded.
Degrade(o) ==
  /\ wl[o] = "live" /\ ~degraded[o]
  /\ degraded' = [degraded EXCEPT ![o] = TRUE]
  /\ UNCHANGED <<runtimeVars, journalVars, hostVars, transit, boundVars>>

\* The stream has been read to its end (or is gone) and get_status answers.
ReadStatus(c, o) ==
  /\ At(c, o, "watch")
  /\ report[o] = "emitted" => degraded[o]
  /\ \E s \in Statuses(o) \ {"live"} :
       LET outcome == Conclude(o, s) IN
         IF outcome = "escalate"
           THEN /\ Goto(c, o, "idle")
                /\ UNCHANGED seen
           ELSE /\ seen' = [seen EXCEPT ![c][o] = outcome]
                /\ Goto(c, o, IF outcome = "succeeded" /\ o \in Evaluations
                                THEN "result" ELSE "settle")
  /\ UNCHANGED <<runtimeVars, journalVars, degraded, up, owner, transit, boundVars>>

-----------------------------------------------------------------------------
(* Settling. *)

\* _record_evaluation_result of a result it can attribute (Conclude has the
\* other case, which goes on in Settle): result, attempt and run in one commit,
\* refused if either is no longer live.
RecordResult(c, o) ==
  /\ MayWrite(c)
  /\ At(c, o, "result")
  /\ IF att[o] \in Live /\ run[o] = "active"
       THEN /\ att' = [att EXCEPT ![o] = "succeeded"]
            /\ run' = [run EXCEPT ![o] = "succeeded"]
            /\ Goto(c, o, "after")
       ELSE /\ Goto(c, o, "idle")
            /\ UNCHANGED <<att, run>>
  /\ UNCHANGED <<runtimeVars, sub, report, degraded, up, owner, seen, transit, boundVars>>

\* _settle and _settle_evaluation, first commit: the attempt.
Settle(c, o) ==
  /\ MayWrite(c)
  /\ At(c, o, "settle")
  /\ att' = [att EXCEPT ![o] = IF @ \in Live THEN seen[c][o] ELSE @]
  /\ Goto(c, o, "settleRun")
  /\ UNCHANGED <<runtimeVars, sub, run, report, degraded, up, owner, seen, transit, boundVars>>

\* Second commit: the run.
SettleRun(c, o) ==
  /\ MayWrite(c)
  /\ At(c, o, "settleRun")
  /\ run' = [run EXCEPT ![o] = IF @ = "active" THEN RunOutcome(seen[c][o]) ELSE @]
  /\ Goto(c, o, "after")
  /\ UNCHANGED <<runtimeVars, sub, att, report, degraded, up, owner, seen, transit, boundVars>>

\* The observer task ends.
Finish(c, o) ==
  /\ At(c, o, "after")
  /\ Goto(c, o, "idle")
  /\ seen' = [seen EXCEPT ![c][o] = "failed"]
  /\ UNCHANGED <<runtimeVars, journalVars, degraded, up, owner, transit, boundVars>>

-----------------------------------------------------------------------------
(* Reconciling. *)

\* attach() by a host whose _driving is false: every run recorded so far
\* is to be reconciled.  (Two attach() calls at once in one process meet as
\* two hosts do, so they are not modelled apart.)
Attach(c) ==
  /\ up[c]
  /\ \A o \in Operations : pc[c][o] = "idle"
  /\ \E o \in Operations : run[o] # "none"
  /\ pc' = [pc EXCEPT ![c] = [o \in Operations |->
              IF run[o] = "none" THEN "idle" ELSE "todo"]]
  /\ UNCHANGED <<runtimeVars, journalVars, degraded, up, owner, seen, transit, boundVars>>

\* _reconcile_evaluation: a run without an attempt gets its first; one whose
\* attempts all ended is settled from the outcome.
\* Mutants: an ended attempt is taken to have settled its run, or to have failed.
ReconcileFirstOnly(c, o) ==
  /\ Goto(c, o, IF run[o] = "active" /\ att[o] = "none" THEN "begun" ELSE "idle")
  /\ UNCHANGED seen

ReconcileAsFailed(c, o) ==
  IF run[o] = "active" /\ att[o] \in Ended
    THEN seen' = [seen EXCEPT ![c][o] = "failed"] /\ Goto(c, o, "settleRun")
    ELSE ReconcileFirstOnly(c, o)

ReconcileEvaluation(c, o) ==
  \/ /\ run[o] = "active" /\ att[o] = "none"
     /\ Goto(c, o, "begun")
     /\ UNCHANGED seen
  \/ /\ run[o] = "active" /\ att[o] \in Ended
     /\ seen' = [seen EXCEPT ![c][o] = att[o]]
     /\ Goto(c, o, "settleRun")
  \/ /\ run[o] # "active"
     /\ Goto(c, o, "idle")
     /\ UNCHANGED seen

\* _reconcile, for one attempt.  A training run whose attempt ended is left to
\* _drive_oom_recovery and _drive_numerical_recovery, which do nothing without
\* an incident, and only for a failed attempt.
Reconcile(c, o) ==
  /\ At(c, o, "todo")
  /\ \/ /\ att[o] \in Live /\ sub[o] = "failed"
        /\ seen' = [seen EXCEPT ![c][o] = "failed"]
        /\ Goto(c, o, "settle")
     \/ /\ att[o] \in Live /\ sub[o] = "confirmed"
        /\ Goto(c, o, "adopt")
        /\ UNCHANGED seen
     \/ /\ att[o] \in Live /\ sub[o] = "intended"
        /\ Goto(c, o, "lookup")
        /\ UNCHANGED seen
     \/ /\ att[o] \notin Live /\ o \in Evaluations
        /\ ReconcileEvaluation(c, o)
     \/ /\ att[o] \notin Live /\ o \notin Evaluations
        /\ Goto(c, o, "idle")
        /\ UNCHANGED seen
  /\ UNCHANGED <<runtimeVars, journalVars, degraded, up, owner, transit, boundVars>>

\* lookup_operation and what follows: adopt what exists, settle what was
\* refused, issue what was never received, and otherwise escalate.
\* Mutant: nothing found is taken for never received.
ReissueUnlessFound(c, o) ==
  /\ At(c, o, "lookup")
  /\ Goto(c, o, CASE Lookup(o) = "found" -> "accepted"
                  [] Lookup(o) = "rejected" -> "refused"
                  [] OTHER -> "issue")
  /\ UNCHANGED <<runtimeVars, journalVars, degraded, up, owner, seen, transit, boundVars>>

LookUp(c, o) ==
  /\ At(c, o, "lookup")
  /\ Goto(c, o, CASE Lookup(o) = "found" -> "accepted"
                  [] Lookup(o) = "rejected" -> "refused"
                  [] OTHER -> IF ReportsCompleted THEN "issue" ELSE "idle")
  /\ UNCHANGED <<runtimeVars, journalVars, degraded, up, owner, seen, transit, boundVars>>

-----------------------------------------------------------------------------
(* Failures. *)

\* A runtime call raises: the outcome is unknown and nothing is written.
Raise(c, o) ==
  /\ errors < MaxErrors
  /\ At(c, o, "sent") \/ At(c, o, "lookup") \/ At(c, o, "watch")
  /\ errors' = errors + 1
  /\ Abandon(c, o)
  /\ UNCHANGED <<runtimeVars, journalVars, degraded, up, owner, seen, transit, crashes>>

\* The process dies, or close() cancels its tasks; a daemon that finds its
\* lease taken stops by itself (ControllerLease!LostStops).  Its memory goes.
Down(c) ==
  /\ up' = [up EXCEPT ![c] = FALSE]
  /\ pc' = [pc EXCEPT ![c] = [o \in Operations |-> "idle"]]
  /\ seen' = [seen EXCEPT ![c] = [o \in Operations |-> "failed"]]
  /\ UNCHANGED <<runtimeVars, journalVars, degraded, owner, transit, errors>>

Crash(c) ==
  /\ up[c]
  /\ crashes < MaxCrashes
  /\ crashes' = crashes + 1
  /\ Down(c)

Superseded(c) ==
  /\ up[c]
  /\ Fenced /\ owner # c
  /\ Down(c)
  /\ UNCHANGED crashes

\* A process starts.  A daemon serves once it owns the lease, which an
\* earlier, stalled owner may not have noticed losing.
Start(c) ==
  /\ ~up[c]
  /\ up' = [up EXCEPT ![c] = TRUE]
  /\ owner' = IF Fenced THEN c ELSE owner
  /\ IF Fenced /\ up[owner]
       THEN crashes < MaxCrashes /\ crashes' = crashes + 1
       ELSE UNCHANGED crashes
  /\ UNCHANGED <<runtimeVars, journalVars, degraded, pc, seen, transit, errors>>

\* What the runtime does by itself.
Runtime(o) ==
  /\ \/ \E s \in Gone : End(o, s)
     \/ Forget(o)
  /\ UNCHANGED <<journalVars, degraded, hostVars, transit, boundVars>>

-----------------------------------------------------------------------------
Submit(c, o) ==
  \/ Admit(c, o) \/ BeginCycle(c, o) \/ StartEvaluation(c, o)
  \/ Issue(c, o) \/ Confirm(c, o) \/ FailOperation(c, o)

Drive(c, o) ==
  \/ Adopt(c, o)
  \/ \E t \in {"starting", "running"} : Observe(c, o, t)
  \/ Hold(c, o)
  \/ ReadStatus(c, o)
  \/ RecordResult(c, o)
  \/ Settle(c, o)
  \/ SettleRun(c, o)
  \/ Finish(c, o)
  \/ Reconcile(c, o)
  \/ LookUp(c, o)
  \/ Raise(c, o)

Environment(o) ==
  \/ Runtime(o)
  \/ Report(o)
  \/ Degrade(o)
  \/ \E c \in Controllers : Accept(c, o) \/ Reject(c, o)

Next ==
  \/ \E c \in Controllers, o \in Operations : Submit(c, o) \/ Drive(c, o)
  \/ \E c \in Controllers : Attach(c) \/ Crash(c) \/ Superseded(c) \/ Start(c)
  \/ \E o \in Operations : Environment(o)

Spec == Init /\ [][Next]_vars

\* A process left alone runs its coroutines and is eventually started again;
\* somebody attaches (the daemon's sweep at startup, its requests, a user);
\* a request in transit arrives, and a workload does not run forever.
Fairness ==
  /\ \A c \in Controllers, o \in Operations :
       /\ WF_vars(StartEvaluation(c, o) \/ Issue(c, o) \/ Confirm(c, o)
                  \/ FailOperation(c, o) \/ Adopt(c, o) \/ RecordResult(c, o) \/ Settle(c, o) \/ SettleRun(c, o)
                  \/ Finish(c, o) \/ Reconcile(c, o) \/ LookUp(c, o))
       /\ WF_vars(Hold(c, o))
       /\ WF_vars(ReadStatus(c, o))
       /\ WF_vars(Accept(c, o) \/ Reject(c, o))
  /\ \A c \in Controllers : WF_vars(Attach(c)) /\ WF_vars(Start(c))
  /\ \A o \in Operations : WF_vars(Runtime(o))

FairSpec == Spec /\ Fairness

-----------------------------------------------------------------------------
(* Properties. *)

\* A workload is started at most once for a submit operation, whatever mix of
\* crashes, takeovers, lost answers and delayed requests surrounds the call,
\* and also on a runtime that forgets what it finished (the doc of _issue and
\* docs/control-plane: "never starts a second one").
StartedOnce == \A o \in Operations : starts[o] <= 1

\* The journal does not lie about the effect: nothing runs without a recorded
\* intent, a CONFIRMED submission has a workload, and a FAILED one never got
\* one and never will, although a request for it may still be in transit.
JournalHonest ==
  \A o \in Operations :
    /\ starts[o] > 0 => sub[o] \in {"intended", "confirmed"}
    /\ sub[o] = "confirmed" => starts[o] > 0
    /\ sub[o] = "failed" => wl[o] = "rejected"

\* A terminal attempt says what the runtime says of its workload, never a
\* guess.  An evaluation whose workload exited cleanly succeeds exactly if the
\* record holds a completion that can be attributed to it: a completion nobody
\* held, or one that names another evaluator, fails it, however many controllers
\* shared the stream.
AttemptsHonest ==
  \A o \in Operations :
    /\ att[o] \in {"succeeded", "cancelled", "preempted"} => wl[o] = att[o]
    /\ att[o] = "failed" => \/ wl[o] \in {"failed", "rejected"}
                            \/ wl[o] = "succeeded" /\ o \in Evaluations
    /\ o \in Evaluations /\ wl[o] = "succeeded" /\ att[o] \in Ended =>
         (att[o] = "succeeded" <=> report[o] = "usable")

\* A terminal run agrees with its attempt, though the two are settled in
\* commits of their own, by whoever comes to it; only an evaluation run may fail
\* without an attempt.
RunsHonest ==
  \A o \in Operations :
    run[o] \notin {"none", "active"} =>
      \/ run[o] = RunOutcome(att[o])
      \/ run[o] = "failed" /\ att[o] = "none" /\ o \in Evaluations

\* The record of an attempt only moves forward and an ending is final, though
\* two hosts observe the same workload and replay each other's telemetry.
Order(s) == IF s = "none" THEN 0 ELSE IF s \in Live THEN 1 + Rank[s] ELSE 5

AttemptForward ==
  [][\A o \in Operations : att'[o] # att[o] => Order(att[o]) < Order(att'[o])]_vars

\* An intent is never left behind: an evaluation run gets its attempt, or is
\* refused one or cancelled without one, and a submission is confirmed or failed
\* in the end, if the runtime can tell what it never received.
IntentResolved ==
  \A o \in Operations :
    run[o] = "active" ~>
      sub[o] \in {"confirmed", "failed"} \/ (run[o] # "active" /\ att[o] = "none")

\* Once a workload has ended and the runtime can still say how, its attempt
\* is settled in the end.  A preempted training attempt is escalated instead.
EndingRecorded ==
  \A o \in Operations :
    wl[o] \in Endings /\ (wl[o] = "preempted" => o \in Evaluations)
      ~> att[o] \in Ended \/ forgot[o]

\* A crash between the two commits of a settlement leaves an ended attempt
\* under an active run; reconciliation closes the run of an evaluation.
EvaluationRunCloses ==
  \A o \in Evaluations : att[o] \in Ended ~> run[o] # "active"

\* The same of a training run.  _reconcile's comment promises that whatever a
\* crash between two commits left behind is carried forward from the record.
TrainingRunCloses ==
  \A o \in Operations \ Evaluations : att[o] \in Ended ~> run[o] # "active"

\* One workload per operation, a journal that is true of it, and no outcome on
\* record that is a guess.
SubmissionSound == TypeOK /\ StartedOnce /\ JournalHonest /\ AttemptsHonest

\* Nothing begun is left behind: an intent, the ending of a workload, the run
\* of an ended evaluation.
SubmissionProgress == IntentResolved /\ EndingRecorded /\ EvaluationRunCloses
=============================================================================
