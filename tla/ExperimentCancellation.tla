----------------------- MODULE ExperimentCancellation -----------------------
(***************************************************************************)
(* Cancelling an experiment is a saga over its attempts:                   *)
(* request_experiment_cancellation and reconcile_experiment_cancellation   *)
(* (storage/control_plane.py), _cancel, _carry_out_cancellation and        *)
(* _reconcile_cancellations (experiment/host.py), over the submissions of  *)
(* Submission.  The intent is committed with a child Action and a cancel   *)
(* operation per live attempt; each effect is issued and confirmed; the    *)
(* experiment is CANCELLED only by a commit that sees nothing live.        *)
(*                                                                         *)
(* All attempts belong to one experiment.  Its one effective               *)
(* cancel-experiment Action is `parent': while it is in flight a second    *)
(* request gets it back, and once it is applied the experiment has ended.  *)
(* A cancel operation is confirmed or stays INTENDED: no code fails one.   *)
(***************************************************************************)
EXTENDS Submission

CONSTANT NoAttempt

VARIABLES
  exp,      \* Experiment.status: active or cancelled
  parent,   \* the cancel-experiment Action: none, executing or applied
  child,    \* each attempt's cancel-attempt Action
  cop,      \* the cancel RuntimeOperation it caused
  effects,  \* per controller: the effects its _carry_out_cancellation has left
  calling,  \* per controller: the effect it has called and not yet confirmed
  closing   \* per controller: inside reconcile_experiment_cancellation

sagaVars == <<exp, parent, child, cop>>
carryVars == <<effects, calling, closing>>
cvars == <<vars, sagaVars, carryVars>>

ASSUME CancellationAssumption == NoAttempt \notin Operations

CancelTypeOK ==
  /\ exp \in {"active", "cancelled"}
  /\ parent \in {"none", "executing", "applied"}
  /\ child \in [Operations -> {"none", "executing", "applied", "superseded"}]
  /\ cop \in [Operations -> {"none", "intended", "confirmed"}]
  /\ effects \in [Controllers -> SUBSET Operations]
  /\ calling \in [Controllers -> Operations \cup {NoAttempt}]
  /\ closing \in [Controllers -> BOOLEAN]
  \* An operation exists exactly with the Action that caused it.
  /\ \A o \in Operations : cop[o] = "none" <=> child[o] = "none"

CancelInit ==
  /\ Init
  /\ exp = "active"
  /\ parent = "none"
  /\ child = [o \in Operations |-> "none"]
  /\ cop = [o \in Operations |-> "none"]
  /\ effects = [c \in Controllers |-> {}]
  /\ calling = [c \in Controllers |-> NoAttempt]
  /\ closing = [c \in Controllers |-> FALSE]

-----------------------------------------------------------------------------
(* New work. *)

\* Between two commits of reconcile_experiment_cancellation, or of another
\* coroutine, the process does nothing else.
Free(c) == ~closing[c]
NoSync(c) == Free(c) /\ \A o \in Operations : pc[c][o] \notin Sync

SagaStays == UNCHANGED <<sagaVars, carryVars>>

\* A training run, under an ACTIVE experiment; an evaluation cycle, which also
\* waits for no cancellation to be in flight.  StartEvaluation is not guarded
\* again: _reconcile_evaluation starts the attempt of a run a crash left
\* without one as long as the experiment is ACTIVE.
NewRun(c, o) ==
  /\ Free(c)
  /\ exp = "active"
  /\ Admit(c, o) \/ (parent # "executing" /\ BeginCycle(c, o))
  /\ SagaStays

-----------------------------------------------------------------------------
(* The saga. *)

LiveAttempts == {o \in Operations : att[o] \in Live}

\* _record_cancellation: the Action and the operation it causes, together.
RecordCancellation(targets) ==
  /\ child' = [o \in Operations |-> IF o \in targets THEN "executing" ELSE "none"]
  /\ cop' = [o \in Operations |-> IF o \in targets THEN "intended" ELSE "none"]

\* request_experiment_cancellation: the Action, and a child Action and cancel
\* operation per live attempt, in one commit.  An embedded host's _cancel goes
\* on to the effects at once; the daemon's _act attaches the experiment first
\* and then calls _cancel (Resume).
Request(c) ==
  /\ MayWrite(c) /\ NoSync(c) /\ effects[c] = {}
  /\ \E o \in Operations : run[o] # "none"
  /\ exp = "active" /\ parent = "none"
  /\ parent' = "executing"
  /\ RecordCancellation(LiveAttempts)
  /\ effects' = [effects EXCEPT ![c] = IF Fenced THEN {} ELSE LiveAttempts]
  /\ closing' = [closing EXCEPT ![c] = ~Fenced /\ LiveAttempts = {}]
  /\ UNCHANGED <<vars, exp, calling>>

\* _cancel for a saga in flight: the effects still INTENDED are issued.  By
\* the user again, by the daemon, or by attach() when it has reconciled.
\* Mutant: the saga is answered, its effects are not issued again.
ResumeAnswering(c) ==
  /\ MayWrite(c) /\ NoSync(c) /\ effects[c] = {}
  /\ parent = "executing"
  /\ closing' = [closing EXCEPT ![c] = TRUE]
  /\ UNCHANGED <<vars, sagaVars, effects, calling>>

Resume(c) ==
  /\ MayWrite(c) /\ NoSync(c) /\ effects[c] = {}
  /\ parent = "executing"
  /\ LET left == {o \in Operations : cop[o] = "intended"} IN
       /\ effects' = [effects EXCEPT ![c] = left]
       /\ closing' = [closing EXCEPT ![c] = left = {}]
  /\ UNCHANGED <<vars, sagaVars, calling>>

\* _submitted_reference is None: the effect is left INTENDED.
Skip(c, o) ==
  /\ up[c] /\ NoSync(c) /\ calling[c] = NoAttempt
  /\ o \in effects[c] /\ sub[o] # "confirmed"
  /\ effects' = [effects EXCEPT ![c] = @ \ {o}]
  /\ closing' = [closing EXCEPT ![c] = effects[c] = {o}]
  /\ UNCHANGED <<vars, sagaVars, calling>>

\* runtime.cancel(reference, operation.id) is received.
CallCancel(c, o) ==
  /\ up[c] /\ NoSync(c) /\ calling[c] = NoAttempt
  /\ o \in effects[c] /\ sub[o] = "confirmed"
  /\ Cancel(o)
  /\ calling' = [calling EXCEPT ![c] = o]
  /\ UNCHANGED <<journalVars, degraded, hostVars, transit, boundVars,
                 sagaVars, effects, closing>>

\* confirm_operation of the cancel, at the revision read with the saga; if
\* another controller confirmed it first the coroutine fails here.
ConfirmCancel(c) ==
  /\ MayWrite(c) /\ NoSync(c)
  /\ calling[c] # NoAttempt
  /\ calling' = [calling EXCEPT ![c] = NoAttempt]
  /\ IF cop[calling[c]] = "intended"
       THEN /\ cop' = [cop EXCEPT ![calling[c]] = "confirmed"]
            /\ effects' = [effects EXCEPT ![c] = @ \ {calling[c]}]
            /\ closing' = [closing EXCEPT ![c] = effects[c] = {calling[c]}]
       ELSE /\ effects' = [effects EXCEPT ![c] = {}]
            /\ UNCHANGED <<cop, closing>>
  /\ UNCHANGED <<vars, exp, parent, child>>

\* runtime.cancel raises: whatever is left stays INTENDED.
RaiseCancel(c) ==
  /\ up[c] /\ NoSync(c)
  /\ \E o \in effects[c] : sub[o] = "confirmed"
  /\ errors < MaxErrors
  /\ errors' = errors + 1
  /\ effects' = [effects EXCEPT ![c] = {}]
  /\ calling' = [calling EXCEPT ![c] = NoAttempt]
  /\ UNCHANGED <<runtimeVars, journalVars, degraded, hostVars, transit, crashes,
                 sagaVars, closing>>

\* _observed_outcome: what the record establishes about one child.
Observed(o) ==
  IF child[o] # "executing" \/ att[o] \in Live THEN child[o]
  ELSE IF att[o] # "cancelled" THEN "superseded"
  ELSE IF cop[o] = "confirmed" THEN "applied" ELSE child[o]

\* reconcile_experiment_cancellation: the children first, each a commit; then
\* the experiment, in a commit that looks again for live attempts.
\* Mutant: the children are taken to be all there is.
CloseUnchecked(c) ==
  /\ MayWrite(c) /\ closing[c]
  /\ closing' = [closing EXCEPT ![c] = FALSE]
  /\ child' = [o \in Operations |-> Observed(o)]
  /\ IF parent = "executing" /\ \A o \in Operations : child'[o] # "executing"
       THEN /\ run' = [o \in Operations |-> IF run[o] = "active" THEN "cancelled" ELSE run[o]]
            /\ exp' = "cancelled"
            /\ parent' = "applied"
       ELSE UNCHANGED <<run, exp, parent>>
  /\ UNCHANGED <<runtimeVars, sub, att, report, degraded, hostVars, transit, boundVars,
                 cop, effects, calling>>

SettleChildren(c) ==
  /\ MayWrite(c) /\ closing[c]
  /\ parent = "executing"
  /\ \E o \in Operations : Observed(o) # child[o]
  /\ child' = [o \in Operations |-> Observed(o)]
  /\ UNCHANGED <<vars, exp, parent, cop, carryVars>>

Close(c) ==
  /\ MayWrite(c) /\ closing[c]
  /\ parent = "executing" => \A o \in Operations : Observed(o) = child[o]
  /\ closing' = [closing EXCEPT ![c] = FALSE]
  /\ IF /\ parent = "executing"
        /\ \A o \in Operations : child[o] # "executing"
        /\ LiveAttempts = {}
       THEN /\ run' = [o \in Operations |-> IF run[o] = "active" THEN "cancelled" ELSE run[o]]
            /\ exp' = "cancelled"
            /\ parent' = "applied"
       ELSE UNCHANGED <<run, exp, parent>>
  /\ UNCHANGED <<runtimeVars, sub, att, report, degraded, hostVars, transit, boundVars,
                 child, cop, effects, calling>>

\* An observer that has settled its attempt reconciles the saga in flight;
\* _settle_refused does not.
FinishAndReconcile(c, o) ==
  /\ Finish(c, o)
  /\ closing' = [closing EXCEPT ![c] = sub[o] = "confirmed" /\ parent = "executing"]
  /\ UNCHANGED <<sagaVars, effects, calling>>

\* A process that ends takes its coroutines with it.
Dies(c) ==
  /\ Crash(c) \/ Superseded(c)
  /\ effects' = [effects EXCEPT ![c] = {}]
  /\ calling' = [calling EXCEPT ![c] = NoAttempt]
  /\ closing' = [closing EXCEPT ![c] = FALSE]
  /\ UNCHANGED sagaVars

-----------------------------------------------------------------------------
\* What Submission does without regard to the saga.  Telemetry that moves a
\* live attempt to another live status (Observe), and its loss (Degrade),
\* change nothing the saga reads and are left to Submission.
Progress(c, o) ==
  \/ StartEvaluation(c, o) \/ Issue(c, o) \/ Confirm(c, o) \/ FailOperation(c, o)
  \/ Adopt(c, o) \/ RecordResult(c, o) \/ Settle(c, o) \/ SettleRun(c, o)
  \/ Reconcile(c, o) \/ LookUp(c, o)

Work(c, o) == Progress(c, o) \/ Hold(c, o) \/ ReadStatus(c, o) \/ Raise(c, o)

Outside(o) ==
  \/ Runtime(o)
  \/ Report(o)
  \/ \E c \in Controllers : Accept(c, o) \/ Reject(c, o)

Saga(c) ==
  \/ Request(c) \/ Resume(c) \/ ConfirmCancel(c) \/ RaiseCancel(c)
  \/ SettleChildren(c) \/ Close(c)
  \/ \E o \in Operations : Skip(c, o) \/ CallCancel(c, o)

CancelNext ==
  \/ \E c \in Controllers :
       \/ Saga(c)
       \/ Dies(c)
       \/ Attach(c) /\ Free(c) /\ SagaStays
       \/ Start(c) /\ SagaStays
       \/ \E o \in Operations :
            \/ NewRun(c, o)
            \/ FinishAndReconcile(c, o)
            \/ Work(c, o) /\ Free(c) /\ SagaStays
  \/ \E o \in Operations : Outside(o) /\ SagaStays

CancelSpec == CancelInit /\ [][CancelNext]_cvars

\* As Submission!Fairness; a host also carries on what it has begun of the
\* saga, and attach() carries on a saga in flight.  Strong where a coroutine
\* can be ready and find its process inside another one's commits: the event
\* loop runs the ready coroutines in turn.
CancelFairness ==
  /\ \A c \in Controllers, o \in Operations :
       /\ SF_cvars(Progress(c, o) /\ Free(c) /\ SagaStays)
       /\ SF_cvars(Hold(c, o) /\ Free(c) /\ SagaStays)
       /\ SF_cvars(ReadStatus(c, o) /\ Free(c) /\ SagaStays)
       /\ WF_cvars((Accept(c, o) \/ Reject(c, o)) /\ SagaStays)
       /\ WF_cvars(FinishAndReconcile(c, o))
       /\ SF_cvars(Skip(c, o) \/ CallCancel(c, o))
  /\ \A c \in Controllers :
       /\ SF_cvars(ConfirmCancel(c))
       /\ WF_cvars(SettleChildren(c) \/ Close(c))
       /\ SF_cvars(Attach(c) /\ Free(c) /\ SagaStays)
       /\ SF_cvars(Resume(c) /\ \A o \in Operations : pc[c][o] = "idle")
       /\ WF_cvars(Start(c) /\ SagaStays)
  /\ \A o \in Operations : WF_cvars(Runtime(o) /\ SagaStays)

CancelFairSpec == CancelSpec /\ CancelFairness

-----------------------------------------------------------------------------
(* Properties. *)

\* CANCELLED means that nothing the experiment owns is executing or ever will
\* be, not only in the record but at the runtime, requests in transit included.
CancelledMeansStopped ==
  exp = "cancelled" =>
    \A o \in Operations :
      /\ att[o] \notin Live
      /\ wl[o] # "live"
      /\ \A c \in Controllers : <<c, o>> \in transit => wl[o] # "absent"

\* An Action is APPLIED only for a workload that the saga's own effect reached
\* and that was stopped; a workload that ended otherwise overtook it.
CreditHonest ==
  \A o \in Operations :
    /\ child[o] = "applied" => asked[o] /\ wl[o] = "cancelled" /\ att[o] = "cancelled"
    /\ child[o] = "superseded" => att[o] \in Ended \ {"cancelled"}

\* A cancellation ends, and ends the experiment, unless the runtime lost the
\* outcome of a workload: then it is escalated and never timed out.
CancellationEnds ==
  parent = "executing" ~>
    \/ exp = "cancelled"
    \/ \E o \in Operations : wl[o] \in {"lost", "preempted"}

\* No attempt starts while a cancellation is in flight.
NothingNewWhileCancelling ==
  [][parent = "executing" => \A o \in Operations : att[o] = "none" => att'[o] = "none"]_cvars

\* The saga tells the truth: of each child, and of the experiment it ends.
CancellationSound == CancelTypeOK /\ CreditHonest /\ CancelledMeansStopped
=============================================================================
