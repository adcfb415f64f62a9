------------------------ MODULE ExperimentLifecycle ------------------------
(***************************************************************************)
(* An adaptive experiment from admission to its end: training, evaluation, *)
(* decision, planning and the next candidate, with the budget that bounds  *)
(* them.  The commits are those of storage/control_plane.py                *)
(* (admit_experiment, begin_evaluation_cycle, record_evaluation_result,    *)
(* reconcile_evaluating_node, record_decision, defer_decision,             *)
(* materialize_candidate_proposal, realize_planned_node, exhaust_budget    *)
(* and the ledger of core/domain/budget.py); the order of the commits is   *)
(* EmbeddedControllerHost's (experiment/host.py), what comes next is       *)
(* experiment/result.py's, and the decision is decision/__init__.py's.     *)
(*                                                                         *)
(* A host is a process.  Between two awaits it runs one chain of commits   *)
(* (`task'); its observers, its attach() and its one adaptive pass wait    *)
(* for it.  Another host on the same database may commit between any two   *)
(* of its commits.  How a submission reaches the runtime and survives is   *)
(* Submission's, cancellation ExperimentCancellation's: here a submission  *)
(* is intended, then confirmed or refused, and the workload ends once.     *)
(* Incident recovery, and PAUSED, which no controller writes, are left out.*)
(***************************************************************************)
EXTENDS Integers, FiniteSets

CONSTANTS
  Hosts,
  Candidates,    \* scientific candidates a planner may propose
  Root,          \* the one the experiment is submitted with
  Measurements,  \* <<primary, constraints>> an evaluation may report
  Setups,        \* how it is submitted and driven: see LifecycleAssumption
  MaxNodes,      \* bound: candidates of the experiment
  MaxEvals       \* bound: attempts of one evaluation run

Nodes == 1..MaxNodes
Attempts == Nodes \X (0..MaxEvals)   \* 0 is the training attempt
Dimensions == {"runs", "slots", "failures"}
Outcomes == {"STOP_SUCCEEDED", "STOP_FAILED", "REJECT", "BRANCH"}

ASSUME LifecycleAssumption ==
  /\ Root \in Candidates
  /\ Measurements \subseteq {"met", "missed", "absent"} \X {"held", "violated", "absent"}
  \* deaths bounds the crashes and repeated attach() calls, ends the nodes
  \* whose workloads end within the horizon, answers what is measured.
  /\ \A s \in Setups :
       /\ {s.adaptive, s.target, s.planner} \subseteq BOOLEAN
       /\ s.hosts \subseteq Hosts /\ s.answers \subseteq Measurements
       /\ {s.deaths, s.ends} \subseteq Nat
       /\ DOMAIN s.limit \subseteq Dimensions
       /\ \A d \in DOMAIN s.limit : s.limit[d] \in Nat /\ (d = "slots" => s.limit[d] > 0)
  /\ MaxNodes \in Nat \ {0} /\ MaxEvals \in Nat \ {0}

VARIABLES
  setup,     \* how the experiment was submitted and who drives it
  exp,       \* Experiment.status
  best,      \* Experiment.best_node_id, 0 for none
  node,      \* ExperimentNode.status
  branch,    \* its candidate, parent and branch_origin
  run,       \* its training Run.status
  ev,        \* its EvaluationRun.status, one per cycle, one cycle
  res,       \* the EvaluationResult's measurement
  dec,       \* the Decision on the cycle
  noted,     \* EvaluationStalled / DecisionDeferred on the cycle
  att,       \* RunAttempt.status / EvaluationAttempt.status
  sub,       \* the submit RuntimeOperation's state
  out,       \* how the workload ended, as the runtime reports it
  ledger,    \* BudgetLedgerEntry's key: <<dimension, kind, subject>>
  up,        \* per host: alive
  task,      \* per host: the chain of commits it is in
  watch,     \* per host: the attempts it issues or observes
  sweep,     \* per host: where its attach() is, 0 for none
  due,       \* per host: an adaptive pass waits for the experiment's lock
  pass,      \* per host: the adaptive pass that holds it
  esc,       \* per host: _escalations holds the experiment
  crashes

record == <<exp, best, node, branch, run, ev, res, dec, noted, att, sub, ledger>>
memory == <<up, task, watch, sweep, due, pass, esc>>
vars == <<setup, record, out, memory, crashes>>

Settled == {"completed", "rejected"}
Ended == {"succeeded", "failed", "exhausted"}
LiveAttempts == {a \in Attempts : att[a] = "live"}
Existing == {n \in Nodes : node[n] # "none"}
Tries(n) == {a \in Attempts : a[1] = n /\ a[2] > 0 /\ att[a] # "none"}

\* How a workload ends: a measurement, or one of these.
Running == <<"live", "">>
Trained == <<"trained", "model">>
Modelless == <<"trained", "no model">>
Failed == <<"failed", "">>
Preempted == <<"preempted", "">>

NoBranch == [cand |-> Root, parent |-> 0, origin |-> <<>>, runs |-> TRUE]
NoTask == [at |-> "idle", n |-> 1, k |-> 0, then |-> "end"]
NoPass == [at |-> "none", ctx |-> <<>>, round |-> 0, n |-> 1]
Steps == {"idle", "run", "evaluate", "begin", "start", "attempt", "unmeasured", "evrun",
          "node", "decide", "record", "exhaust"}

Init ==
  /\ setup \in Setups
  /\ exp = "none" /\ best = 0
  /\ node = [n \in Nodes |-> "none"]
  /\ branch = [n \in Nodes |-> NoBranch]
  /\ run = [n \in Nodes |-> "none"]
  /\ ev = [n \in Nodes |-> "none"]
  /\ res = [n \in Nodes |-> <<>>]
  /\ dec = [n \in Nodes |-> "none"]
  /\ noted = [n \in Nodes |-> FALSE]
  /\ att = [a \in Attempts |-> "none"]
  /\ sub = [a \in Attempts |-> "none"]
  /\ out = [a \in Attempts |-> Running]
  /\ ledger = {}
  /\ \E h \in setup.hosts : up = [g \in Hosts |-> g = h]
  /\ task = [h \in Hosts |-> NoTask]
  /\ watch = [h \in Hosts |-> {}]
  /\ sweep = [h \in Hosts |-> 0]
  /\ due = [h \in Hosts |-> FALSE]
  /\ pass = [h \in Hosts |-> NoPass]
  /\ esc = [h \in Hosts |-> FALSE]
  /\ crashes = 0

-----------------------------------------------------------------------------
(* The budget: an append-only ledger, its balances computed from it. *)

\* limits: the BudgetSpec's enforced dimensions; an unset one is unlimited.
Limit == setup.limit

Total(d, kind) == Cardinality({e \in ledger : e[1] = d /\ e[2] = kind})

Outstanding(d) ==
  LET left == Total(d, "reserve") - Total(d, "consume") - Total(d, "release")
  IN IF left < 0 THEN 0 ELSE left

Remaining(d) == Limit[d] - Total(d, "consume") - Outstanding(d)

Quotas == DOMAIN Limit \ {"slots"}

\* BudgetStatus.exhausted: some quota has nothing left.
Exhausted == \E d \in Quotas : Remaining(d) <= 0

\* _require_budget.
RequireBudget(newRun) ==
  \A d \in Quotas : IF d = "runs" THEN newRun => Remaining(d) >= 1 ELSE Remaining(d) > 0

\* _require_capacity.
Capacity == "slots" \in DOMAIN Limit => Outstanding("slots") < Limit["slots"]

\* _ledger: nothing for a dimension that is not limited; appending twice is
\* appending once.
Entries(es) == {e \in es : e[1] \in DOMAIN Limit}

\* _insert_run_with_reservation and _insert_training_attempt_with_intent.
Reserved(n) == ledger \cup Entries({<<"runs", "reserve", n>>, <<"slots", "reserve", n>>})

\* _commit_budget: the submission of a training attempt is confirmed.
Committed(a) ==
  ledger \cup (IF a[2] > 0 THEN {}
               ELSE Entries({<<"runs", "commit", a[1]>>, <<"slots", "commit", a[1]>>}))

\* _settle_budget for an attempt that ends.
\* Mutant: the slot is released with the run.
SettleAttemptKeeping(a, status) ==
  ledger \cup Entries(IF status = "failed" THEN {<<"failures", "consume", a>>} ELSE {})

SettleAttempt(a, status) ==
  ledger \cup Entries(
    (IF status = "failed" THEN {<<"failures", "consume", a>>} ELSE {})
    \cup (IF a[2] = 0 THEN {<<"slots", "release", a[1]>>} ELSE {}))

\* _settle_budget for a training run that ends: consumed if it was ever
\* submitted, given back if not.
\* Mutant: a run is given back when it ends.
SettleRunReleasing(n) == ledger \cup Entries({<<"runs", "release", n>>})

SettleRun(n) ==
  ledger \cup Entries(
    {<<"runs", IF <<"runs", "commit", n>> \in ledger THEN "consume" ELSE "release", n>>})

-----------------------------------------------------------------------------
(* Where the experiment stands: experiment_result. *)

\* settled_for_planning.
ForPlanning(n) == <<node[n], dec[n]>> \in {<<"completed", "BRANCH">>, <<"rejected", "REJECT">>}

\* experiment_result's next_stage; the action stages are not modelled.
NextStage ==
  CASE exp \in Ended -> "none"
    [] exp \notin Ended /\ \E n \in Nodes : node[n] = "deciding" -> "decision"
    [] /\ exp \notin Ended /\ \A n \in Nodes : node[n] # "deciding"
       /\ \E n \in Nodes : \/ node[n] = "active" /\ run[n] = "succeeded"
                           \/ ev[n] \in {"created", "active"}
       -> "evaluation"
    [] OTHER ->
       IF \E n \in Nodes : node[n] = "planned" THEN "training"
       ELSE IF \E n \in Existing : node[n] \notin Settled THEN "failure-handling"
       ELSE IF \A n \in Existing : ForPlanning(n) THEN "planning" ELSE "decision"

\* ThresholdDecisionEngine.decide and AdaptiveThresholdDecisionEngine's.
Decide(m) ==
  CASE "absent" \in {m[1], m[2]} -> "undecidable"
    [] m[2] = "violated" /\ m[1] # "absent" -> "REJECT"
    [] OTHER -> IF ~setup.target THEN "undecidable"
                ELSE IF m[1] = "met" THEN "STOP_SUCCEEDED"
                ELSE IF setup.adaptive THEN "BRANCH" ELSE "STOP_FAILED"

\* planning_context: what a planner sees, and what a proposal is stale against.
Context == <<exp, node, dec, res, ledger>>

-----------------------------------------------------------------------------
(* A host. *)

Idle(h) == up[h] /\ task[h].at = "idle"
At(h, s) == up[h] /\ task[h].at = s
Go(h, s) == task' = [task EXCEPT ![h].at = s]

\* The chain is done: an observer of an evaluation goes on to the adaptive
\* loop, attach() to the next node.
Done(h) ==
  /\ task' = [task EXCEPT ![h] = NoTask]
  /\ due' = [due EXCEPT ![h] = @ \/ task[h].then = "adapt"]

\* A commit is refused (ConcurrentModificationError, StorageError): the
\* coroutine ends, and attach() with it.
Refused(h) ==
  /\ task' = [task EXCEPT ![h] = NoTask]
  /\ sweep' = [sweep EXCEPT ![h] = IF task[h].then = "sweep" THEN 0 ELSE @]
  /\ UNCHANGED <<record, due>>

Rest == <<setup, out, up, watch, pass, esc, crashes>>

\* admit_experiment: the experiment, its first candidate and its submission, or
\* an experiment that never had a run to spend.
Admit(h) ==
  /\ Idle(h) /\ exp = "none"
  /\ IF RequireBudget(TRUE)
       THEN /\ exp' = "active"
            /\ run' = [run EXCEPT ![1] = "active"]
            /\ att' = [att EXCEPT ![<<1, 0>>] = "live"]
            /\ sub' = [sub EXCEPT ![<<1, 0>>] = "intended"]
            /\ ledger' = Reserved(1)
            /\ watch' = [watch EXCEPT ![h] = @ \cup {<<1, 0>>}]
       ELSE /\ exp' = "exhausted"
            /\ UNCHANGED <<run, att, sub, ledger, watch>>
  /\ node' = [node EXCEPT ![1] = "active"]
  /\ UNCHANGED <<setup, best, branch, ev, res, dec, noted, out, up, task, sweep, due,
                 pass, esc, crashes>>

\* _issue: the runtime accepts, and the operation is confirmed; another host
\* may have confirmed it already.
Confirm(h, a) ==
  /\ Idle(h) /\ a \in watch[h] /\ sub[a] = "intended"
  /\ sub' = [sub EXCEPT ![a] = "confirmed"]
  /\ ledger' = Committed(a)
  /\ UNCHANGED <<setup, exp, best, node, branch, run, ev, res, dec, noted, att, out,
                 memory, crashes>>

\* _settle, _settle_evaluation: the attempt's ending, in a commit of its own.
EndAttempt(a, status) ==
  IF att[a] = "live"
    THEN /\ att' = [att EXCEPT ![a] = status]
         /\ ledger' = SettleAttempt(a, status)
    ELSE UNCHANGED <<att, ledger>>

\* _issue: the runtime refuses; fail_operation, then _settle_refused begins.
Reject(h, a) ==
  /\ Idle(h) /\ a \in watch[h] /\ sub[a] = "intended"
  /\ sub' = [sub EXCEPT ![a] = "failed"]
  /\ watch' = [watch EXCEPT ![h] = @ \ {a}]
  /\ task' = [task EXCEPT ![h] = [at |-> "unmeasured", n |-> a[1], k |-> a[2], then |-> "end"]]
  /\ UNCHANGED <<setup, exp, best, node, branch, run, ev, res, dec, noted, att, ledger,
                 out, up, sweep, due, pass, esc, crashes>>

\* Another host recorded the refusal first: the coroutine ends here.
Overtaken(h, a) ==
  /\ Idle(h) /\ a \in watch[h] /\ sub[a] = "failed"
  /\ watch' = [watch EXCEPT ![h] = @ \ {a}]
  /\ UNCHANGED <<setup, record, out, up, task, sweep, due, pass, esc, crashes>>

\* The workload ends.
RuntimeEnds(a) ==
  /\ sub[a] = "confirmed" /\ out[a] = Running /\ a[1] <= setup.ends
  /\ \E o \in IF a[2] = 0 THEN {Trained, Modelless, Failed}
              ELSE setup.answers \cup {Failed, Preempted} :
       out' = [out EXCEPT ![a] = o]
  /\ UNCHANGED <<setup, record, memory, crashes>>

\* _observe: the training attempt's ending; the run's is the next commit.
SettleTraining(h, a) ==
  /\ Idle(h) /\ a \in watch[h] /\ a[2] = 0 /\ out[a] # Running
  /\ EndAttempt(a, IF out[a] = Failed THEN "failed" ELSE "succeeded")
  /\ watch' = [watch EXCEPT ![h] = @ \ {a}]
  /\ task' = [task EXCEPT ![h] = [at |-> "run", n |-> a[1], k |-> 0, then |-> "end"]]
  /\ UNCHANGED <<setup, exp, best, node, branch, run, ev, res, dec, noted, sub, out,
                 up, sweep, due, pass, esc, crashes>>

SettleTrainingRun(h) ==
  /\ At(h, "run")
  /\ LET n == task[h].n IN
       /\ IF run[n] = "active"
            THEN /\ run' = [run EXCEPT ![n] = IF out[<<n, 0>>] \in {Trained, Modelless}
                                                THEN "succeeded" ELSE "failed"]
                 /\ ledger' = SettleRun(n)
            ELSE UNCHANGED <<run, ledger>>
       /\ IF out[<<n, 0>>] \in {Trained, Modelless}
            THEN Go(h, "evaluate") /\ UNCHANGED due ELSE Done(h)
  /\ UNCHANGED <<Rest, exp, best, node, branch, ev, res, dec, noted, att, sub, sweep>>

\* _observe_evaluation and record_evaluation_result: the result, the attempt's
\* success and the run's, in one commit, unless the run has ended.
RecordResult(h, a) ==
  /\ Idle(h) /\ a \in watch[h] /\ out[a] \in Measurements
  /\ watch' = [watch EXCEPT ![h] = @ \ {a}]
  /\ IF ev[a[1]] = "active" /\ att[a] = "live"
       THEN /\ att' = [att EXCEPT ![a] = "succeeded"]
            /\ ev' = [ev EXCEPT ![a[1]] = "succeeded"]
            /\ res' = [res EXCEPT ![a[1]] = out[a]]
            /\ ledger' = SettleAttempt(a, "succeeded")
            /\ task' = [task EXCEPT ![h] = [at |-> "node", n |-> a[1], k |-> 0, then |-> "adapt"]]
       ELSE UNCHANGED <<att, ev, res, ledger, task>>
  /\ UNCHANGED <<setup, exp, best, node, branch, run, dec, noted, sub, out, up, sweep,
                 due, pass, esc, crashes>>

\* _observe_evaluation: it ended without a result.
EndsUnmeasured(h, a) ==
  /\ Idle(h) /\ a \in watch[h] /\ a[2] > 0 /\ out[a] \in {Failed, Preempted}
  /\ watch' = [watch EXCEPT ![h] = @ \ {a}]
  /\ task' = [task EXCEPT ![h] = [at |-> "unmeasured", n |-> a[1], k |-> a[2], then |-> "adapt"]]
  /\ UNCHANGED <<setup, record, out, up, sweep, due, pass, esc, crashes>>

\* _settle_evaluation and _settle_refused: the attempt, then its run.
SettleUnmeasured(h) ==
  /\ At(h, "unmeasured")
  /\ LET a == <<task[h].n, task[h].k>> IN
       /\ EndAttempt(a, IF out[a] = Preempted THEN "preempted" ELSE "failed")
       /\ Go(h, IF a[2] = 0 THEN "run" ELSE "evrun")
  /\ UNCHANGED <<Rest, exp, best, node, branch, run, ev, res, dec, noted, sub, sweep, due>>

SettleEvaluationRun(h) ==
  /\ At(h, "evrun")
  /\ ev' = [ev EXCEPT ![task[h].n] = IF @ = "active" THEN "failed" ELSE @]
  /\ Go(h, "node")
  /\ UNCHANGED <<Rest, exp, best, node, branch, run, res, dec, noted, att, sub, ledger,
                 sweep, due>>

-----------------------------------------------------------------------------
(* Evaluation. *)

\* _continue_to_evaluation reads: the experiment is ACTIVE, the node trained.
ContinueToEvaluation(h) ==
  /\ At(h, "evaluate")
  /\ LET n == task[h].n IN
       IF exp = "active" /\ node[n] = "active" /\ run[n] = "succeeded"
         THEN Go(h, "begin") /\ UNCHANGED due
         ELSE Done(h)
  /\ UNCHANGED <<Rest, record, sweep>>

\* begin_evaluation_cycle: at the revision read, or refused; a run whose
\* training published no model has a cycle with nothing in it.
BeginCycle(h) ==
  /\ At(h, "begin")
  /\ LET n == task[h].n
         measurable == out[<<n, 0>>] = Trained
     IN
       IF node[n] # "active" THEN Refused(h)
       ELSE IF measurable /\ ~RequireBudget(FALSE)
         THEN Go(h, "exhaust") /\ UNCHANGED <<record, sweep, due>>
       ELSE /\ node' = [node EXCEPT ![n] = "evaluating"]
            /\ ev' = [ev EXCEPT ![n] = IF measurable THEN "created" ELSE @]
            /\ Go(h, IF measurable THEN "start" ELSE "node")
            /\ UNCHANGED <<exp, best, branch, run, res, dec, noted, att, sub, ledger, sweep, due>>
  /\ UNCHANGED Rest

\* _start_evaluation_run: the run is activated and its attempts counted.
CountTries(n) == Cardinality(Tries(n)) + 1

StartEvaluationRun(h) ==
  /\ At(h, "start")
  /\ LET n == task[h].n IN
       /\ CountTries(n) <= MaxEvals
       /\ IF ev[n] = "created" THEN ev' = [ev EXCEPT ![n] = "active"] ELSE UNCHANGED ev
       /\ task' = [task EXCEPT ![h].at = "attempt", ![h].k = CountTries(n)]
  /\ UNCHANGED <<Rest, exp, best, node, branch, run, res, dec, noted, att, sub, ledger,
                 sweep, due>>

\* The attempt and its intent in one commit, if the number is free and the run
\* open; the evaluator or the budget may refuse, and the run fails.
CreateEvaluationAttempt(h) ==
  /\ At(h, "attempt")
  /\ LET n == task[h].n
         a == <<n, task[h].k>>
     IN \/ /\ ev[n] # "active" \/ att[a] # "none"
           /\ Refused(h) /\ UNCHANGED watch
        \/ /\ ev[n] = "active" /\ att[a] = "none" /\ RequireBudget(FALSE)
           /\ att' = [att EXCEPT ![a] = "live"]
           /\ sub' = [sub EXCEPT ![a] = "intended"]
           /\ watch' = [watch EXCEPT ![h] = @ \cup {a}]
           /\ task' = [task EXCEPT ![h] = NoTask]
           /\ UNCHANGED <<exp, best, node, branch, run, ev, res, dec, noted, ledger, sweep, due>>
        \/ /\ ev[n] = "active" /\ att[a] = "none"
           /\ ev' = [ev EXCEPT ![n] = "failed"]
           /\ task' = [task EXCEPT ![h].at = "node", ![h].k = IF RequireBudget(FALSE) THEN 0 ELSE -1]
           /\ UNCHANGED <<exp, best, node, branch, run, res, dec, noted, att, sub, ledger,
                          watch, sweep, due>>
  /\ UNCHANGED <<setup, out, up, pass, esc, crashes>>

\* _reconcile_node and reconcile_evaluating_node: wait, decide or stall.
Evaluated(n) == ev[n] = "succeeded"

ReconcileNode(h) ==
  /\ At(h, "node")
  /\ LET n == task[h].n
         next == IF task[h].k = -1 THEN "exhaust" ELSE "done"
         OnTo(s) == IF s = "done" THEN Done(h) ELSE Go(h, s) /\ UNCHANGED due
     IN IF node[n] # "evaluating" \/ ev[n] \in {"created", "active"}
          THEN OnTo(next) /\ UNCHANGED <<node, noted>>
        ELSE IF Evaluated(n)
          THEN /\ node' = [node EXCEPT ![n] = "deciding"]
               /\ OnTo("decide") /\ UNCHANGED noted
        ELSE /\ noted' = [noted EXCEPT ![n] = TRUE]
             /\ OnTo(next) /\ UNCHANGED node
  /\ UNCHANGED <<Rest, exp, best, branch, run, ev, res, dec, att, sub, ledger, sweep>>

\* Another host moved the node between _reconcile_node's look and the commit of
\* reconcile_evaluating_node, which raises.
ReconcileRefused(h) ==
  /\ At(h, "node") /\ setup.hosts # {h} /\ node[task[h].n] # "evaluating"
  /\ Refused(h)
  /\ UNCHANGED Rest

-----------------------------------------------------------------------------
(* Decision. *)

\* _decide reads.
ReadDecision(h) ==
  /\ At(h, "decide")
  /\ LET n == task[h].n IN
       IF node[n] = "deciding" /\ exp \notin Ended
         THEN Go(h, "record") /\ UNCHANGED due ELSE Done(h)
  /\ UNCHANGED <<Rest, record, sweep>>

\* DecisionOutcome.node_status.
NodeStatus(d) == IF d \in {"STOP_SUCCEEDED", "BRANCH"} THEN "completed" ELSE "rejected"

\* _conclude_experiment: a STOP ends an ACTIVE experiment.
Conclude(n, d) ==
  IF exp = "active" /\ d \in {"STOP_SUCCEEDED", "STOP_FAILED"}
    THEN /\ exp' = IF d = "STOP_SUCCEEDED" THEN "succeeded" ELSE "failed"
         /\ best' = IF d = "STOP_SUCCEEDED" THEN n ELSE best
    ELSE UNCHANGED <<exp, best>>

\* record_decision.  A cycle already decided is returned: the engine is a
\* function of the recorded context, so the proposal is the same.
RecordDecision(h) ==
  /\ At(h, "record") /\ Decide(res[task[h].n]) # "undecidable"
  /\ LET n == task[h].n
         d == Decide(res[n])
     IN IF dec[n] # "none" THEN Done(h) /\ UNCHANGED record
        ELSE /\ dec' = [dec EXCEPT ![n] = d]
             /\ node' = [node EXCEPT ![n] = NodeStatus(d)]
             /\ Conclude(n, d)
             /\ Done(h)
             /\ UNCHANGED <<branch, run, ev, res, noted, att, sub, ledger>>
  /\ UNCHANGED <<Rest, sweep>>

\* defer_decision: an UndecidableError is noted, and the node stays DECIDING.
DeferDecision(h) ==
  /\ At(h, "record") /\ Decide(res[task[h].n]) = "undecidable"
  /\ noted' = [noted EXCEPT ![task[h].n] = TRUE]
  /\ Done(h)
  /\ UNCHANGED <<Rest, exp, best, node, branch, run, ev, res, dec, att, sub, ledger, sweep>>

\* exhaust_budget: only an ACTIVE experiment, and only once nothing is live.
Exhaustable == exp = "active" /\ LiveAttempts = {}

ExhaustBudget(h) ==
  /\ At(h, "exhaust")
  /\ exp' = IF Exhaustable THEN "exhausted" ELSE exp
  /\ Done(h)
  /\ UNCHANGED <<Rest, best, node, branch, run, ev, res, dec, noted, att, sub, ledger, sweep>>

-----------------------------------------------------------------------------
(* The adaptive loop: one pass at a time, under the experiment's lock. *)

MaxRounds == 3   \* _ADAPTIVE_ROUNDS

PassEnds(h) == pass' = [pass EXCEPT ![h] = NoPass]

\* _continue_adaptive_experiment takes the lock; an escalated experiment is
\* left alone.
StartPass(h) ==
  /\ Idle(h) /\ due[h] /\ pass[h].at = "none"
  /\ due' = [due EXCEPT ![h] = FALSE]
  /\ pass' = [pass EXCEPT ![h] = IF esc[h] THEN NoPass ELSE [NoPass EXCEPT !.at = "round"]]
  /\ UNCHANGED <<setup, record, out, up, task, watch, sweep, esc, crashes>>

\* One round, up to its await: the stage is read and one step begun.
\* _plan_next_candidate asks nobody once a quota is used up.
Round(h) ==
  /\ Idle(h) /\ pass[h].at = "round"
  /\ \/ /\ \/ pass[h].round = MaxRounds \/ exp # "active"
           \/ NextStage \notin {"training", "planning"}
           \/ NextStage = "planning" /\ ~setup.planner
        /\ PassEnds(h) /\ UNCHANGED exp
     \/ /\ pass[h].round < MaxRounds /\ exp = "active" /\ NextStage = "planning"
        /\ setup.planner /\ Exhausted
        /\ exp' = IF Exhaustable THEN "exhausted" ELSE exp
        /\ PassEnds(h)
     \/ /\ pass[h].round < MaxRounds /\ exp = "active" /\ NextStage = "planning"
        /\ setup.planner /\ ~Exhausted
        /\ pass' = [pass EXCEPT ![h].at = "propose", ![h].ctx = Context, ![h].round = @ + 1]
        /\ UNCHANGED exp
     \/ /\ pass[h].round < MaxRounds /\ exp = "active" /\ NextStage = "training"
        /\ \E n \in Nodes :
             /\ node[n] = "planned"
             /\ pass' = [pass EXCEPT ![h].at = "realize", ![h].n = n]
        /\ UNCHANGED exp
  /\ UNCHANGED <<setup, best, node, branch, run, ev, res, dec, noted, att, sub, ledger, out,
                 up, task, watch, sweep, due, esc, crashes>>

\* An _AdaptiveStopError or a refusal ends the pass and is escalated.
Escalate(h) ==
  /\ PassEnds(h)
  /\ esc' = [esc EXCEPT ![h] = TRUE]

\* The planner answers with nothing, or with what the driver has no policy for.
PlannerDeclines(h) ==
  /\ Idle(h) /\ pass[h].at = "propose"
  /\ \/ PassEnds(h) /\ UNCHANGED esc
     \/ Escalate(h)
  /\ UNCHANGED <<setup, record, out, up, task, watch, sweep, due, crashes>>

\* materialize_candidate_proposal: the planner has answered with one candidate,
\* a child of some settled node; `runs' says whether the compiler can run it
\* from that one parent.
\* Mutant: the context is not compared again.
FreshAlways(h) == TRUE

Fresh(h) == pass[h].ctx = Context

Materialize(h, c, p, runs) ==
  /\ Idle(h) /\ pass[h].at = "propose"
  /\ LET same == {n \in Existing : branch[n].cand = c}
         origin == <<pass[h].ctx, p, runs>>
         free == Nodes \ Existing
         next == Cardinality(Existing) + 1
     IN \/ /\ \E n \in same : branch[n].origin = origin
           /\ pass' = [pass EXCEPT ![h].at = "round"]
           /\ UNCHANGED <<record, esc>>
        \/ /\ same # {} /\ \A n \in same : branch[n].origin # origin
           /\ Escalate(h) /\ UNCHANGED record
        \/ /\ same = {} /\ exp # "active"
           /\ Escalate(h) /\ UNCHANGED record
        \/ /\ same = {} /\ exp = "active" /\ ~Fresh(h)
           /\ pass' = [pass EXCEPT ![h].at = "round"]
           /\ UNCHANGED <<record, esc>>
        \/ /\ same = {} /\ exp = "active" /\ Fresh(h) /\ ~Exhausted
           /\ free # {}
           /\ node' = [node EXCEPT ![next] = "planned"]
           /\ branch' = [branch EXCEPT ![next] =
                           [cand |-> c, parent |-> p, origin |-> origin, runs |-> runs]]
           /\ pass' = [pass EXCEPT ![h].at = "round"]
           /\ UNCHANGED <<exp, best, run, ev, res, dec, noted, att, sub, ledger, esc>>
  /\ UNCHANGED <<setup, out, up, task, watch, sweep, due, crashes>>

\* _realize_planned_candidate: what it refuses before any effect.
Unrealizable(n) ==
  ~branch[n].runs \/ branch[n].parent = 0 \/ run[branch[n].parent] # "succeeded"

\* realize_planned_node: overtaken by another caller, without a run left,
\* waiting for a slot, or the node, its run, the attempt and the intent in one
\* commit.
Realize(h) ==
  /\ Idle(h) /\ pass[h].at = "realize"
  /\ LET n == pass[h].n
     IN \/ /\ \/ Unrealizable(n)
              \/ node[n] = "planned" /\ exp # "active"
           /\ Escalate(h) /\ UNCHANGED <<record, watch>>
        \/ /\ ~Unrealizable(n) /\ node[n] # "planned"
           /\ PassEnds(h) /\ UNCHANGED <<record, watch, esc>>
        \/ /\ ~Unrealizable(n)
           /\ node[n] = "planned" /\ exp = "active" /\ ~RequireBudget(TRUE)
           /\ exp' = IF Exhaustable THEN "exhausted" ELSE exp
           /\ PassEnds(h)
           /\ UNCHANGED <<best, node, branch, run, ev, res, dec, noted, att, sub, ledger,
                          watch, esc>>
        \/ /\ ~Unrealizable(n)
           /\ node[n] = "planned" /\ exp = "active" /\ RequireBudget(TRUE) /\ Capacity
           /\ node' = [node EXCEPT ![n] = "active"]
           /\ run' = [run EXCEPT ![n] = "active"]
           /\ att' = [att EXCEPT ![<<n, 0>>] = "live"]
           /\ sub' = [sub EXCEPT ![<<n, 0>>] = "intended"]
           /\ ledger' = Reserved(n)
           /\ watch' = [watch EXCEPT ![h] = @ \cup {<<n, 0>>}]
           /\ PassEnds(h)
           /\ UNCHANGED <<exp, best, branch, ev, res, dec, noted, esc>>
  /\ UNCHANGED <<setup, out, up, task, sweep, due, crashes>>

-----------------------------------------------------------------------------
(* Crash, restart and attach(). *)

\* The process ends with all its memory; the record stays.
Crash(h) ==
  /\ up[h] /\ crashes < setup.deaths
  /\ crashes' = crashes + 1
  /\ up' = [up EXCEPT ![h] = FALSE]
  /\ task' = [task EXCEPT ![h] = NoTask]
  /\ watch' = [watch EXCEPT ![h] = {}]
  /\ sweep' = [sweep EXCEPT ![h] = 0]
  /\ due' = [due EXCEPT ![h] = FALSE]
  /\ pass' = [pass EXCEPT ![h] = NoPass]
  /\ esc' = [esc EXCEPT ![h] = FALSE]
  /\ UNCHANGED <<setup, record, out>>

\* A new process attaches.
Restart(h) ==
  /\ ~up[h] /\ h \in setup.hosts
  /\ up' = [up EXCEPT ![h] = TRUE]
  /\ sweep' = [sweep EXCEPT ![h] = IF exp = "none" THEN 0 ELSE 1]
  /\ UNCHANGED <<setup, record, out, task, watch, due, pass, esc, crashes>>

\* attach() by a process that is up and drives nothing.
Attach(h) ==
  /\ Idle(h) /\ sweep[h] = 0 /\ watch[h] = {} /\ exp # "none"
  /\ crashes < setup.deaths
  /\ crashes' = crashes + 1
  /\ sweep' = [sweep EXCEPT ![h] = 1]
  /\ UNCHANGED <<setup, record, out, up, task, watch, due, pass, esc>>

\* _wait: with nothing left to observe, the adaptive loop gets its chance.
Wait(h) ==
  /\ Idle(h) /\ watch[h] = {} /\ sweep[h] = 0 /\ exp # "none"
  /\ ~due[h] /\ pass[h].at = "none" /\ NextStage \in {"planning", "training"} /\ ~esc[h]
  /\ due' = [due EXCEPT ![h] = TRUE]
  /\ UNCHANGED <<setup, record, out, up, task, watch, sweep, pass, esc, crashes>>

\* _reconcile and _reconcile_evaluation, one node: its unsettled attempts are
\* adopted, and what a crash left between two commits is carried on.
Unsettled(n) ==
  {a \in LiveAttempts : a[1] = n /\ (a[2] = 0 \/ ev[n] \in {"created", "active"})}

\* Mutant: a run whose attempt is live gets another.
CarryOnAgain(n) ==
  CASE node[n] = "active" -> "evaluate"
    [] node[n] = "deciding" -> "decide"
    [] node[n] = "evaluating" -> IF ev[n] \in {"created", "active"} THEN "start" ELSE "node"
    [] OTHER -> "idle"

CarryOn(n) ==
  CASE node[n] = "active" -> "evaluate"
    [] node[n] = "deciding" -> "decide"
    [] node[n] = "evaluating" ->
         IF ev[n] \notin {"created", "active"} \/ Unsettled(n) # {} THEN "node"
         ELSE IF Tries(n) # {} THEN "evrun"
         ELSE IF exp = "active" THEN "start" ELSE "node"
    [] OTHER -> "idle"

Sweep(h) ==
  /\ Idle(h) /\ sweep[h] > 0
  /\ LET n == sweep[h] IN
       IF n \notin Existing
         THEN /\ sweep' = [sweep EXCEPT ![h] = 0]
              /\ due' = [due EXCEPT ![h] = TRUE]
              /\ UNCHANGED <<task, watch>>
         ELSE LET refused == {a \in Unsettled(n) : sub[a] = "failed"} IN
              /\ watch' = [watch EXCEPT ![h] = @ \cup (Unsettled(n) \ refused)]
              /\ IF refused # {}
                   THEN \E a \in refused :
                          task' = [task EXCEPT ![h] = [at |-> "unmeasured", n |-> n,
                                                       k |-> a[2], then |-> "sweep"]]
                   ELSE task' = [task EXCEPT ![h] =
                          IF CarryOn(n) = "idle" THEN NoTask
                          ELSE [at |-> CarryOn(n), n |-> n, k |-> 0, then |-> "sweep"]]
              /\ sweep' = [sweep EXCEPT ![h] = n + 1]
              /\ UNCHANGED due
  /\ UNCHANGED <<setup, record, out, up, pass, esc, crashes>>

-----------------------------------------------------------------------------
Chain(h) ==
  \/ SettleTrainingRun(h) \/ SettleUnmeasured(h) \/ SettleEvaluationRun(h)
  \/ ContinueToEvaluation(h) \/ BeginCycle(h) \/ StartEvaluationRun(h)
  \/ CreateEvaluationAttempt(h) \/ ReconcileNode(h)
  \/ ReconcileRefused(h) \/ ReadDecision(h)
  \/ RecordDecision(h) \/ DeferDecision(h) \/ ExhaustBudget(h)

Observe(h, a) == SettleTraining(h, a) \/ RecordResult(h, a) \/ EndsUnmeasured(h, a)

Answer(h) ==
  \/ PlannerDeclines(h)
  \/ \E c \in Candidates, p \in Existing, runs \in BOOLEAN : Materialize(h, c, p, runs)

Drive(h) ==
  \/ Chain(h) \/ Sweep(h) \/ StartPass(h) \/ Round(h) \/ Answer(h) \/ Realize(h)
  \/ \E a \in Attempts : Confirm(h, a) \/ Reject(h, a) \/ Overtaken(h, a) \/ Observe(h, a)

Next ==
  \/ \E h \in Hosts : Admit(h) \/ Drive(h) \/ Crash(h) \/ Restart(h) \/ Attach(h) \/ Wait(h)
  \/ \E a \in Attempts : RuntimeEnds(a)

Spec == Init /\ [][Next]_vars

\* A live process runs its coroutines, a workload ends, and a host that died
\* is started again: the daemon by its supervisor, an embedded host by its user.
Fairness ==
  /\ \A h \in Hosts : WF_vars(Drive(h)) /\ WF_vars(Restart(h))
  /\ \A a \in Attempts : WF_vars(RuntimeEnds(a))

FairSpec == Spec /\ Fairness

-----------------------------------------------------------------------------
(* Properties. *)

LifecycleTypeOK ==
  /\ setup \in Setups
  /\ exp \in {"none", "active"} \cup Ended
  /\ best \in {0} \cup Nodes
  /\ node \in [Nodes -> {"none", "planned", "active", "evaluating", "deciding"} \cup Settled]
  /\ \A n \in Nodes : branch[n].cand \in Candidates /\ branch[n].parent \in 0..(n - 1)
  /\ run \in [Nodes -> {"none", "active", "succeeded", "failed"}]
  /\ ev \in [Nodes -> {"none", "created", "active", "succeeded", "failed"}]
  /\ res \in [Nodes -> Measurements \cup {<<>>}]
  /\ dec \in [Nodes -> {"none"} \cup Outcomes]
  /\ noted \in [Nodes -> BOOLEAN]
  /\ att \in [Attempts -> {"none", "live", "succeeded", "failed", "preempted"}]
  /\ sub \in [Attempts -> {"none", "intended", "confirmed", "failed"}]
  /\ \A e \in ledger : e[1] \in DOMAIN Limit
  /\ up \in [Hosts -> BOOLEAN]
  /\ \A h \in Hosts : task[h].at \in Steps /\ task[h].n \in Nodes
  /\ watch \in [Hosts -> SUBSET Attempts]
  /\ sweep \in [Hosts -> 0..(MaxNodes + 1)]
  /\ crashes \in 0..setup.deaths

Alone == \E h \in Hosts : setup.hosts = {h}

\* _settle_budget's claim: every entry is written with the change that causes
\* it, so at no commit does the ledger say less, or more, than the record:
\* settle_budget, run when a host attaches, never finds anything to write.
LedgerAgrees ==
  ledger = Entries(UNION {
    UNION {{<<d, "reserve", n>> : d \in {"runs", "slots"}} : n \in {m \in Nodes : run[m] # "none"}},
    UNION {{<<d, "commit", n>> : d \in {"runs", "slots"}} :
             n \in {m \in Nodes : sub[<<m, 0>>] = "confirmed"}},
    {<<"slots", "release", n>> : n \in {m \in Nodes : att[<<m, 0>>] \notin {"none", "live"}}},
    {<<"runs", IF sub[<<n, 0>>] = "confirmed" THEN "consume" ELSE "release", n>> :
       n \in {m \in Nodes : run[m] \in {"succeeded", "failed"}}},
    {<<"failures", "consume", a>> : a \in {b \in Attempts : att[b] = "failed"}}})

\* The limits hold for what really happened, not only in the ledger: no more
\* runs were ever submitted than the budget allows and no more train at once
\* than it has slots, whoever plans, realizes, fails or is refused in between.
WithinBudget ==
  /\ "runs" \in DOMAIN Limit =>
       Cardinality({n \in Nodes : sub[<<n, 0>>] = "confirmed"}) <= Limit["runs"]
  /\ "slots" \in DOMAIN Limit =>
       Cardinality({a \in LiveAttempts : a[2] = 0}) <= Limit["slots"]

\* exhaust_budget's claim: an experiment is terminal only when no workload it
\* owns is still executing.
TerminalMeansStopped == exp \in Ended => LiveAttempts = {}

\* The same where one controller at a time drives the experiment.
AloneTerminalMeansStopped == Alone => TerminalMeansStopped

\* A candidate is decided on the measurement its own evaluation recorded and
\* on nothing else, each at most once and as the engine says; the experiment
\* ends with the outcome, and the best node, of exactly one such decision.
DecisionHonest ==
  /\ \A n \in Nodes :
       /\ dec[n] # "none" <=> node[n] \in Settled
       /\ dec[n] # "none" => res[n] # <<>> /\ "absent" \notin {res[n][1], res[n][2]}
       /\ dec[n] = "REJECT" <=> dec[n] # "none" /\ res[n][2] = "violated"
       /\ dec[n] = "STOP_SUCCEEDED" => res[n] = <<"met", "held">>
       /\ dec[n] \in {"STOP_FAILED", "BRANCH"} => res[n] = <<"missed", "held">>
       /\ res[n] # <<>> <=> ev[n] = "succeeded"
  /\ exp = "succeeded" <=> best # 0
  /\ exp = "succeeded" => dec[best] = "STOP_SUCCEEDED"
  /\ exp = "failed" => \E n \in Nodes : dec[n] = "STOP_FAILED"
  /\ Cardinality({n \in Nodes : dec[n] \in {"STOP_SUCCEEDED", "STOP_FAILED"}}) <= 1

\* However many hosts plan at once, one candidate is open at a time, no
\* candidate is ever a second node, and each is branched from one whose
\* decision left room for another.
OneCandidateAtATime ==
  /\ Cardinality({n \in Existing : node[n] \notin Settled}) <= 1
  /\ \A m, n \in Existing : m # n => branch[m].cand # branch[n].cand
  /\ \A n \in Existing \ {1} : ForPlanning(branch[n].parent)

\* A restarted controller has nothing left to find: once every host is up and
\* at rest, whatever the crashes were, the record waits for nobody but the
\* planner or a person.  (A training run left open behind its ended attempt is
\* Submission's TrainingCloses.)
AtRest(h) ==
  /\ up[h] /\ task[h] = NoTask /\ watch[h] = {} /\ sweep[h] = 0
  /\ ~due[h] /\ pass[h] = NoPass /\ ~esc[h]

NothingForgotten ==
  Alone /\ exp = "active" /\ (\A h \in setup.hosts : AtRest(h)) =>
    /\ LiveAttempts = {}
    /\ \A n \in Nodes :
         /\ ev[n] \notin {"created", "active"}
         /\ node[n] \in {"evaluating", "deciding"} => noted[n]
         /\ node[n] = "active" => run[n] # "succeeded"
         /\ node[n] # "planned"

\* Every experiment one controller drives comes to rest, whatever the crashes:
\* it ends, or it waits for someone who is not the controller.
EventuallyRests ==
  exp = "active" /\ Alone ~> \/ exp \in Ended
                             \/ \A h \in setup.hosts : esc[h] \/ AtRest(h)

\* The ledger agrees with the record and stays within its limits.
BudgetKept == LifecycleTypeOK /\ LedgerAgrees /\ WithinBudget

\* Decisions rest on measurements, and candidates on decisions.
BranchingSound == DecisionHonest /\ OneCandidateAtATime

\* The end of an experiment is the end of its work, and rest is not forgetting.
NothingLeftBehind == AloneTerminalMeansStopped /\ NothingForgotten
=============================================================================
