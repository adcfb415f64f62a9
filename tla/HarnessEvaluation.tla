------------------------- MODULE HarnessEvaluation -------------------------
(***************************************************************************)
(* Measuring one execution replicate of a harness: the attempts that a     *)
(* trajectory store lists for each assigned task are assembled into        *)
(* evidence and verified (harness/evidence.py), the evidence is published  *)
(* once, and an evaluation verifies it again against the store and the     *)
(* benchmark source, measures every task, aggregates, withholds what the   *)
(* disclosure policy keeps back and writes its reports                     *)
(* (evaluation/harness.py, core/harness_evaluation.py, benchmarks).        *)
(*                                                                         *)
(* The store is not the evaluator's: a task can be tried again, an attempt *)
(* can be sealed, moved to quarantine or damaged at any time, the suite's  *)
(* alias can move and the source can lose what it held.                    *)
(*                                                                         *)
(* Digests are taken to be injective, so an evidence record is its own     *)
(* digest.  Of the metric catalog four metrics stand for the classes that  *)
(* differ: task_success is derived from the reference, total_tokens is the *)
(* outcome attempt's, retries is always known, and spend is every          *)
(* attempt's.  A token count is a number of unit calls.                    *)
(***************************************************************************)
EXTENDS Integers, Sequences, FiniteSets, SequencesExt, FiniteSetsExt, Functions

CONSTANTS
  Members,         \* the suite's tasks: 1 .. n, by position
  EvalSetups,      \* evaluations, see EvalSetupOK
  MaxRetries       \* bound: attempts beyond the first, of all tasks

VARIABLES
  spec,       \* the evaluation asked for; see EvalSetupOK
  trials,     \* the trajectory store: per assigned task, its attempts in order
  alias,      \* the revision the suite's alias names
  holds,      \* the source still holds every byte of revision 1
  assembled,  \* evidence assembled and not yet published
  subject,    \* the published evidence, or NoEvidence
  pinned,     \* the revision the bound spec names, 0 before bind_evaluation
  stage,      \* where the evaluation in progress is
  moved,      \* the store or the source changed between verifying and reading
  outcomes,   \* the evaluations that ended, in order
  reports,    \* report.json of each output directory
  sent,       \* tasks whose reference went to a judge
  disturbed

storeVars == <<trials, alias, holds>>
evidenceVars == <<assembled, subject>>
evalVars == <<spec, storeVars, evidenceVars, pinned, stage, moved, outcomes, reports, sent, disturbed>>

NoEvidence == <<>>
NoReport == <<>>   \* a report is kept as a sequence of one

(* kind, access: the evaluator and whether its judge sees the reference;   *)
(* disclosure; sampling and its count; carries: the grant in the           *)
(* execution, of this host, of another host or none; asks: the alias, or   *)
(* revision 1 by its pin; times: how often the evidence is evaluated;      *)
(* hostile: how often an attempt or the source is disturbed.  The last two *)
(* are bounds.                                                             *)
EvalSetupOK(s) ==
  /\ s.kind \in {"outcome", "judge"}
  /\ s.access \in {"none", "reference"}
  /\ s.disclosure \in {"aggregate", "per-task"}
  /\ s.sampling \in {"all", "first", "seeded-sample"}
  /\ s.count \in 1 .. Cardinality(Members)
  /\ s.carries \in {"none", "host", "foreign"}
  /\ s.asks \in {"alias", "pin"}
  /\ s.times \in Nat \ {0} /\ s.hostile \in Nat
  /\ s.kind = "outcome" => s.access = "none"

ASSUME EvaluationAssumption ==
  /\ Members = 1 .. Cardinality(Members)
  /\ \A s \in EvalSetups : EvalSetupOK(s)
  /\ MaxRetries \in Nat

-----------------------------------------------------------------------------
(* The store, from the side of who fills it. *)

\* assign_tasks.  A seeded sample takes the first by a hash of seed, suite and
\* task; which order that is does not matter.
HashRank(t) == -t

Assigned ==
  LET firstBy(rank(_)) == {t \in Members : Cardinality({u \in Members : rank(u) < rank(t)}) < spec.count}
      position(t) == t IN
    CASE spec.sampling = "all" -> Members
      [] spec.sampling = "first" -> firstBy(position)
      [] spec.sampling = "seeded-sample" -> firstBy(HashRank)

\* One attempt as its open record and manifest show it.  `gap': a model call
\* started and never finished; `lost': sealed post-commit-evidence-lost.
Attempt(state, term, gap, lost) ==
  [state |-> state, term |-> term, gap |-> gap, lost |-> lost, held |-> "attempts", intact |-> TRUE]

Terms == {"right", "wrong", "stopped", "cancelled"}

Attested(a) == a.state = "complete"

EvalInit ==
  /\ spec \in EvalSetups
  /\ trials = [t \in Assigned |-> <<>>]
  /\ alias = 1 /\ holds = TRUE
  /\ assembled = NoEvidence /\ subject = NoEvidence
  /\ pinned = 0 /\ stage = "idle" /\ moved = FALSE
  /\ outcomes = <<>> /\ reports = [d \in 1 .. spec.times |-> NoReport]
  /\ sent = {} /\ disturbed = 0

\* Whatever changes the store or the source while an evaluation is between
\* its verification and its reading is something it does not see coming.
Moves == moved' = (moved \/ stage = "verified")

NotStore == UNCHANGED <<spec, evidenceVars, pinned, stage, outcomes, reports, sent>>

Retried == MapThenSumSet(LAMBDA t : Max({Len(trials[t]) - 1, 0}), Assigned)

\* A task is tried (again): only while no attempt of it has published a result.
Try(t) ==
  /\ pinned # 0
  /\ trials[t] # <<>> => Retried < MaxRetries
  /\ \A i \in DOMAIN trials[t] : trials[t][i].state = "partial"
  /\ trials' = [trials EXCEPT ![t] = Append(@, Attempt("open", "none", FALSE, FALSE))]
  /\ Moves /\ NotStore
  /\ UNCHANGED <<alias, holds, disturbed>>

\* The attempt's writer, or the reconciler, seals it.
Seal(t, a) ==
  /\ trials[t] # <<>> /\ Last(trials[t]).state = "open"
  /\ trials' = [trials EXCEPT ![t] = [@ EXCEPT ![Len(@)] = a]]
  /\ Moves /\ NotStore
  /\ UNCHANGED <<alias, holds, disturbed>>

Sealings ==
  {Attempt("complete", term, FALSE, FALSE) : term \in Terms} \cup
  {Attempt("partial", "none", gap, FALSE) : gap \in BOOLEAN} \cup
  {Attempt("partial", "none", FALSE, TRUE)}

Disturb ==
  /\ disturbed < spec.hostile
  /\ disturbed' = disturbed + 1
  /\ Moves /\ NotStore

\* contain_attempt moves a sealed attempt to quarantine.
ContainTrial(t, i) ==
  /\ Disturb
  /\ trials[t][i].held = "attempts" /\ trials[t][i].state # "open"
  /\ trials' = [trials EXCEPT ![t][i].held = "quarantine"]
  /\ UNCHANGED <<alias, holds>>

\* Chunks, blobs or the result of a sealed attempt lose their bytes.
DamageTrial(t, i) ==
  /\ Disturb
  /\ trials[t][i].intact /\ trials[t][i].state # "open"
  /\ trials' = [trials EXCEPT ![t][i].intact = FALSE]
  /\ UNCHANGED <<alias, holds>>

MoveAlias ==
  /\ Disturb
  /\ alias = 1 /\ alias' = 2
  /\ UNCHANGED <<trials, holds>>

LoseContent ==
  /\ Disturb
  /\ holds /\ holds' = FALSE
  /\ UNCHANGED <<trials, alias>>

-----------------------------------------------------------------------------
(* Evidence. *)

\* attempts_for: what the store lists for a task; a quarantined attempt is a
\* problem of the listing.
Listed(t) == {i \in DOMAIN trials[t] : trials[t][i].held = "attempts"}
ListingProblems(t) == {i \in DOMAIN trials[t] : trials[t][i].held = "quarantine"}

\* _entry: every sealed attempt, and the first that is complete.
EntryOf(t) ==
  LET sealed == {i \in Listed(t) : trials[t][i].state # "open"}
      complete == {i \in sealed : Attested(trials[t][i])} IN
    [attempts |-> {[id |-> i, state |-> trials[t][i].state, lost |-> trials[t][i].lost] : i \in sealed},
     outcome |-> IF complete = {} THEN 0 ELSE Min(complete),
     term |-> IF complete = {} THEN "none" ELSE trials[t][Min(complete)].term]

\* _attempt_reasons: what the entry says of an attempt is what is sealed, and
\* verify_trajectory finds nothing.
ClaimRefused(t, claimed) ==
  LET a == trials[t][claimed.id] IN
    a.state # claimed.state \/ a.lost # claimed.lost \/ ~a.intact

CompleteAndVerified(t, entry) ==
  {c.id : c \in {c \in entry.attempts : /\ c.id \in Listed(t)
                                        /\ trials[t][c.id].intact
                                        /\ Attested(trials[t][c.id])}}

\* _state_reasons.
StateRefused(t, entry) ==
  LET verified == CompleteAndVerified(t, entry) IN
    \/ Cardinality(verified) > 1
    \/ entry.outcome = 0 /\ verified # {}
    \/ entry.outcome # 0 /\ \/ entry.outcome \notin verified
                            \/ trials[t][entry.outcome].term # entry.term

\* _entry_reasons: each entry's attempts equal the store's.
\* Mutant: attempts the entry leaves out are let pass.
EntryRefusedLoosely(t, entry) ==
  \/ entry.attempts = {}
  \/ ListingProblems(t) # {}
  \/ \E c \in entry.attempts : c.id \notin Listed(t) \/ ClaimRefused(t, c)
  \/ StateRefused(t, entry)

EntryRefused(t, entry) ==
  \/ entry.attempts = {}
  \/ ListingProblems(t) # {}
  \/ \E i \in Listed(t) : trials[t][i].state = "open" \/ i \notin {c.id : c \in entry.attempts}
  \/ \E c \in entry.attempts : c.id \notin Listed(t) \/ ClaimRefused(t, c)
  \/ StateRefused(t, entry)

\* verify_suite_content: every attachment, reference and snapshot is fetched
\* and has its digest.
SuiteContentHeld == holds

\* verify_assignment: the tasks are the ones the suite, the policy and the
\* seed assign.
AssignmentVerifies(e) == DOMAIN e = Assigned

EvidenceVerifies(e) ==
  /\ SuiteContentHeld
  /\ AssignmentVerifies(e)
  /\ \A t \in Assigned : ~EntryRefused(t, e[t])

\* assemble_evidence verifies what it read before it returns it.
Assemble ==
  LET e == [t \in Assigned |-> EntryOf(t)] IN
    /\ assembled = NoEvidence
    /\ EvidenceVerifies(e)
    /\ assembled' = e
    /\ UNCHANGED <<spec, storeVars, subject, pinned, stage, moved, outcomes, reports, sent, disturbed>>

\* publish_evidence: write_new, once; the same bytes again change nothing and
\* other bytes are refused.
PublishEvidence ==
  /\ assembled # NoEvidence
  /\ assembled' = NoEvidence
  /\ subject' = IF subject = NoEvidence THEN assembled ELSE subject
  /\ UNCHANGED <<spec, storeVars, pinned, stage, moved, outcomes, reports, sent, disturbed>>

-----------------------------------------------------------------------------
(* What is measured. *)

Value(n) == [absent |-> "no", value |-> n]
AbsentFor(reason) == [absent |-> reason, value |-> 0]
Seen(o) == o.absent = "no"

\* Tasks differ in what one of their attempts costs.
Weight(t) == t

\* The replies an attempt recorded, and what it really spent.
SpentKnown(t, a) == IF a.lost \/ ~a.intact THEN 0 ELSE Weight(t)
SpentReally(t, a) == Weight(t) + (IF a.gap THEN 1 ELSE 0)

\* _read_tasks: the outcome attempt the evidence names, if the store still
\* lists it, and every listed attempt.
ResultOf(t) ==
  IF subject[t].outcome \in Listed(t) THEN trials[t][subject[t].outcome].term ELSE "none"

\* success_observation.
SuccessObservation(result) ==
  CASE result = "none" -> AbsentFor("no-attested-result")
    [] result = "cancelled" -> AbsentFor("unscored-cancelled")
    [] result = "right" -> Value(1)
    [] OTHER -> Value(0)

\* execution_observations.
SpendObservation(t) ==
  IF \E i \in Listed(t) : trials[t][i].lost \/ trials[t][i].gap
    THEN AbsentFor("spend-unaccounted")
    ELSE Value(MapThenSumSet(LAMBDA i : SpentKnown(t, trials[t][i]), Listed(t)))

ExecutionObservations(t) ==
  [total_tokens |-> IF ResultOf(t) = "none" THEN AbsentFor("no-attested-result") ELSE Value(Weight(t)),
   retries |-> Value(Cardinality(Listed(t)) - 1),
   spend |-> SpendObservation(t)]

OutcomeMetrics == {"task_success", "total_tokens", "retries", "spend"}
ReferenceDerived == {"task_success", "quality"}

\* _judge: only an attested answer is judged; the judge may fail.
JudgeFailed == -1
JudgeAsked(t) == ResultOf(t) \in {"right", "wrong"}

QualityObservation(t, reply) ==
  CASE ResultOf(t) = "none" -> AbsentFor("no-attested-result")
    [] ResultOf(t) = "cancelled" -> AbsentFor("unscored-cancelled")
    [] ResultOf(t) = "stopped" -> AbsentFor("not-applicable")
    [] OTHER -> IF reply = JudgeFailed THEN AbsentFor("judge-failed") ELSE Value(reply)

Observe(success, t) ==
  [m \in OutcomeMetrics |-> IF m = "task_success" THEN success[t] ELSE ExecutionObservations(t)[m]]

-----------------------------------------------------------------------------
(* aggregate_run: over all the assigned tasks or not at all.  A mean is its *)
(* sum and its count.                                                      *)

RunValueOf(obs, m, ts, slice) ==
  [metric |-> m, slice |-> slice, sum |-> MapThenSumSet(LAMBDA t : obs[t][m].value, ts),
   count |-> Cardinality(ts)]

SucceededTasks(obs) ==
  IF /\ \A t \in DOMAIN obs : "task_success" \in DOMAIN obs[t]
     /\ \A t \in DOMAIN obs : Seen(obs[t]["task_success"])
    THEN {t \in DOMAIN obs : obs[t]["task_success"].value = 1}
    ELSE {}

AggregateRun(obs, metrics) ==
  LET whole == {m \in metrics : \A t \in DOMAIN obs : Seen(obs[t][m])} IN
    {RunValueOf(obs, m, DOMAIN obs, FALSE) : m \in whole} \cup
    {RunValueOf(obs, m, SucceededTasks(obs), TRUE) :
       m \in {m \in whole \ ReferenceDerived : SucceededTasks(obs) # {}}}

AbsencesOf(obs, metrics) ==
  {[metric |-> m, reason |-> r, tasks |-> Cardinality({t \in DOMAIN obs : obs[t][m].absent = r})] :
     <<m, r>> \in {x \in metrics \X {"no-attested-result", "unscored-cancelled", "not-applicable",
                                     "judge-failed", "spend-unaccounted"} :
                     \E t \in DOMAIN obs : obs[t][x[1]].absent = x[2]}}

\* A score over one task, and a mean over the tasks that succeeded, tell of
\* single tasks.
TellsOfTasks(v) == v.slice \/ (v.metric \in ReferenceDerived /\ v.count = 1)

\* _disclose and _released_tasks.
\* Mutant: the slice goes out with the rest.
DiscloseSlices(values, disclosure) ==
  IF disclosure = "per-task" THEN values
  ELSE {v \in values : ~(v.metric \in ReferenceDerived /\ v.count = 1)}

Disclose(values, disclosure) ==
  IF disclosure = "per-task" THEN values ELSE {v \in values : ~TellsOfTasks(v)}

ReleasedTasks(obs, disclosure) ==
  [t \in DOMAIN obs |->
     IF disclosure = "per-task" THEN obs[t] ELSE Restrict(obs[t], DOMAIN obs[t] \ ReferenceDerived)]

\* The failures of execute_harness_evaluation, in order.
FailureOf(obs, values, released) ==
  IF \A t \in DOMAIN obs : \A m \in DOMAIN obs[t] \cap ReferenceDerived :
       obs[t][m].absent = "unscored-cancelled" THEN "cancelled"
  ELSE IF values = {} THEN "no run value"
  ELSE IF released = {} THEN "withheld"
  ELSE "none"

SpendLowerBound ==
  IF spec.kind = "judge" THEN 0
  ELSE MapThenSumSet(LAMBDA t : MapThenSumSet(LAMBDA i : SpentKnown(t, trials[t][i]), Listed(t)),
                     Assigned)

\* What is withheld is named by metric and slice, never by value.
Names(values) == {[metric |-> v.metric, slice |-> v.slice] : v \in values}

ReportOn(obs, metrics, disclosure) ==
  LET values == AggregateRun(obs, metrics)
      released == Disclose(values, disclosure) IN
    [values |-> released, withheld |-> Names(values \ released), absences |-> AbsencesOf(obs, metrics),
     tasks |-> ReleasedTasks(obs, disclosure), spend |-> SpendLowerBound,
     failure |-> FailureOf(obs, values, released)]

\* provider_feedback: filtered again, whatever the report disclosed.
Feedback(report) ==
  [values |-> {v \in report.values : ~TellsOfTasks(v)},
   withheld |-> Names({v \in report.values : TellsOfTasks(v)}),
   tasks |-> ReleasedTasks(report.tasks, "aggregate")]

-----------------------------------------------------------------------------
(* An evaluation. *)

\* resolve_benchmark_suite: an alias gives the revision it names now, a pin
\* gives itself, and nothing resolves whose bytes are not held.
ResolvedRevision == IF spec.asks = "pin" THEN 1 ELSE alias
Resolves(revision) == revision = 1 => SuiteContentHeld

\* bind_evaluation: supports, resolve, supports; the alias is pinned to the
\* revision it names now, before the tasks run.  The tasks are of revision 1.
Bind ==
  /\ pinned = 0
  /\ Resolves(ResolvedRevision)
  /\ pinned' = ResolvedRevision
  /\ UNCHANGED <<spec, storeVars, evidenceVars, stage, moved, outcomes, reports, sent, disturbed>>

\* run_harness_evaluation up to execute: prepare refuses a reference that no
\* grant of this host covers.  An execution prepared elsewhere has its grant.
Prepare ==
  /\ stage = "idle" /\ pinned # 0 /\ subject # NoEvidence
  /\ Len(outcomes) < spec.times
  /\ spec.access = "reference" => spec.carries # "none"
  /\ stage' = "prepared"
  /\ UNCHANGED <<spec, storeVars, evidenceVars, pinned, moved, outcomes, reports, sent, disturbed>>

\* _grant_refusals: the prepared grant is checked again.
GrantRefused ==
  IF spec.access = "none" THEN spec.carries # "none" ELSE spec.carries # "host"

Ended(status, obs, report, d) ==
  [status |-> status, moved |-> moved, observed |-> obs, report |-> report, at |-> d,
   really |-> MapThenSumSet(LAMBDA t : MapThenSumSet(LAMBDA i : SpentReally(t, trials[t][i]),
                                                     DOMAIN trials[t]), Assigned)]

\* EvaluationRefusedError: the run and the attempt fail, nothing is measured.
RefuseEvaluation ==
  /\ stage = "prepared"
  /\ GrantRefused \/ pinned # 1 \/ ~EvidenceVerifies(subject)
  /\ stage' = "idle"
  /\ outcomes' = Append(outcomes, Ended("refused", <<>>, NoReport, 0))
  /\ UNCHANGED <<spec, storeVars, evidenceVars, pinned, moved, reports, sent, disturbed>>

VerifySubject ==
  /\ stage = "prepared"
  /\ ~GrantRefused /\ pinned = 1 /\ EvidenceVerifies(subject)
  /\ stage' = "verified" /\ moved' = FALSE
  /\ UNCHANGED <<spec, storeVars, evidenceVars, pinned, outcomes, reports, sent, disturbed>>

ReadsReference == spec.kind = "outcome" \/ spec.access = "reference"

\* An attempt that was opened, damaged in its result, or a reference lost
\* since: an assertion or an error that run_harness_evaluation lets out.
ReadFails ==
  \/ \E t \in Assigned : \E i \in Listed(t) :
       \/ trials[t][i].state = "open"
       \/ i = subject[t].outcome /\ ~trials[t][i].intact
  \/ ReadsReference /\ ~holds

Raised ==
  /\ stage = "verified" /\ ReadFails
  /\ stage' = "idle"
  /\ outcomes' = Append(outcomes, Ended("raised", <<>>, NoReport, 0))
  /\ UNCHANGED <<spec, storeVars, evidenceVars, pinned, moved, reports, sent, disturbed>>

\* The reports are written with write_new into the directory d: an existing
\* report stays.
Conclude(obs, metrics, d) ==
  LET report == ReportOn(obs, metrics, spec.disclosure) IN
    /\ stage' = "idle"
    /\ reports' = [reports EXCEPT ![d] = IF @ = NoReport THEN <<report>> ELSE @]
    /\ outcomes' = Append(outcomes,
         Ended(IF report.failure = "none" THEN "succeeded" ELSE "failed", obs, <<report>>, d))
    /\ UNCHANGED <<spec, storeVars, evidenceVars, pinned, moved, disturbed>>

MeasureOutcome(d) ==
  /\ stage = "verified" /\ ~ReadFails /\ spec.kind = "outcome"
  /\ Conclude([t \in Assigned |-> Observe([u \in Assigned |-> SuccessObservation(ResultOf(u))], t)],
              OutcomeMetrics, d)
  /\ UNCHANGED sent

MeasureQuality(d, replies) ==
  /\ stage = "verified" /\ ~ReadFails /\ spec.kind = "judge"
  /\ \A t \in Assigned : ~JudgeAsked(t) => replies[t] = JudgeFailed
  /\ Conclude([t \in Assigned |-> [quality |-> QualityObservation(t, replies[t])]], {"quality"}, d)
  /\ sent' = IF spec.access = "reference" THEN sent \cup {t \in Assigned : JudgeAsked(t)} ELSE sent

EvalNext ==
  \/ \E t \in Assigned :
       \/ Try(t)
       \/ \E a \in Sealings : Seal(t, a)
       \/ \E i \in DOMAIN trials[t] : ContainTrial(t, i) \/ DamageTrial(t, i)
  \/ MoveAlias \/ LoseContent
  \/ Assemble \/ PublishEvidence
  \/ Bind \/ Prepare \/ RefuseEvaluation \/ VerifySubject \/ Raised
  \/ \E d \in DOMAIN reports :
       \/ MeasureOutcome(d)
       \/ \E replies \in [Assigned -> {JudgeFailed, 0, 1}] : MeasureQuality(d, replies)

EvalSpec == EvalInit /\ [][EvalNext]_evalVars

-----------------------------------------------------------------------------
(* Properties. *)

EvalTypeOK ==
  /\ spec \in EvalSetups
  /\ Retried <= MaxRetries
  /\ alias \in {1, 2} /\ holds \in BOOLEAN
  /\ pinned \in 0 .. 2
  /\ stage \in {"idle", "prepared", "verified"}
  /\ Len(outcomes) <= spec.times
  /\ sent \subseteq Assigned

HasReport(o) == o.report # NoReport

\* What an evaluation reports of evidence that did not change under its hands
\* is true of the executions and not only of the records: a mean is over all
\* the assigned tasks, a task that scored is the one whose own answer was
\* right, a spend that is given is everything every attempt spent, retries,
\* quarantined attempts and lost evidence included, and a lower bound is one.
MeasurementTrue ==
  \A k \in DOMAIN outcomes :
    LET o == outcomes[k] IN
      HasReport(o) /\ ~o.moved =>
        /\ \A v \in o.report[1].values : ~v.slice => v.count = Cardinality(Assigned)
        /\ \A v \in o.report[1].values : v.metric = "spend" /\ ~v.slice => v.sum = o.really
        /\ o.report[1].spend <= o.really
        /\ spec.kind = "outcome" =>
             \A t \in Assigned :
               LET s == o.observed[t]["task_success"] IN
                 Seen(s) => (s.value = 1 <=> \E i \in DOMAIN trials[t] : trials[t][i].term = "right")

\* The outcome evaluator is declared DETERMINISTIC: two evaluations of one
\* subject report the same, whatever happened to the store in between, and so
\* a report that was already on disk is this evaluation's too.
Repeatable ==
  spec.kind = "outcome" =>
    LET measured == {i \in DOMAIN outcomes : HasReport(outcomes[i])} IN
      (\A i \in measured : ~outcomes[i].moved) =>
        \A j, k \in measured : /\ outcomes[j].report = outcomes[k].report
                              /\ reports[outcomes[k].at] = outcomes[k].report

\* Observations that differ only in who scored, with the same total.
Score == IF spec.kind = "outcome" THEN "task_success" ELSE "quality"
Scored(obs) == {t \in DOMAIN obs : Seen(obs[t][Score])}
TotalScore(obs) == MapThenSumSet(LAMBDA t : obs[t][Score].value, Scored(obs))
Alike(obs) ==
  LET others == {[t \in DOMAIN obs |-> IF t \in Scored(obs) THEN [obs[t] EXCEPT ![Score].value = c[t]]
                                                           ELSE obs[t]] :
                   c \in [DOMAIN obs -> {0, 1}]} IN
    IF Scored(obs) = DOMAIN obs /\ Cardinality(DOMAIN obs) > 1
      THEN {other \in others : TotalScore(other) = TotalScore(obs)}
      ELSE others

\* Of one task the names of what was withheld are left out: a slice of the
\* successful tasks exists only when the task succeeded.
Shown(view) ==
  IF Cardinality(Assigned) = 1 THEN [view EXCEPT !.withheld = {}] ELSE view

\* Under `aggregate' a reader of the report, and a provider under either
\* policy, learns the total score and nothing about which task scored: all
\* that is shown is the same for every way to reach that total.  A reference
\* goes to a judge only under a grant of the host that executes.
NothingTold ==
  /\ \A k \in {i \in DOMAIN outcomes : i = Len(outcomes) /\ HasReport(outcomes[i])} :
       LET obs == outcomes[k].observed
           metrics == DOMAIN obs[CHOOSE t \in Assigned : TRUE]
           report(x) == ReportOn(x, metrics, spec.disclosure) IN
         \A other \in Alike(obs) :
           /\ spec.disclosure = "aggregate" => Shown(report(other)) = Shown(report(obs))
           /\ Shown(Feedback(report(other))) = Shown(Feedback(report(obs)))
  /\ sent # {} => spec.carries = "host"

\* What is reported is true and repeatable.
EvaluationTrue == EvalTypeOK /\ MeasurementTrue /\ Repeatable
=============================================================================
