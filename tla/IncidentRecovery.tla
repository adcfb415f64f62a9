-------------------------- MODULE IncidentRecovery --------------------------
(***************************************************************************)
(* The recovery of one training run: what is done after an attempt dies   *)
(* of CUDA out-of-memory or of a nonfinite loss.                          *)
(*                                                                         *)
(* An attempt that failed owns one episode.  Incidents recorded on the    *)
(* attempt are its evidence; the coordinator answers the evidence with    *)
(* plan revisions, each covering one accepted incident more; a plan is    *)
(* answered by one governed action (a smaller micro batch or a lower      *)
(* learning rate), which policy or a human lets through; the executor     *)
(* validates a checkpoint and commits a successor attempt.  The successor *)
(* closes the episode.  A learning rate is an intervention: it is carried *)
(* by directives, counts once the worker confirms it, and is re-applied   *)
(* when a later restore goes back behind it.                              *)
(*                                                                         *)
(* Several drivers work on the run: the task that observed the failure, a *)
(* task that carries on an approval, another process that attached.  One  *)
(* step here is one transaction, or the code between two of them.  Two    *)
(* drivers of one process interleave only where the code awaits; drivers  *)
(* of two processes interleave everywhere.                                *)
(*                                                                         *)
(* Left out: recovery of transient failures alone (the host fails the     *)
(* run, and no code of the host calls the coordinator for it), and the    *)
(* submission of the successor, which Submission models.                  *)
(***************************************************************************)
EXTENDS Integers, Sequences, FiniteSets, SequencesExt

CONSTANTS
    Drivers,        \* tasks that may drive the run's recovery
    Setups,         \* configurations, see SetupOK
    MaxSteps,       \* optimizer steps an attempt may reach
    MaxIncidents,   \* incidents recorded on one attempt, one of a category
    StaleRetries    \* planning rounds that may find their inputs changed (3)

(* micro, accum: the compiled batch; floor: how often the learning rate    *)
(* may be lowered; verdict: what policy answers; attempts, recoveries:     *)
(* limits of the RecoveryRequest; managed: drivers with a checkpoint       *)
(* manager; alone: one process; cats: what is diagnosed; late: a slower    *)
(* process still records after the attempt settled; rots: checkpoints      *)
(* whose bytes get lost; crashes; slot: another run holds the last slot.   *)
SetupOK(s) ==
    /\ s.micro \in Nat \ {0} /\ s.accum \in Nat \ {0} /\ s.floor \in Nat
    /\ s.verdict \in {"allow", "deny", "approval"}
    /\ s.attempts \in Nat /\ s.recoveries \in Nat
    /\ s.managed \subseteq Drivers /\ s.alone \in BOOLEAN
    /\ s.cats \subseteq {"oom", "nan", "transient", "fatal"}
    /\ s.late \in BOOLEAN /\ s.rots \in Nat /\ s.crashes \in Nat
    /\ s.slot \in BOOLEAN /\ s.budget \in BOOLEAN

ASSUME SetupsAssumption == (\A s \in Setups : SetupOK(s)) /\ StaleRetries \in Nat \ {0}

VARIABLES
    setup,         \* the configuration, never changes
    run,           \* status of the logical run
    attempts,      \* its attempts: run_attempts, checkpoints, incidents, plans
    actions,       \* the governed actions bound to recovery plans
    applications,  \* confirmed effects of interventions, in event order
    driver,        \* what each task is doing
    slot,          \* another run holds the last parallel-run slot
    faults         \* how often the environment still fails

vars == <<setup, run, attempts, actions, applications, driver, slot, faults>>

----------------------------------------------------------------------------
(* Attempts, checkpoints and incidents                                     *)

Fresh1 ==
    [src |-> 0, status |-> "live", micro |-> setup.micro, accum |-> setup.accum,
     from |-> <<>>, directives |-> <<>>, obs |-> <<>>, step |-> 0,
     known |-> FALSE, accepted |-> 0, plans |-> <<>>, mark |-> 0]

Idle ==
    [pc |-> "idle", att |-> 0, fam |-> "oom", plan |-> 0, snap |-> <<>>, tries |-> 0,
     act |-> 0, from |-> <<>>, directives |-> <<>>, escalated |-> FALSE]

Latest == Len(attempts)

Open(n) == n = Latest

IncidentsOf(n) ==
    {i \in DOMAIN attempts[n].obs : attempts[n].obs[i].kind = "incident"}

(* The first k incidents of the attempt: membership follows recording.     *)
Evidence(n, k) ==
    {i \in IncidentsOf(n) : Cardinality({j \in IncidentsOf(n) : j <= i}) <= k}

Categories(n, k) == {attempts[n].obs[i].cat : i \in Evidence(n, k)}

Diagnosed(n, cat) == \E i \in IncidentsOf(n) : attempts[n].obs[i].cat = cat

Checkpoints(n) ==
    {<<p, i>> : p \in 1 .. n, i \in 1 .. (MaxSteps + MaxIncidents)}

Recorded(c) ==
    /\ c[2] \in DOMAIN attempts[c[1]].obs
    /\ attempts[c[1]].obs[c[2]].kind = "checkpoint"

CheckpointOf(c) == attempts[c[1]].obs[c[2]]

(* Whether the evidence of an incident names an optimizer step: what the   *)
(* worker reports of a nonfinite loss does, a failure without a position   *)
(* (out of memory, a lost connection, an unknown error) does not.          *)
CarriesStep(cat) == cat = "nan"

(* checkpoint_report_problem: reported before every incident decided on    *)
(* (one of an earlier attempt was), and, for an incident that names its    *)
(* step, not beyond it.                                                    *)
Eligible(c, n, k) ==
    \A i \in Evidence(n, k) :
        /\ c[1] = n => c[2] < i
        /\ CarriesStep(attempts[n].obs[i].cat) =>
             CheckpointOf(c).step <= attempts[n].obs[i].step

NewerCheckpoint(c, d) ==
    \/ CheckpointOf(c).step > CheckpointOf(d).step
    \/ CheckpointOf(c).step = CheckpointOf(d).step /\ c[1] > d[1]

(* select_restore_checkpoint: newest first, the first whose bytes validate.*)
Restorable(n, k) ==
    LET valid == {c \in Checkpoints(n) :
                    Recorded(c) /\ Eligible(c, n, k) /\ CheckpointOf(c).valid}
    IN  {c \in valid : \A d \in valid \ {c} : NewerCheckpoint(c, d)}

----------------------------------------------------------------------------
(* Interventions                                                           *)

Embodied(c) == IF c = <<>> THEN {} ELSE CheckpointOf(c).embodied

Confirmed(n, k) == \E i \in DOMAIN applications : applications[i].id = <<n, k>>

Unconfirmed(n) == {k \in DOMAIN attempts[n].directives : ~Confirmed(n, k)}

(* retained_trajectory: the applications the attempt's state descends from.*)
Trajectory(n) ==
    SelectSeq(applications,
        LAMBDA a : a.id \in Embodied(attempts[n].from) \/ a.id[1] = n)

RateAfter(seq) == IF seq = <<>> THEN 0 ELSE seq[Len(seq)].value

(* _effective_learning_rate: how often the declared rate has been lowered. *)
Rate(n) == RateAfter(Trajectory(n))

(* plan_intervention_directives: what survives the restore, in event       *)
(* order, has to compose from the declared rate.                           *)
Retained(c) == SelectSeq(applications, LAMBDA a : a.id \in Embodied(c))

Composes(seq) ==
    \A i \in DOMAIN seq :
        /\ seq[i].prev = IF i = 1 THEN 0 ELSE seq[i - 1].value
        /\ \A j \in 1 .. (i - 1) : seq[j].iv # seq[i].iv

(* Mutant: a restore undoes no intervention. *)
DroppedNothing(c) == <<>>

Dropped(c) ==
    LET kept == {Retained(c)[i].iv : i \in DOMAIN Retained(c)}
        first == {i \in DOMAIN applications :
                    /\ applications[i].iv \notin kept
                    /\ \A j \in 1 .. (i - 1) :
                        applications[j].iv # applications[i].iv}
        order == SetToSortSeq(first, <)
    IN  [i \in DOMAIN order |-> applications[order[i]].iv]

Directives(c, initial) ==
    LET ivs == Dropped(c) \o initial
    IN  [i \in DOMAIN ivs |->
            [iv |-> ivs[i],
             prev |-> IF i = 1 THEN RateAfter(Retained(c))
                               ELSE actions[ivs[i - 1]].rate]]

Interventions == {a \in DOMAIN actions : actions[a].intervened}

----------------------------------------------------------------------------
(* Plans                                                                   *)

Through(n) ==
    IF attempts[n].plans = <<>> THEN 0 ELSE attempts[n].plans[Len(attempts[n].plans)]

(* is_effective_and_fresh *)
FreshPlan(n, q) ==
    /\ q # 0 /\ q = Len(attempts[n].plans)
    /\ Open(n)
    /\ Through(n) = attempts[n].accepted

(* _recovery_snapshot, as far as it can change under a planner.            *)
Inputs(n) ==
    [run |-> run, latest |-> Latest, plans |-> attempts[n].plans,
     accepted |-> IF attempts[n].known THEN attempts[n].accepted
                                       ELSE Cardinality(IncidentsOf(n))]

(* decide_recovery over the evidence a host-driven episode can hold.       *)
Strategy(cats) == IF "fatal" \in cats THEN "fail" ELSE "pause"

(* OOMRecoveryPlanner.plan: halve the micro batch, keep the effective      *)
(* batch; FALSE when no such resize exists.                                *)
HalfMicro(n) == attempts[n].micro \div 2

Resizable(n) ==
    /\ attempts[n].micro > 1
    /\ (attempts[n].micro * attempts[n].accum) % HalfMicro(n) = 0

ResizedAccum(n) == (attempts[n].micro * attempts[n].accum) \div HalfMicro(n)

(* OOMRecoveryInputsV1: only out-of-memory and transient evidence.         *)
ResizeReviewable(cats) ==
    /\ Strategy(cats) = "pause"
    /\ "oom" \in cats
    /\ cats \subseteq {"oom", "transient"}

(* NumericalRecoveryPlanner.plan: one intervention per episode, and the    *)
(* previous one must be the rate the attempt ran at.                       *)
LowersRate(n, cats) ==
    LET prior == {a \in Interventions : actions[a].fam = "nan"}
        newest == {a \in prior : \A b \in prior : b <= a}
        path == Trajectory(n)
    IN  /\ Strategy(cats) = "pause"
        /\ cats \subseteq {"nan", "transient"} /\ "nan" \in cats
        /\ \A a \in prior : actions[a].att # n
        /\ \A a \in newest : path # <<>> /\ path[Len(path)].iv = a
        /\ Rate(n) + 1 <= setup.floor

----------------------------------------------------------------------------
Init ==
    /\ setup \in Setups
    /\ run = "active"
    /\ attempts = <<Fresh1>>
    /\ actions = <<>>
    /\ applications = <<>>
    /\ driver = [d \in Drivers |-> Idle]
    /\ slot = setup.slot
    /\ faults = [rots |-> setup.rots, crashes |-> setup.crashes]

(* Tasks of one event loop give way only where the code awaits.            *)
Awaits == {"idle", "record", "select", "poll"}

MayRun(d) ==
    setup.alone => \A e \in Drivers \ {d} : driver[e].pc \in Awaits

At(d, pc) == driver[d].pc = pc /\ MayRun(d)

Goto(d, pc) == driver' = [driver EXCEPT ![d].pc = pc]

(* The pass ends: nothing to do, an exception, or a note for a human.      *)
Stop(d) ==
    driver' = [driver EXCEPT ![d] = [Idle EXCEPT !.escalated = driver[d].escalated]]

Escalate(d) == driver' = [driver EXCEPT ![d] = [Idle EXCEPT !.escalated = TRUE]]

Drive(d, n, fam) ==
    driver' = [driver EXCEPT ![d] =
                [Idle EXCEPT !.pc = "drive", !.att = n, !.fam = fam,
                             !.escalated = driver[d].escalated]]

SetAttempt(n, rec) == attempts' = [attempts EXCEPT ![n] = rec]

(* _settle: the run is failed unless it is terminal already.               *)
FailRun == run' = IF run = "active" THEN "failed" ELSE run

----------------------------------------------------------------------------
(* What the worker reports and the host records                            *)

Live(n) == attempts[n].status = "live"

Reporting(n) == Live(n) \/ (setup.late /\ attempts[n].status \in {"failed", "succeeded"})

Observed(n, o) == [attempts[n] EXCEPT !.obs = Append(@, o)]

RecordCheckpoint(n) ==
    /\ Live(n) /\ Unconfirmed(n) = {} /\ attempts[n].step < MaxSteps
    /\ SetAttempt(n,
        [Observed(n, [kind |-> "checkpoint", cat |-> "none",
                      step |-> attempts[n].step + 1, valid |-> TRUE,
                      embodied |-> Embodied(attempts[n].from)
                                     \cup {<<n, k>> : k \in DOMAIN attempts[n].directives}])
         EXCEPT !.step = @ + 1])
    /\ UNCHANGED <<setup, run, actions, applications, driver, slot, faults>>

(* record_incident: the incident joins the attempt's episode in the same   *)
(* commit, as evidence to decide on only while the episode is open.        *)
RecordIncident(n, cat) ==
    /\ Reporting(n) /\ Cardinality(IncidentsOf(n)) < MaxIncidents
    /\ ~Diagnosed(n, cat)
    /\ SetAttempt(n,
        [Observed(n, [kind |-> "incident", cat |-> cat, step |-> attempts[n].step,
                      valid |-> TRUE, embodied |-> {}])
         EXCEPT !.accepted = IF attempts[n].known /\ Open(n) THEN @ + 1 ELSE @])
    /\ UNCHANGED <<setup, run, actions, applications, driver, slot, faults>>

(* _settle_numerical_action_on_effect, _fail_unconfirmed_numerical_action: *)
(* the first directive of an episode's successor that is new is its last.  *)
CarriedBy(n) ==
    {a \in DOMAIN actions : /\ actions[a].fam = "nan" /\ actions[a].receipt = "executed"
                            /\ actions[a].att = n - 1 /\ actions[a].status = "executing"}

SettleAction(as, status) ==
    actions' = [a \in DOMAIN actions |->
                  IF a \in as THEN [actions[a] EXCEPT !.status = status] ELSE actions[a]]

(* record_intervention_application *)
RecordApplication(n) ==
    LET k == CHOOSE j \in Unconfirmed(n) : \A i \in Unconfirmed(n) : j <= i
        dir == attempts[n].directives[k]
    IN  /\ Reporting(n) /\ Unconfirmed(n) # {}
        /\ dir.prev = Rate(n)
        /\ applications' = Append(applications,
             [id |-> <<n, k>>, iv |-> dir.iv, prev |-> dir.prev,
              value |-> actions[dir.iv].rate])
        /\ SettleAction({a \in CarriedBy(n) : a = dir.iv}, "succeeded")
        /\ UNCHANGED <<setup, run, attempts, driver, slot, faults>>

(* _settle commits the attempt and then the run.  The driver keeps between *)
(* the two what it decided of the run; a crash there forgets it.           *)
Settling(d, pc, n, note) ==
    driver' = [driver EXCEPT ![d] =
                [Idle EXCEPT !.pc = pc, !.att = n,
                             !.escalated = driver[d].escalated \/ note]]

(* _observe after the stream ended, on a workload that succeeded: a        *)
(* trajectory nobody can vouch for fails the run.                          *)
EndSucceeded(d, n) ==
    /\ Live(n) /\ At(d, "idle")
    /\ SetAttempt(n, [attempts[n] EXCEPT !.status = "succeeded"])
    /\ SettleAction(CarriedBy(n), "failed")
    /\ \/ Unconfirmed(n) = {} /\ Settling(d, "succeed", n, FALSE)
       \/ Unconfirmed(n) # {} /\ Settling(d, "giveup", n, TRUE)
    /\ UNCHANGED <<setup, run, applications, slot, faults>>

Succeed(d) ==
    /\ At(d, "succeed")
    /\ run' = IF run = "active" THEN "succeeded" ELSE run
    /\ Stop(d)
    /\ UNCHANGED <<setup, attempts, actions, applications, slot, faults>>

Recoverable(n) == Diagnosed(n, "oom") \/ Diagnosed(n, "nan")

Family(n) == IF Diagnosed(n, "oom") THEN "oom" ELSE "nan"

(* _observe on a workload that failed: recovery is tried, or the run ends. *)
EndFailed(d, n) ==
    /\ Live(n) /\ At(d, "idle")
    /\ SetAttempt(n, [attempts[n] EXCEPT !.status = "failed"])
    /\ SettleAction(CarriedBy(n), "failed")
    /\ \/ /\ Recoverable(n) /\ d \in setup.managed
          /\ Drive(d, n, Family(n))
       \/ /\ ~(Recoverable(n) /\ d \in setup.managed)
          /\ Settling(d, "giveup", n, FALSE)
    /\ UNCHANGED <<setup, run, applications, slot, faults>>

----------------------------------------------------------------------------
(* One pass of _drive_oom_recovery or _drive_numerical_recovery            *)

(* _reconcile on attach: an active run whose latest attempt failed.        *)
Attach(d) ==
    /\ At(d, "idle")
    /\ run = "active" /\ attempts[Latest].status = "failed" /\ Recoverable(Latest)
    /\ Drive(d, Latest, Family(Latest))
    /\ UNCHANGED <<setup, run, attempts, actions, applications, slot, faults>>

(* A host without a checkpoint manager: the episode waits for another, and *)
(* a run without an episode is given up.                                   *)
DriveUnmanaged(d) ==
    LET n == driver[d].att IN
    /\ At(d, "drive") /\ d \notin setup.managed
    /\ \/ attempts[n].known /\ Escalate(d) /\ UNCHANGED run
       \/ ~attempts[n].known /\ Goto(d, "giveup") /\ UNCHANGED run
    /\ UNCHANGED <<setup, attempts, actions, applications, slot, faults>>

(* The second commit of _settle, for a run that failed.                    *)
GiveUp(d) ==
    /\ At(d, "giveup")
    /\ FailRun /\ Stop(d)
    /\ UNCHANGED <<setup, attempts, actions, applications, slot, faults>>

(* RecoveryCoordinator.plan: a plan that still holds, or that a successor  *)
(* froze, is returned; otherwise the inputs are read, to be recorded once  *)
(* the checkpoints have been looked at.  A successor comes from a plan, so *)
(* a closed episode has one.                                               *)
PlanRound(d) ==
    LET n == driver[d].att IN
    /\ At(d, "drive") /\ d \in setup.managed
    /\ \/ /\ FreshPlan(n, Len(attempts[n].plans)) \/ ~Open(n)
          /\ driver' = [driver EXCEPT ![d].pc = "check", ![d].plan = Len(attempts[n].plans)]
       \/ /\ Open(n) /\ ~FreshPlan(n, Len(attempts[n].plans))
          /\ driver' = [driver EXCEPT ![d].pc = "record", ![d].snap = <<Inputs(n)>>]
    /\ UNCHANGED <<setup, run, attempts, actions, applications, slot, faults>>

(* record_recovery_plan: only on inputs that did not change; a first plan  *)
(* covers all evidence, a later one one incident more.                     *)
Revised(n) ==
    LET all == Inputs(n).accepted
        next == IF attempts[n].plans = <<>> THEN all ELSE Through(n) + 1
    IN  [attempts[n] EXCEPT !.known = TRUE, !.accepted = all, !.plans = Append(@, next)]

RecordPlan(d) ==
    LET n == driver[d].att
        current == driver[d].snap = <<Inputs(n)>> /\ Open(n)
    IN  /\ At(d, "record")
        /\ \/ /\ current
              /\ SetAttempt(n, Revised(n))
              /\ Goto(d, "drive")
           \/ /\ ~current /\ driver[d].tries + 1 < StaleRetries
              /\ driver' = [driver EXCEPT ![d].pc = "drive", ![d].tries = @ + 1]
              /\ UNCHANGED attempts
           \/ /\ ~current /\ driver[d].tries + 1 >= StaleRetries
              /\ Stop(d)
              /\ UNCHANGED attempts
        /\ UNCHANGED <<setup, run, actions, applications, slot, faults>>

(* What the plan the driver holds was decided on.                          *)
Covered(d) ==
    Categories(driver[d].att, attempts[driver[d].att].plans[driver[d].plan])

OpenAction == {"validated", "pending", "approved"}

(* supersede_stale_oom_actions: actions of earlier revisions are retired.  *)
Stale(n, q) ==
    {a \in DOMAIN actions : /\ actions[a].fam = "oom" /\ actions[a].att = n
                            /\ actions[a].plan # q /\ actions[a].receipt = "none"}

CheckPlan(d) ==
    LET n == driver[d].att
        q == driver[d].plan
    IN  /\ At(d, "check")
        /\ \/ /\ FreshPlan(n, q)
              /\ actions' = [a \in DOMAIN actions |->
                    IF driver[d].fam = "oom" /\ a \in Stale(n, q)
                    THEN [actions[a] EXCEPT !.status = "rejected", !.receipt = "superseded"]
                    ELSE actions[a]]
              /\ \/ /\ driver[d].fam = "oom"
                    /\ ~ResizeReviewable(Covered(d))
                    /\ Escalate(d)
                 \/ /\ driver[d].fam = "oom" => ResizeReviewable(Covered(d))
                    /\ Goto(d, "bind")
           \/ /\ ~FreshPlan(n, q)
              /\ Escalate(d)
              /\ UNCHANGED actions
        /\ UNCHANGED <<setup, run, attempts, applications, slot, faults>>

BoundTo(n, q, fam) ==
    {a \in DOMAIN actions :
        actions[a].att = n /\ actions[a].plan = q /\ actions[a].fam = fam}

(* An action bound to the plan is taken as governance left it.             *)
FindBinding(d) ==
    LET n == driver[d].att
        bound == BoundTo(n, driver[d].plan, driver[d].fam)
    IN  /\ At(d, "bind")
        /\ \/ bound = {} /\ Goto(d, "propose")
           \/ \E a \in bound : driver' = [driver EXCEPT ![d].pc = "act", ![d].act = a]
        /\ UNCHANGED <<setup, run, attempts, actions, applications, slot, faults>>

Answers(d, n) ==
    IF driver[d].fam = "oom" THEN Resizable(n)
                             ELSE LowersRate(n, Covered(d))

Verdict == CASE setup.verdict = "allow" -> "validated"
             [] setup.verdict = "deny" -> "rejected"
             [] setup.verdict = "approval" -> "pending"

Proposal(d, n) ==
    [fam |-> driver[d].fam, att |-> n, plan |-> driver[d].plan,
     micro |-> IF driver[d].fam = "oom" THEN HalfMicro(n) ELSE attempts[n].micro,
     accum |-> IF driver[d].fam = "oom" THEN ResizedAccum(n) ELSE attempts[n].accum,
     prev |-> Rate(n), rate |-> Rate(n) + 1,
     status |-> Verdict, receipt |-> "none", intervened |-> FALSE]

(* The planner and propose_action.  A planner that has no answer fails the *)
(* run.  A proposal is recorded under the lock if its plan is still open   *)
(* and fresh; a proposal already bound to the plan is taken instead.       *)
Propose(d) ==
    LET n == driver[d].att
        q == driver[d].plan
        bound == BoundTo(n, q, driver[d].fam)
    IN  /\ At(d, "propose")
        /\ \/ /\ ~Answers(d, n)
              /\ FailRun /\ Stop(d)
              /\ UNCHANGED actions
           \/ /\ Answers(d, n) /\ bound # {}
              /\ \E a \in bound : driver' = [driver EXCEPT ![d].pc = "act", ![d].act = a]
              /\ UNCHANGED <<run, actions>>
           \/ /\ Answers(d, n) /\ bound = {} /\ FreshPlan(n, q) /\ run = "active"
              /\ actions' = Append(actions, Proposal(d, n))
              /\ driver' = [driver EXCEPT ![d].pc = "act", ![d].act = Len(actions) + 1]
              /\ UNCHANGED run
           \/ /\ Answers(d, n) /\ bound = {} /\ ~(FreshPlan(n, q) /\ run = "active")
              /\ Stop(d)
              /\ UNCHANGED <<run, actions>>
        /\ UNCHANGED <<setup, attempts, applications, slot, faults>>

(* Mutant: the action may be settled already. *)
AbandonableAny(a) == run = "active"

(* abandon_oom_recovery_action, abandon_numerical_recovery_action          *)
Abandonable(a) ==
    /\ actions[a].receipt = "none"
    /\ FreshPlan(actions[a].att, actions[a].plan)
    /\ actions[a].status \in OpenAction \cup {"rejected"}
    /\ run = "active"

(* Mutant: the run is left open. *)
AbandonQuietly(a) ==
    /\ actions' = [actions EXCEPT ![a].status = "rejected", ![a].receipt = "abandoned"]
    /\ UNCHANGED run

Abandon(a) ==
    /\ actions' = [actions EXCEPT ![a].status = "rejected", ![a].receipt = "abandoned"]
    /\ run' = "failed"

(* What the action's status lets the driver do.  An authorized rate change *)
(* becomes an intervention, while its plan is fresh and its rate holds.    *)
Act(d) ==
    LET a == driver[d].act
        n == driver[d].att
        rate == actions[a].fam = "nan"
        authorized == actions[a].status \in {"validated", "approved"}
        holds == FreshPlan(n, actions[a].plan) /\ run = "active" /\ Rate(n) = actions[a].prev
    IN  /\ At(d, "act")
        /\ \/ /\ ~authorized /\ actions[a].status # "rejected"
              /\ Stop(d)
              /\ UNCHANGED <<run, actions>>
           \/ /\ actions[a].status = "rejected" /\ Abandonable(a)
              /\ Abandon(a) /\ Stop(d)
           \/ /\ actions[a].status = "rejected" /\ ~Abandonable(a)
              /\ Stop(d)
              /\ UNCHANGED <<run, actions>>
           \/ /\ authorized /\ rate /\ ~actions[a].intervened /\ ~holds
              /\ Escalate(d)
              /\ UNCHANGED <<run, actions>>
           \/ /\ authorized /\ (rate /\ ~actions[a].intervened => holds)
              /\ actions' = [actions EXCEPT ![a].intervened = rate]
              /\ Goto(d, "execute")
              /\ UNCHANGED run
        /\ UNCHANGED <<setup, attempts, applications, slot, faults>>

Executed == {a \in DOMAIN actions : actions[a].receipt = "executed"}

Consumed(a) ==
    \E b \in Executed : actions[b].att = actions[a].att /\ actions[b].fam = actions[a].fam

(* OOMRecoveryExecutor.execute, NumericalRecoveryExecutor.execute up to    *)
(* the validation of the checkpoint's bytes.                               *)
Execute(d) ==
    LET n == driver[d].att
        a == driver[d].act
    IN
    /\ At(d, "execute") \/ At(d, "poll")
    /\ \/ Consumed(a) /\ Stop(d)
       \/ /\ ~Consumed(a) /\ FreshPlan(n, actions[a].plan)
          /\ driver' = [driver EXCEPT ![d].pc = "select", ![d].snap = <<Inputs(n)>>]
       \/ /\ ~Consumed(a) /\ ~FreshPlan(n, actions[a].plan)
          /\ Escalate(d)
    /\ UNCHANGED <<setup, run, attempts, actions, applications, slot, faults>>

Initial(a) == IF actions[a].fam = "nan" THEN <<a>> ELSE <<>>

(* The checkpoint is judged by the evidence read before the await.         *)
Select(d) ==
    LET a == driver[d].act
        n == driver[d].att
        found == Restorable(n, driver[d].snap[1].accepted)
    IN  /\ At(d, "select")
        /\ \/ /\ found = {} /\ Abandonable(a)
              /\ Abandon(a) /\ Stop(d)
           \/ /\ found = {} /\ ~Abandonable(a)
              /\ Stop(d)
              /\ UNCHANGED <<run, actions>>
           \/ \E c \in found :
              LET dirs == Directives(c, Initial(a))
                  fits == /\ Composes(Retained(c))
                          /\ actions[a].fam = "nan" => dirs[Len(dirs)].prev = actions[a].prev
              IN  /\ \/ /\ fits
                        /\ driver' = [driver EXCEPT ![d].pc = "commit", ![d].from = c,
                                                    ![d].directives = dirs]
                     \/ ~fits /\ Escalate(d)
                  /\ UNCHANGED <<run, actions>>
        /\ UNCHANGED <<setup, attempts, applications, slot, faults>>

(* _record_oom_recovery_execution, _record_numerical_recovery_execution:   *)
(* everything the executor relied on is checked again under the lock.      *)
WithinLimits ==
    Latest + 1 <= setup.attempts /\ Cardinality(Executed) + 1 <= setup.recoveries

(* Mutant: a second successor is let pass. *)
AdmitsAgain(a, c, dirs) ==
    /\ actions[a].status \in {"validated", "approved", "executing"}
    /\ run = "active"
    /\ WithinLimits
    /\ dirs = Directives(c, Initial(a))

Admits(a, c, dirs) ==
    LET n == actions[a].att IN
    /\ FreshPlan(n, actions[a].plan)
    /\ actions[a].status \in {"validated", "approved"}
    /\ run = "active"
    /\ attempts[n].status = "failed"
    /\ WithinLimits
    /\ Eligible(c, n, attempts[n].accepted)
    /\ dirs = Directives(c, Initial(a))

Successor(a, c, dirs) ==
    [src |-> actions[a].att, status |-> "created",
     micro |-> actions[a].micro, accum |-> actions[a].accum,
     from |-> c, directives |-> dirs, obs |-> <<>>, step |-> CheckpointOf(c).step,
     known |-> FALSE, accepted |-> 0, plans |-> <<>>, mark |-> Len(applications)]

Commit(d) ==
    LET a == driver[d].act
        c == driver[d].from
        dirs == driver[d].directives
    IN  /\ At(d, "commit")
        /\ \/ /\ Admits(a, c, dirs) /\ ~slot
              /\ attempts' = Append(attempts, Successor(a, c, dirs))
              /\ actions' = [actions EXCEPT ![a].status = "executing", ![a].receipt = "executed"]
              /\ Stop(d)
              /\ UNCHANGED run
           \/ /\ Admits(a, c, dirs) /\ slot
              /\ Goto(d, "poll")
              /\ UNCHANGED <<run, attempts, actions>>
           \/ /\ Admits(a, c, dirs) /\ setup.budget /\ Abandonable(a)
              /\ Abandon(a) /\ Stop(d)
              /\ UNCHANGED attempts
           \/ /\ ~Admits(a, c, dirs) /\ ~Consumed(a)
              /\ Escalate(d)
              /\ UNCHANGED <<run, attempts, actions>>
           \/ /\ ~Admits(a, c, dirs) /\ Consumed(a)
              /\ Stop(d)
              /\ UNCHANGED <<run, attempts, actions>>
        /\ UNCHANGED <<setup, applications, slot, faults>>

ReleaseSlot ==
    /\ slot
    /\ slot' = FALSE
    /\ UNCHANGED <<setup, run, attempts, actions, applications, driver, faults>>

(* transition_operation on the successor's submit: a resize has taken      *)
(* effect once the workload is confirmed, a rate change only later.        *)
SubmitOf(n) ==
    {a \in Executed : actions[a].att = n - 1 /\ actions[a].status = "executing"}

Confirm(n) ==
    /\ attempts[n].status = "created" /\ SubmitOf(n) # {}
    /\ SetAttempt(n, [attempts[n] EXCEPT !.status = "live"])
    /\ SettleAction({a \in SubmitOf(n) : actions[a].fam = "oom"}, "succeeded")
    /\ UNCHANGED <<setup, run, applications, driver, slot, faults>>

(* fail_operation, and _settle_refused, by the task that issued or by one  *)
(* that reconciles.                                                        *)
Refuse(n) ==
    /\ attempts[n].status = "created" /\ SubmitOf(n) # {}
    /\ SettleAction(SubmitOf(n), "failed")
    /\ UNCHANGED <<setup, run, attempts, applications, driver, slot, faults>>

SettleRefused(d, n) ==
    /\ At(d, "idle")
    /\ attempts[n].status = "created" /\ SubmitOf(n) = {}
    /\ SetAttempt(n, [attempts[n] EXCEPT !.status = "failed"])
    /\ Settling(d, "giveup", n, FALSE)
    /\ UNCHANGED <<setup, run, actions, applications, slot, faults>>

----------------------------------------------------------------------------
(* The human, and what the host does with the answer                       *)

(* approve_action, then _carry_on_approval *)
Approve(d, a) ==
    /\ At(d, "idle") /\ actions[a].status = "pending"
    /\ actions' = [actions EXCEPT ![a].status = "approved"]
    /\ Drive(d, actions[a].att, actions[a].fam)
    /\ UNCHANGED <<setup, run, attempts, applications, slot, faults>>

(* reject_action, then _carry_on_rejection *)
Reject(d, a) ==
    /\ At(d, "idle") /\ actions[a].status = "pending"
    /\ actions' = [actions EXCEPT ![a].status = "rejected"]
    /\ driver' = [driver EXCEPT ![d] = [Idle EXCEPT !.pc = "abandon", !.act = a,
                                                    !.escalated = driver[d].escalated]]
    /\ UNCHANGED <<setup, run, attempts, applications, slot, faults>>

CarryOnRejection(d) ==
    LET a == driver[d].act IN
    /\ At(d, "abandon")
    /\ \/ /\ Abandonable(a)
          /\ Abandon(a) /\ Stop(d)
       \/ /\ ~Abandonable(a) /\ actions[a].receipt = "none"
          /\ Drive(d, actions[a].att, actions[a].fam)
          /\ UNCHANGED <<run, actions>>
       \/ /\ actions[a].receipt # "none"
          /\ Stop(d)
          /\ UNCHANGED <<run, actions>>
    /\ UNCHANGED <<setup, attempts, applications, slot, faults>>

----------------------------------------------------------------------------
(* The environment                                                         *)

(* The bytes of a checkpoint are lost or no longer validate.               *)
Rot(n, i) ==
    /\ faults.rots > 0
    /\ attempts[n].obs[i].kind = "checkpoint" /\ attempts[n].obs[i].valid
    /\ attempts' = [attempts EXCEPT ![n].obs[i].valid = FALSE]
    /\ faults' = [faults EXCEPT !.rots = @ - 1]
    /\ UNCHANGED <<setup, run, actions, applications, driver, slot>>

(* A process ends; its tasks are gone, and so is the note for the human.   *)
Crash(d) ==
    /\ faults.crashes > 0 /\ driver[d] # Idle
    /\ driver' = [e \in Drivers |-> IF setup.alone \/ e = d THEN Idle ELSE driver[e]]
    /\ faults' = [faults EXCEPT !.crashes = @ - 1]
    /\ UNCHANGED <<setup, run, attempts, actions, applications, slot>>

DriverStep(d) ==
    \/ DriveUnmanaged(d) \/ GiveUp(d) \/ Succeed(d)
    \/ PlanRound(d) \/ RecordPlan(d) \/ CheckPlan(d) \/ FindBinding(d)
    \/ Propose(d) \/ Act(d) \/ Execute(d) \/ Select(d) \/ Commit(d)
    \/ CarryOnRejection(d)

Worker(n) ==
    \/ RecordCheckpoint(n)
    \/ \E cat \in setup.cats : RecordIncident(n, cat)
    \/ RecordApplication(n)
    \/ Confirm(n) \/ Refuse(n)
    \/ \E i \in DOMAIN attempts[n].obs : Rot(n, i)

Ends(d) ==
    \E n \in DOMAIN attempts :
        EndSucceeded(d, n) \/ EndFailed(d, n) \/ SettleRefused(d, n)

Human(d) == \E a \in DOMAIN actions : Approve(d, a) \/ Reject(d, a)

Next ==
    \/ \E d \in Drivers : DriverStep(d) \/ Ends(d) \/ Human(d) \/ Attach(d) \/ Crash(d)
    \/ \E n \in DOMAIN attempts : Worker(n)
    \/ ReleaseSlot

Spec == Init /\ [][Next]_vars

Fairness ==
    /\ \A d \in Drivers : WF_vars(DriverStep(d)) /\ WF_vars(Attach(d)) /\ WF_vars(Ends(d))
    /\ WF_vars(\E n \in DOMAIN attempts : Confirm(n) \/ Refuse(n))
    /\ WF_vars(ReleaseSlot)

FairSpec == Spec /\ Fairness

----------------------------------------------------------------------------
(* Properties                                                              *)

RunStatuses == {"active", "succeeded", "failed"}

(* The states the recovery tables allow: an attempt's plan revisions cover *)
(* one more incident each, never more than were accepted, and an executed  *)
(* action is past its authorization.                                       *)
RecoveryTypeOK ==
    /\ run \in RunStatuses
    /\ \A n \in DOMAIN attempts :
        /\ attempts[n].status \in {"created", "live", "failed", "succeeded"}
        /\ \A q \in DOMAIN attempts[n].plans :
            /\ attempts[n].plans[q] \in 1 .. attempts[n].accepted
            /\ q > 1 => attempts[n].plans[q] = attempts[n].plans[q - 1] + 1
    /\ \A a \in Executed : actions[a].status \in {"executing", "succeeded", "failed"}

(* One successor per episode: whatever drivers, approvals and crashes race *)
(* for it, an attempt is followed by one attempt, consumed from one        *)
(* action, and only the latest attempt is at work.                         *)
OneSuccessor ==
    /\ \A n \in DOMAIN attempts :
        /\ attempts[n].src = n - 1
        /\ n < Latest => attempts[n].status \in {"failed", "succeeded"}
    /\ \A a, b \in Executed : actions[a].att = actions[b].att => a = b

(* An action is executed on all the evidence: every incident accepted on   *)
(* the attempt before its successor existed was covered by the plan, and   *)
(* none of them called for anything else than this recovery.               *)
DecidedOnAllEvidence ==
    \A a \in Executed :
        LET n == actions[a].att IN
        /\ attempts[n].plans[actions[a].plan] = attempts[n].accepted
        /\ Categories(n, attempts[n].accepted) \subseteq {actions[a].fam, "transient"}

(* A successor never restores a state reported after an incident of the    *)
(* attempt it replaces, nor one beyond the step an incident names.         *)
RestoresBeforeIncident ==
    \A n \in 2 .. Latest :
        LET src == attempts[n].src
            c == attempts[n].from
        IN  \A i \in Evidence(src, attempts[src].accepted) :
                /\ c[1] = src => c[2] < i
                /\ CarriesStep(attempts[src].obs[i].cat) =>
                     CheckpointOf(c).step <= attempts[src].obs[i].step

(* However often a run is resized, the effective batch stays, and a resize *)
(* makes the micro batch smaller.                                          *)
BatchPreserved ==
    \A n \in DOMAIN attempts :
        /\ attempts[n].micro * attempts[n].accum = setup.micro * setup.accum
        /\ \A a \in Executed :
            actions[a].att = n - 1 /\ actions[a].fam = "oom"
                => attempts[n].micro < attempts[n - 1].micro

(* A restore never undoes an intervention silently: once a successor has   *)
(* confirmed its directives, every intervention that had taken effect when *)
(* it was created is on its trajectory.                                    *)
InterventionsKept ==
    \A n \in DOMAIN attempts :
        Unconfirmed(n) = {} =>
            \A i \in 1 .. attempts[n].mark :
                \E j \in DOMAIN Trajectory(n) : Trajectory(n)[j].iv = applications[i].iv

(* The replay plan and the retained trajectory agree: what a directive     *)
(* expects to find is the rate the attempt runs at when its turn comes, so *)
(* no confirmation of an honest worker is refused.                         *)
DirectivesFit ==
    \A n \in DOMAIN attempts : \A k \in Unconfirmed(n) :
        (\A j \in 1 .. (k - 1) : Confirmed(n, j)) =>
            attempts[n].directives[k].prev = Rate(n)

(* A run succeeds only on a trajectory that is vouched for: its latest     *)
(* attempt succeeded and confirmed every directive it carried.             *)
SuccessVouchedFor ==
    run = "succeeded" => /\ attempts[Latest].status = "succeeded"
                         /\ Unconfirmed(Latest) = {}

(* With one controller process, a run that ended has no attempt that was   *)
(* created or is at work.                                                  *)
RunEndsWithItsWork ==
    setup.alone /\ run # "active" =>
        \A n \in DOMAIN attempts : attempts[n].status \in {"failed", "succeeded"}

(* A run is not forgotten half way: again and again it has ended, or waits *)
(* for a human's answer, or a driver said why it cannot go on.  The one    *)
(* exception is a process that died between the two commits of _settle and *)
(* left an ending no recovery takes up: attaching finds no attempt to      *)
(* follow and no incident to answer, and the run stays ACTIVE.             *)
Rests ==
    \/ run # "active"
    \/ \E d \in Drivers : driver[d].escalated
    \/ \E a \in DOMAIN actions : actions[a].status = "pending"

Stranded ==
    /\ faults.crashes < setup.crashes
    /\ attempts[Latest].status \in {"succeeded", "failed"}
    /\ ~(attempts[Latest].status = "failed" /\ Recoverable(Latest))
    /\ \A d \in Drivers : driver[d].pc = "idle"

RecoveryRests == []<>(Rests \/ Stranded)

(* A successor is the only one, decided on all the evidence, restored from *)
(* before it, and trains the same effective batch.                         *)
SuccessorSound ==
    /\ RecoveryTypeOK /\ OneSuccessor
    /\ DecidedOnAllEvidence /\ RestoresBeforeIncident /\ BatchPreserved

(* A recovery keeps the interventions that took effect.                    *)
TrainingPreserved == InterventionsKept /\ DirectivesFit

(* The run's ending is that of its attempts.                               *)
RunEndsHonestly == SuccessVouchedFor /\ RunEndsWithItsWork
=============================================================================
