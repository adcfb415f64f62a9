------------------------- MODULE MCManagedTraining -------------------------
(***************************************************************************)
(* Small instances of ManagedTraining and of HarnessEvaluation: what is    *)
(* trained, and what is measured.  They do not share state, so they are    *)
(* two worlds of one run, told apart by `world'; the other world's state   *)
(* stays as it begins.                                                     *)
(***************************************************************************)
EXTENDS ManagedTraining, HarnessEvaluation

VARIABLE world

-----------------------------------------------------------------------------
(* Training runs. *)

\* Two windows in one epoch, a bundle after each, recovery armed: the rate is
\* lowered twice, or the batch is reshaped and the rate lowered.
Twice ==
  [trainer |-> "native", size |-> 4, micro |-> 2, accum |-> 1, epochs |-> 1, maxSteps |-> 0,
   every |-> 1, armed |-> TRUE, supported |-> TRUE, scaled |-> FALSE, lr |-> 0, faults |-> 2]

\* Two epochs, stopped by max_steps in the middle of the second.
Epochs == [Twice EXCEPT !.epochs = 2, !.maxSteps = 3, !.every = 2, !.faults = 1]

\* No store is declared, and nothing is armed.
Plain == [Twice EXCEPT !.every = 0, !.armed = FALSE, !.faults = 1]

\* TRL accumulates two micro-batches to a window.
Trl == [Plain EXCEPT !.trainer = "trl", !.micro = 1, !.accum = 2]

\* A precision this machine does not have, or a version not audited.
Unsupported == [Plain EXCEPT !.supported = FALSE]

\* Refused by the compiler.
Bundles == [Trl EXCEPT !.every = 1]

\* fp16: the GradScaler skips updates, of a run that may be restored, armed or
\* not, and of one that may not.
Scaled == [Twice EXCEPT !.scaled = TRUE, !.faults = 1]
Unarmed == [Scaled EXCEPT !.armed = FALSE]
ScaledPlain == [Plain EXCEPT !.scaled = TRUE]

MCSetups == {Twice, Epochs, Plain, Trl, Unsupported, Bundles, Scaled, Unarmed, ScaledPlain}

-----------------------------------------------------------------------------
(* Evaluations. *)

Outcome(disclosure, count) ==
  [kind |-> "outcome", access |-> "none", disclosure |-> disclosure,
   sampling |-> IF count = 2 THEN "all" ELSE "first", count |-> count,
   carries |-> "none", asks |-> "pin", times |-> 2, hostile |-> 1]

Judging(access, carries) ==
  [Outcome("aggregate", 1) EXCEPT !.kind = "judge", !.access = access, !.carries = carries,
                                  !.times = 1]

MCEvalSetups ==
  {Outcome("aggregate", 2), [Outcome("aggregate", 1) EXCEPT !.asks = "alias"],
   [Outcome("per-task", 2) EXCEPT !.times = 1, !.hostile = 0],
   [Outcome("aggregate", 1) EXCEPT !.carries = "foreign"],
   [Judging("none", "none") EXCEPT !.sampling = "all", !.count = 2, !.hostile = 0], Judging("reference", "host"),
   Judging("reference", "foreign"), Judging("reference", "none"),
   [Judging("none", "none") EXCEPT !.disclosure = "per-task", !.sampling = "seeded-sample"]}

-----------------------------------------------------------------------------
MeasuringInit ==
  \/ world = "training" /\ Init /\ EvalInit /\ spec = CHOOSE s \in EvalSetups : TRUE
  \/ world = "evaluation" /\ EvalInit /\ Init /\ setup = CHOOSE s \in Setups : Compiles(s)

MeasuringNext ==
  /\ UNCHANGED world
  /\ \/ world = "training" /\ Next /\ UNCHANGED evalVars
     \/ world = "evaluation" /\ EvalNext /\ UNCHANGED vars

\* Fairness of the training, in its world.
MeasuringSpec ==
  /\ MeasuringInit /\ [][MeasuringNext]_<<vars, evalVars, world>>
  /\ WF_vars(world = "training" /\ WorkerStep)
  /\ WF_vars(world = "training" /\ LauncherStep)
  /\ WF_vars(world = "training" /\ ControllerStep)

-----------------------------------------------------------------------------
(* Properties, of the world they are about. *)

\* ManagedTraining: a run ends, or its ending is escalated, or it is stranded by
\* a controller that dies between the two commits of its settlement.
TrainingEnds == world = "training" => RunEnds

\* HarnessEvaluation: what is reported is true and repeatable.
EvaluationSound == world = "evaluation" => EvaluationTrue

\* HarnessEvaluation: nothing is told of single tasks.
DisclosureKept == world = "evaluation" => NothingTold
=============================================================================
