SPECIFICATION MeasuringSpec
CONSTANTS
  Setups <- MCSetups
  MaxAttempts = 3
  Members = {1, 2}
  EvalSetups <- MCEvalSetups
  MaxRetries = 1
INVARIANT TrainingExact
INVARIANT RecordExact
INVARIANT EvaluationSound
INVARIANT DisclosureKept
PROPERTY TrainingEnds
CHECK_DEADLOCK FALSE
