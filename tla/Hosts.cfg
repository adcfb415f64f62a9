SPECIFICATION HostsSpec
CONSTANTS
  c1 = c1
  c2 = c2
  train = train
  eval = eval
  NoAttempt = NoAttempt
  Controllers = {c1, c2}
  Operations = {train, eval}
  Evaluations = {eval}
  Fenced = FALSE
  ReportsCompleted = FALSE
  MaxCrashes = 1
  MaxErrors = 0
SYMMETRY Symmetry
INVARIANT SubmissionSound
INVARIANT CancellationSound
PROPERTY AttemptForward
CHECK_DEADLOCK FALSE
