SPECIFICATION CancelFairSpec
CONSTANTS
  c1 = c1
  c2 = c2
  train = train
  eval = eval
  NoAttempt = NoAttempt
  Controllers = {c1}
  Operations = {eval}
  Evaluations = {eval}
  Fenced = TRUE
  ReportsCompleted = TRUE
  MaxCrashes = 2
  MaxErrors = 2
CHECK_DEADLOCK FALSE
PROPERTY CancellationEnds
