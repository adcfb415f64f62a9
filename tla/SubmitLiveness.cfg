SPECIFICATION LiveSpec
CONSTANTS
  c1 = c1
  c2 = c2
  train = train
  eval = eval
  Controllers = {c1, c2}
  Operations = {train, eval}
  Evaluations = {eval}
  Fenced = TRUE
  ReportsCompleted = TRUE
  MaxCrashes = 1
  MaxErrors = 1
INVARIANT RunsHonest
PROPERTY SubmissionProgress
CHECK_DEADLOCK FALSE
