SPECIFICATION CancelSpec
CONSTANTS
  c1 = c1
  c2 = c2
  train = train
  eval = eval
  NoAttempt = NoAttempt
  Controllers = {c1}
  Operations = {eval}
  Evaluations = {eval}
  Fenced = TRUE
  ReportsCompleted = TRUE
  MaxCrashes = 1
  MaxErrors = 0
CHECK_DEADLOCK FALSE
PROPERTY NothingNewWhileCancelling
