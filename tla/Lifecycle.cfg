SPECIFICATION BudgetedFairSpec
CONSTANTS
  h1 = h1
  h2 = h2
  c1 = c1
  c2 = c2
  c3 = c3
  Hosts = {h1, h2}
  Candidates = {c1, c2, c3}
  Root = c1
  Measurements <- MCMeasurements
  Setups <- MCSetups
  MaxNodes = 3
  MaxEvals = 2
  Benches <- MCBenches
  MaxFaults = 1
  MinReplicates = 3
INVARIANT BudgetKept
INVARIANT BranchingSound
INVARIANT NothingLeftBehind
INVARIANT SearchSound
PROPERTY ExperimentsRest
PROPERTY SearchesEnd
CHECK_DEADLOCK FALSE
