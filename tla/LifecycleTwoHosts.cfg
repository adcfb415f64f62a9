SPECIFICATION BudgetedSpec
CONSTANTS
  h1 = h1
  h2 = h2
  c1 = c1
  c2 = c2
  c3 = c3
  Hosts = {h1, h2}
  Candidates = {c1}
  Root = c1
  Measurements <- MCMeasurements
  Setups <- MCSetups
  MaxNodes = 1
  MaxEvals = 2
  Benches <- ChattyBenches
  MaxFaults = 1
  MinReplicates = 3
INVARIANT TerminalMeansStopped
CHECK_DEADLOCK FALSE
