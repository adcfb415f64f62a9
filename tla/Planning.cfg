SPECIFICATION FairSpec
CONSTANTS
  h1 = h1
  h2 = h2
  Hosts = {h1, h2}
  Setups <- MCSetups
  Base = 1
  Space = {1, 2, 3, 4}
  Suggest <- MCSuggest
  Rules <- MCRules
  Values = {1, 2}
  MaxDuplicates = 1
  Rounds = 3
  Runnable = {1, 2, 3}
  Quota = 4
INVARIANT PlanningSound
INVARIANT SearchReproducible
PROPERTY PlanningRests
CHECK_DEADLOCK FALSE
