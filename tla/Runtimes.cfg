SPECIFICATION RuntimesSpec
CONSTANTS
  c1 = c1
  c2 = c2
  l1 = l1
  l2 = l2
  accepted = accepted
  NoPid = NoPid
  Operations = {accepted}
  Refused = {}
  Callers = {c1, c2}
  Launchers = {l1, l2}
  MaxCrashes = 1
  Clients = {1, 2}
  Entries = {1, 2}
  MaxRanks = 2
  RaySetups <- MCRaySetups
\* A Ray operation may rest: its request was refused, or its job is over.
CHECK_DEADLOCK FALSE
INVARIANT OneWorker
INVARIANT EndingHonest
INVARIANT RaySound
PROPERTY ImplementsContract
PROPERTY CancelSurvives
PROPERTY RayCancelReaches
