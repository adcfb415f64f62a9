SPECIFICATION LocalSpec
CONSTANTS
  c1 = c1
  c2 = c2
  l1 = l1
  l2 = l2
  accepted = accepted
  refused = refused
  NoPid = NoPid
  Operations = {accepted}
  Refused = {}
  Callers = {c1}
  Launchers = {l1, l2}
  MaxCrashes = 0
INVARIANT CancelledWasReached
