SPECIFICATION FairSpec
CONSTANTS
  d1 = d1
  d2 = d2
  m1 = m1
  m2 = m2
  NoOne = NoOne
  Machines = {m1, m2}
  Hosts = {h1}
  Daemons = {d1, d2}
  MachineOf <- MCMachineOf
  TTL = 2
  MaxBack = 1
  MaxSteps = 1
  MaxEpoch = 3
INVARIANT FencedWrites
INVARIANT NothingAfterLoss
PROPERTY EpochOrder
PROPERTY LeaseProgress
