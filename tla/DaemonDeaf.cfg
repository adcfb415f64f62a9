SPECIFICATION FairSpec
CONSTANTS
    ExpIds = {"e", "f"}
    Setups <- BrokenSetups
    MaxAsks = 2
    MaxEnds = 1
    MaxFaults = 1
    MaxRetries = 1
PROPERTY EveryWaitEnds
CHECK_DEADLOCK FALSE
