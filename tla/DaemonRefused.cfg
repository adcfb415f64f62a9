SPECIFICATION FairSpec
CONSTANTS
    ExpIds = {"e", "f"}
    Setups <- ReplacedSetups
    MaxAsks = 2
    MaxEnds = 1
    MaxFaults = 1
    MaxRetries = 1
INVARIANT FailedChangedNothing
CHECK_DEADLOCK FALSE
