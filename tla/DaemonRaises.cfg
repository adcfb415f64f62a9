SPECIFICATION FairSpec
CONSTANTS
    ExpIds = {"e", "f"}
    Setups <- MailSetups
    MaxAsks = 2
    MaxEnds = 1
    MaxFaults = 1
    MaxRetries = 1
PROPERTY RaiseHonest
CHECK_DEADLOCK FALSE
