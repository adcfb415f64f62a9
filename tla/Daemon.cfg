SPECIFICATION FairSpec
CONSTANTS
    ExpIds = {"e", "f"}
    Setups <- MailSetups
    MaxAsks = 2
    MaxEnds = 1
    MaxFaults = 1
    MaxRetries = 1
INVARIANT RequestsHonest
PROPERTY AnswersHonest
PROPERTY ClientsAnswered
CHECK_DEADLOCK FALSE
