SPECIFICATION FairSpec
CONSTANTS
    d1 = d1
    d2 = d2
    Drivers = {d1, d2}
    Setups <- MCSetups
    MaxSteps = 2
    MaxIncidents = 2
    StaleRetries = 2
INVARIANT SuccessorSound
INVARIANT TrainingPreserved
INVARIANT RunEndsHonestly
PROPERTY RecoveryRests
CHECK_DEADLOCK FALSE
