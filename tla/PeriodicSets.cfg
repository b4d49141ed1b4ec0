SPECIFICATION FairSpec
CONSTANTS
    Start = 2
    End = 4
    Step = 2
    Period = 1
    MinResponses = 2
    MaxResponses = 2
    Word = 16
    SlowServer = TRUE
    MaxFailures = 1
    MayInterrupt = TRUE
CHECK_DEADLOCK FALSE
INVARIANTS
    LaunchedWithinEnd
    SetsInOrder
PROPERTIES
    ExperimentEnds
