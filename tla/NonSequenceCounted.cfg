SPECIFICATION Spec
CONSTANTS
    MaxThreads = 2
    MaxContexts = 2
    Levels = {2}
    Search = "linear"
    Tracker = "Concurrency"
    RequestCount = 3
    WarmupCount = 1
    Async = TRUE
    OnSequenceModel = FALSE
    SeqLengths = {1}
    MayInterrupt = TRUE
    MayFail = TRUE
    MayLose = TRUE
CHECK_DEADLOCK FALSE
INVARIANTS
    IdsConserved
    OngoingAccounted
    NoRequestOutlivesRun

    
