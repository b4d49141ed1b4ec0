SPECIFICATION FairSpec
CONSTANTS
    MaxThreads = 1
    MaxContexts = 2
    Levels = {2}
    Search = "linear"
    Tracker = "Concurrency"
    RequestCount = 3
    WarmupCount = 2
    Async = TRUE
    OnSequenceModel = FALSE
    SeqLengths = {1}
    MayInterrupt = TRUE
    MayFail = TRUE
    MayLose = TRUE
CHECK_DEADLOCK FALSE
PROPERTIES
    CountedRunStops
    InterruptStopsWorkers
