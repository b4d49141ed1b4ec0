SPECIFICATION FairSpec
CONSTANTS
    MaxThreads = 2
    MaxContexts = 2
    Levels = {1, 2}
    Search = "linear"
    Tracker = "Fifo"
    RequestCount = 0
    WarmupCount = 0
    Async = FALSE
    OnSequenceModel = TRUE
    SeqLengths = {1, 2}
    MayInterrupt = FALSE
    MayFail = FALSE
    MayLose = FALSE
CHECK_DEADLOCK FALSE
PROPERTIES
    PauseCompletes
