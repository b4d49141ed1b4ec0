SPECIFICATION Spec
CONSTANTS
    MaxThreads = 2
    MaxContexts = 3
    Levels = {1, 3}
    Search = "linear"
    Tracker = "Fifo"
    RequestCount = 0
    WarmupCount = 0
    Async = TRUE
    OnSequenceModel = TRUE
    SeqLengths = {2}
    MayInterrupt = FALSE
    MayFail = FALSE
    MayLose = FALSE
CHECK_DEADLOCK FALSE
INVARIANTS
    HandedOverWhole
    QuietWhenPausedOrDone
