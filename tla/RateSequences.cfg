SPECIFICATION RateSpec
CONSTANTS
    MaxThreads = 1
    MaxContexts = 3
    Tracker = "Fifo"
    Rates = 1
    MaxInFlight = 2
    RequestCount = 6
    WarmupCount = 2
    Async = TRUE
    OnSequenceModel = TRUE
    SeqLengths = {1, 2}
    MayInterrupt = TRUE
    MayFail = TRUE
    MayLose = TRUE
    MayLackSchedule = TRUE
CHECK_DEADLOCK FALSE
INVARIANTS
    NotIssuedWhileOutstanding
    TrackerNeverEmpty
