SPECIFICATION RateFairSpec
CONSTANTS
    MaxThreads = 2
    MaxContexts = 1
    Tracker = "Rand"
    Rates = 2
    MaxInFlight = 2
    RequestCount = 0
    WarmupCount = 0
    Async = TRUE
    OnSequenceModel = FALSE
    SeqLengths = {1}
    MayInterrupt = FALSE
    MayFail = FALSE
    MayLose = FALSE
    MayLackSchedule = FALSE
INVARIANTS
    ScheduleGiven
PROPERTIES
    MainNeverStuck
