SPECIFICATION ClientsSpec
CONSTANTS
    Threads = {1, 2}
    Jobs <- MCJobs
    MaxRequests = 2
    MaxResponses = 2
    HealthIters = 3
    SizeLimit = 8
    Calls <- MCCalls
    NarrowLimit = 4
    MaxCalls = 4
INVARIANT NoUseAfterFree AnswersComplete StatsExact SendsItsOwn
PROPERTY Answered
