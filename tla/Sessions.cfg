SPECIFICATION SessionsSpec
CONSTANTS
    Requests = {1, 2, 3, 4}
    Threads = {1, 2, 4}
    Answers <- MCAnswers
    Data <- MCData
    Flaws <- MCFlaws
CHECK_DEADLOCK FALSE
INVARIANTS
    RecordsKept
    DiesOnlyOfFault
PROPERTIES
    ImplementsPool
