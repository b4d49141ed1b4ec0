SPECIFICATION Spec
CONSTANTS
    Requests = {1, 2, 3}
    Concurrency = 2
    Word = 16
    Answers <- AnyAnswers
CHECK_DEADLOCK FALSE
INVARIANTS
    BookkeepingFaithful
PROPERTIES
    OrderlyRunEnds
