SPECIFICATION PreparationSpec
CONSTANTS
    DatasetSize = 2
    MaxExtra = 2
    LevelBound = 8
    CommandLines <- MCCommandLines
    ExtraOptions <- MCExtraOptions
    Repository <- MCRepository
    Inputs = {"A", "B"}
    Outputs = {"Y"}
    Jobs <- MCJobs
    MaxRequests = 4
    Plans <- SchedulePlans
    MaxTimestamps = 4
INVARIANTS
    ParametersConsistent
    RefusedBeforeLoad
    ExitStatusTruthful
    RequestFaithful
    RoundsCoverData
    RegionsReleased
    OpenIdsDistinct
    OnSchedule
