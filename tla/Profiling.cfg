SPECIFICATION ModesSpec
CONSTANTS
    Configs <- SearchConfigs
    StabilityPct = 10
    NO_LIMIT = 0
    Ensembles <- MCEnsembles
    MaxWindows = 3
    MaxExecutions = 2
INVARIANTS
    RecordsConserved
    BracketHolds
    WindowsFaithful
PROPERTIES
    ReportedIsStable
    SearchEnds
