CONSTANTS
    None = None
    MaxCalls = 2
    Transactions = {x1, x2}
    Keys = {k1, k2}
    MaxLists = 3
    MaxElements = 2
    MaxSaves = 2
    MaxEntries = 2
SPECIFICATION MCSpec
INVARIANTS
    VerdictsAreTrue
    EvaluationsAreTrue
    WitnessesStay
    ParametersAreReported
    SectionsSurvive
PROPERTIES
    FilesAreRemoved
CHECK_DEADLOCK FALSE
