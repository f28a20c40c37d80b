CONSTANTS
    None = None
    MaxEpoch = 2
    MaxCertificates = 4
    Anchored = {1, 3}
    MaxDRepCertificates = 4
    Activity = 1
    Lifetimes = {0, 1}
    MaxVotes = 2
    HotCredentials = {h1, h2}
    MaxOutputs = 5
    PageSize = 2
    MaxPages = 2
    KesPools = {p1, p2}
    MaxMinted = 4
    Geneses <- MCGeneses
    Horizon = 30
SPECIFICATION Spec
INVARIANTS
    PoolStatusesAreRight
    YaciStatusWasHeld
    PoolParamsAreRegistered
    DRepAnswersAreRight
    ActionStatusesAreRight
    VotesAreLast
    AskedForIsAnswered
    ExpiryIsRight
    LiveOutputsAreFound
    NextCounterIsAccepted
    ClockIsRight
CHECK_DEADLOCK FALSE
