\* The parameters of both contexts, requests failing, the node switching
\* forks.
CONSTANTS
    None = None
    Second = 2
    Latency = 1
    DefaultInterval = 3
    BlockInterval = 2
    MaxTime = 6
    MaxVersion = 1
SPECIFICATION Spec
INVARIANTS ParamsWithinInterval
CHECK_DEADLOCK FALSE
