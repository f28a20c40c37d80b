\* UTxO lists of a node's context and of Kupo around one, with and without an
\* index; requests failing, the node switching forks.
CONSTANTS
    None = None
    Second = 2
    Latency = 1
    NodeTtl = 2
    KupoTtl = 2
    IndexLag = 1
    MaxTime = 5
    MaxVersion = 1
SPECIFICATION UtxosSpec
INVARIANTS UtxosFollowTip UtxosWithinTtl
CHECK_DEADLOCK FALSE
