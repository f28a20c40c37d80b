\* Any queries and closes of three threads.
CONSTANTS
    t1 = t1
    t2 = t2
    t3 = t3
    None = None
    Threads = {t1, t2, t3}
    MaxCalls = 2
SPECIFICATION FairSpec
INVARIANTS TypeOK NoClientLost ClosedOnce HandedAClient OneForAll
PROPERTIES EveryCallEnds
CHECK_DEADLOCK FALSE
