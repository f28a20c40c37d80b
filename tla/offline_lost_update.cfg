\* Two contexts on one file: the second save drops what the first recorded.
CONSTANTS
    c1 = c1
    c2 = c2
    t1 = t1
    t2 = t2
    NewFile = NewFile
    Contexts = {c1, c2}
    Txs = {t1, t2}
    Faults = {}
    MaxEntries = 2
    MaxCapture = 1
SPECIFICATION Spec
INVARIANTS AckedRecoverable
CHECK_DEADLOCK FALSE
