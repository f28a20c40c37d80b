\* Two contexts on one file and every fault.
CONSTANTS
    c1 = c1
    c2 = c2
    t1 = t1
    t2 = t2
    NewFile = NewFile
    Contexts = {c1, c2}
    Txs = {t1, t2}
    Faults = {"serialize", "open", "write", "crash", "tear"}
    MaxEntries = 2
    MaxCapture = 2
SPECIFICATION Spec
INVARIANTS HistoryAgrees
SYMMETRY Symmetry
CHECK_DEADLOCK FALSE
