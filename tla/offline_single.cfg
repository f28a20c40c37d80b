\* One context, reopened after crashes that spare the file, whose saves may
\* raise at any point.
CONSTANTS
    c1 = c1
    t1 = t1
    t2 = t2
    t3 = t3
    NewFile = NewFile
    Contexts = {c1}
    Txs = {t1, t2, t3}
    Faults = {"serialize", "open", "write", "crash"}
    MaxEntries = 4
    MaxCapture = 2
SPECIFICATION Spec
INVARIANTS AckedRecoverable
PROPERTIES RecordsOnlyGrow ImplementsLog
CHECK_DEADLOCK FALSE
