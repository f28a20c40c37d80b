\* The second read after an epoch has ended.
CONSTANTS
    None = None
    Number = Number
    MaxEpoch = 4
SPECIFICATION Spec
INVARIANTS NeverTypeError
CHECK_DEADLOCK FALSE
