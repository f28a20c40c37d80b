\* Every helper over every context, requests failing.
CONSTANTS
    a1 = a1
    Accounts = {a1}
    MaxRewards = 2
    MaxPending = 2
SPECIFICATION Spec
INVARIANTS  RefusalsAreDue 
CHECK_DEADLOCK FALSE
