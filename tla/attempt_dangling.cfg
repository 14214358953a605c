CONSTANTS
    k1 = k1
    k2 = k2
    Cancellers <- OneCanceller
    MaxRounds = 1
    ExpiryFires = TRUE
SPECIFICATION Spec
INVARIANTS
    CancelCallsTheLiving
CHECK_DEADLOCK FALSE
