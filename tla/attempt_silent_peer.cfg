CONSTANTS
    k1 = k1
    k2 = k2
    Cancellers <- OneCanceller
    MaxRounds = 1
    ExpiryFires = FALSE
SPECIFICATION HelpedSpec
PROPERTIES
    RunEnds
CHECK_DEADLOCK FALSE
