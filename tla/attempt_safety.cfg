CONSTANTS
    k1 = k1
    k2 = k2
    Cancellers <- TwoCancellers
    MaxRounds = 3
    ExpiryFires = TRUE
SPECIFICATION FairSpec
INVARIANTS
    TypeOK
    ExchangeIsCutOff
    DanglesOnlyWhileUnwinding
PROPERTIES
    NothingSentAfterCancel
    CancelEndsExchange
    KeepsRunContract
CHECK_DEADLOCK FALSE
