CONSTANTS
    Half = 64
    NsPerMs = 2
    MsPerSecond = 2
    Urls <- AllUrls
    Home <- HomeUrl
    OptionSet <- AllOptions
    Total = 4
    Backoffs <- ShortBackoffs
    Wishes <- SomeWishes
SPECIFICATION Spec
INVARIANTS
    TypeOK
    UploadsAreNotRepeated
    CredentialsStayHome
    SendsAreBounded
    RetryableMeansExhausted
    AtMostOneGoesOutLate
PROPERTIES
    RetryAfterRespected
    KeepsRunContract
CHECK_DEADLOCK FALSE
