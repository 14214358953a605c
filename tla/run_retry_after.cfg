CONSTANTS
    Half = 8
    NsPerMs = 2
    MsPerSecond = 2
    Urls <- OneUrl
    Home <- HomeUrl
    OptionSet <- Defaults
    Total = 3
    Backoffs <- ShortBackoffs
    Wishes <- LongestWish
SPECIFICATION Spec
PROPERTIES
    RetryAfterRespected
CHECK_DEADLOCK FALSE
