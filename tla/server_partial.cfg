CONSTANTS
    p1 = p1
    p2 = p2
    g1 = g1
    NoFile = NoFile
    Uploads <- TwoUploads
    Downloads <- OneDownload
    Size <- SizesOfTwo
SPECIFICATION Spec
INVARIANTS
    NeverPartialContent
CHECK_DEADLOCK FALSE
