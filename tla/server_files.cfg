CONSTANTS
    p1 = p1
    p2 = p2
    g1 = g1
    g2 = g2
    NoFile = NoFile
    NoGet = NoGet
    Uploads <- TwoUploads
    Downloads <- TwoDownloads
    Size <- SizesOfTwo
SPECIFICATION GetSpec
SYMMETRY Symmetry
INVARIANTS
    TypeOK
    FileIsWhole
    NoTemporaryLeft
    DownloadSendsOneFile
    GetTypeOK
    OutputIsWhole
    OutputComesFromUpload
CHECK_DEADLOCK FALSE
