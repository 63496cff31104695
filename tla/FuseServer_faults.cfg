SPECIFICATION FairSpec
CONSTANTS
    SzOpHdr = 2
    SzRpHdr = 2
    SzOpOpen = 1
    SzOpRead = 2
    SzOpWrit = 1
    SzOpClos = 1
    SzRpOpen = 2
    SzUstat = 1
    SzUstatvfs = 1
    SzUdirent = 2
    SzMode = 1
    SzTimeModder = 1
    FILENAME_LEN = 2
    ReadlinkBuf = 2
    Handles = {h1}
    Workers = {w1}
    Handlers <- FaultHandlers
    Fds = {f1}
    BufSizes = {1}
    LinkLens = {1}
    FileInfo <- SomeInfo
    MaxDirents = 2
    MaxCalls = 3
    OuidMod = 16
    LiteralClient = FALSE
    MayFail = TRUE
    None = None
INVARIANTS
    OwnReply
    HandleLive
    MuGuards
    AtMostOnce
    WireInv
    CallInv
    HandleInv
PROPERTIES
    EbusyIsFinal
    KeepsPromise
    ResponsiveWhileOpen
