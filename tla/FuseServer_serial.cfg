SPECIFICATION Spec
CONSTANTS
    SzOpHdr = 2
    SzRpHdr = 2
    SzOpOpen = 1
    SzOpRead = 2
    SzOpWrit = 1
    SzOpClos = 1
    SzRpOpen = 2
    SzUstat = 1
    SzUstatvfs = 1
    SzUdirent = 2
    SzMode = 1
    SzTimeModder = 1
    FILENAME_LEN = 2
    ReadlinkBuf = 2
    Handles = {h1, h2}
    Workers = {w1}
    Handlers <- AllHandlers
    Fds = {f1, f2}
    BufSizes = {1, 3}
    LinkLens = {1, 2}
    FileInfo <- EveryInfo
    MaxDirents = 2
    MaxCalls = 3
    OuidMod = 16
    LiteralClient = FALSE
    MayFail = FALSE
    None = None
INVARIANTS
    TypeOK
    InStep
    OwnReply
    HandlesAgree
    AbortOnlyOversizedRead
    OuidGroups
SYMMETRY Interchangeable
