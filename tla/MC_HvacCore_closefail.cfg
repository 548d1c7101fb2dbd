\* The HG_Forward of close_in fails: gen_close erases the mapping anyway.
CONSTANTS
    Threads = {t1, t2}
    LocalFds = {3, 4}
    Paths = {pd, pu}
    DataPaths = {pd}
    Servers = {s0}
    Host <- MCHost
    SrvFds = {3}
    FileLen = 3
    ReadSize = 2
    PreadOffsets = {1}
    MaxOps = 3
    OpenSendFails = FALSE
    ReadSendFails = FALSE
    CloseSendFails = TRUE
    EarlyReads = FALSE
    SeekInterposed = TRUE
    SeekOffsets = {1}
    None = None
SPECIFICATION Spec
INVARIANT ServerFdAccounting
