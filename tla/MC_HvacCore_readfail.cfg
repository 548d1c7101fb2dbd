\* The HG_Forward of read_in fails on an otherwise healthy fd, so gen_read
\* returns -1 and the shim falls back to the local fd.
CONSTANTS
    Threads = {t1, t2}
    LocalFds = {3, 4}
    Paths = {pd, pu}
    DataPaths = {pd}
    Servers = {s0}
    Host <- MCHost
    SrvFds = {3}
    FileLen = 3
    ReadSize = 2
    PreadOffsets = {1}
    MaxOps = 3
    OpenSendFails = FALSE
    ReadSendFails = TRUE
    CloseSendFails = FALSE
    EarlyReads = FALSE
    SeekInterposed = TRUE
    SeekOffsets = {1}
    None = None
SPECIFICATION Spec
INVARIANT SequentialReadSemantics
