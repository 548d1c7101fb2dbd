\* A second thread reads an fd while its open() is still inside the
\* wrapper (fd_map already set, fd state not yet OPENING or still OPENING).
CONSTANTS
    Threads = {t1, t2}
    LocalFds = {3, 4}
    Paths = {pd, pu}
    DataPaths = {pd}
    Servers = {s0}
    Host <- MCHost
    SrvFds = {3}
    FileLen = 3
    ReadSize = 2
    PreadOffsets = {1}
    MaxOps = 3
    OpenSendFails = FALSE
    ReadSendFails = FALSE
    CloseSendFails = FALSE
    EarlyReads = TRUE
    SeekInterposed = TRUE
    SeekOffsets = {1}
    None = None
SPECIFICATION Spec
INVARIANT SequentialReadSemantics
