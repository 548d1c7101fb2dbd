\* lseek as wrappers.c is built: the lseek wrapper is commented out, so an
\* lseek on a tracked fd moves only the local kernel offset.
CONSTANTS
    Threads = {t1, t2}
    LocalFds = {3, 4}
    Paths = {pd, pu}
    DataPaths = {pd}
    Servers = {s0}
    Host <- MCHost
    SrvFds = {3}
    FileLen = 3
    ReadSize = 2
    PreadOffsets = {1}
    MaxOps = 3
    OpenSendFails = FALSE
    ReadSendFails = FALSE
    CloseSendFails = FALSE
    EarlyReads = FALSE
    SeekInterposed = FALSE
    SeekOffsets = {1}
    None = None
SPECIFICATION Spec
INVARIANT SequentialReadSemantics
