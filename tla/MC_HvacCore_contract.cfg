\* Applications that keep the contract: reads only after open returned,
\* no transport failure.  The server has one free fd, so concurrent opens
\* of two threads meet EMFILE.
CONSTANTS
    Threads = {t1, t2}
    LocalFds = {3, 4}
    Paths = {pd, pu}
    DataPaths = {pd}
    Servers = {s0}
    Host <- MCHost
    SrvFds = {3}
    FileLen = 3
    ReadSize = 2
    PreadOffsets = {1}
    MaxOps = 3
    OpenSendFails = FALSE
    ReadSendFails = FALSE
    CloseSendFails = FALSE
    EarlyReads = FALSE
    SeekInterposed = TRUE
    SeekOffsets = {1}
    None = None
SPECIFICATION Spec
INVARIANT TypeOK
INVARIANT SequentialReadSemantics
INVARIANT ServerFdAccounting
INVARIANT BufferSafety
PROPERTY OpsTerminate
PROPERTY PosixRefinement
PROPERTY MonotonicFdState
