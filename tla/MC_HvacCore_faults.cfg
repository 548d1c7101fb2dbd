\* Applications that read before open() returned, and a transport whose
\* HG_Forward of an open or a read can fail: the fd table and buffers stay
\* consistent and every call returns, though read semantics are lost.
CONSTANTS
    Threads = {t1, t2}
    LocalFds = {3, 4}
    Paths = {pd, pu}
    DataPaths = {pd}
    Servers = {s0}
    Host <- MCHost
    SrvFds = {3}
    FileLen = 3
    ReadSize = 2
    PreadOffsets = {1}
    MaxOps = 3
    OpenSendFails = TRUE
    ReadSendFails = TRUE
    CloseSendFails = FALSE
    EarlyReads = TRUE
    SeekInterposed = TRUE
    SeekOffsets = {}
    None = None
SPECIFICATION Spec
INVARIANT ServerFdAccounting
INVARIANT BufferSafety
PROPERTY OpsTerminate
PROPERTY MonotonicFdState
