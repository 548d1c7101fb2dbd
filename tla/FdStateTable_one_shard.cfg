\* Three threads open, read and close fds 3, 67 and 131, which share shard 3;
\* the first table call completes the rwlock initialisation alone (for
\* instance, the main thread opens a file before it starts workers).
CONSTANTS
    t1 = t1
    t2 = t2
    t3 = t3
    Threads = {t1, t2, t3}
    Progress = Progress
    Fd <- MCFdSameShard
    FdStateShards = 64
    FirstCallAlone = TRUE
    None = None
SPECIFICATION Spec
PROPERTY TableCallsReturn
