\* Two threads open, read and close fds 3 and 4, which lie in different
\* shards; the first table call completes the rwlock initialisation alone.
CONSTANTS
    t1 = t1
    t2 = t2
    t3 = t3
    Threads = {t1, t2}
    Progress = Progress
    Fd <- MCFdApart
    FdStateShards = 64
    FirstCallAlone = TRUE
    None = None
SPECIFICATION Spec
INVARIANT MapRaceFree
