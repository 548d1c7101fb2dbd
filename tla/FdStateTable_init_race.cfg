\* Three threads open, read and close fds 3, 67 and 131, which share shard 3;
\* no order is imposed on the first table calls: two threads may both see
\* fd_state_rwlocks_initialized false and both run the pthread_rwlock_init
\* loop, the second while the first holds shard 3.
CONSTANTS
    t1 = t1
    t2 = t2
    t3 = t3
    Threads = {t1, t2, t3}
    Progress = Progress
    Fd <- MCFdSameShard
    FdStateShards = 64
    FirstCallAlone = FALSE
    None = None
SPECIFICATION Spec
INVARIANT MapRaceFree
