\* Clients may open files before every server has posted its address.
CONSTANTS
    Ranks = {0, 1}
    Threads = {t1, t2}
    MaxOps = 1
    MaxStarts = 2
SPECIFICATION Spec
INVARIANT NoBootstrapCrash
