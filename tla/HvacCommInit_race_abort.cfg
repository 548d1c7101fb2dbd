\* Two threads make their first tracked open at the same time.
CONSTANTS
    Threads = {t1, t2}
    SerialFirstOpens = FALSE
SPECIFICATION Spec
INVARIANT HandleRegistered
