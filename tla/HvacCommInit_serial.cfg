\* Four threads whose first tracked opens do not overlap in the
\* initialisation block (for instance, the main thread opens first).
CONSTANTS
    Threads = {t1, t2, t3, t4}
    SerialFirstOpens = TRUE
SPECIFICATION Spec
INVARIANT TypeOK
INVARIANT HandleRegistered
INVARIANT InflightProgressed
PROPERTY OpensComplete
