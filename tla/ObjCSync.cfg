SPECIFICATION FairSpec
CONSTANTS
    Threads = {t1, t2, t3}
    Objects = {o1, o2}
    Locks = {l1, l2, l3}
    MaxNesting = 2
    None = None
INVARIANTS TypeOK OneLockPerObject NoFreedLockUsed CountAgrees ExitsFind
PROPERTIES IsMonitors Returns
CHECK_DEADLOCK FALSE
