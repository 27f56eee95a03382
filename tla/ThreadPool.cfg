SPECIFICATION FairSpec
CONSTANTS
    Workers = {w1, w2}
    Clients = {c1, c2}
    Waiters = {c1}
    Jobs = {j1, j2, j3}
    NoThread = NoThread
    NoJob = NoJob
INVARIANTS TypeOK NoUseAfterFree Accounting
PROPERTIES WaitMeansDone ImplementsJobPool WaitReturns JobsGetPerformed WorkersExit
CHECK_DEADLOCK FALSE
