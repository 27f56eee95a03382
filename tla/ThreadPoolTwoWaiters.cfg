SPECIFICATION FairSpec
CONSTANTS
    Workers = {w1}
    Clients = {c1, c2}
    Waiters = {c1, c2}
    Jobs = {j1}
    NoThread = NoThread
    NoJob = NoJob
PROPERTIES WaitReturns
CHECK_DEADLOCK FALSE
