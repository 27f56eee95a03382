SPECIFICATION FairSpec
CONSTANTS
    Timers = {t1, t2}
    Others = {a, b}
    Loop = Loop
    Repeating = {t2}
    Rescheduled = {t1}
    Waited = {t2}
    Waiters = {a}
    MaxDelay = 1
    PipeSize = 3
    NoTimer = NoTimer
INVARIANTS TypeOK Sorted QueuedIsMarked
PROPERTIES AddedTimerFires WaitReturns StopEndsLoop
CHECK_DEADLOCK FALSE
