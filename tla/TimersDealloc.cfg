SPECIFICATION Spec
CONSTANTS
    Timers = {t1}
    Others = {a}
    Loop = Loop
    Repeating = {}
    Rescheduled = {}
    Waited = {}
    Waiters = {}
    MaxDelay = 1
    PipeSize = 3
    NoTimer = NoTimer
INVARIANTS FreedNotInRunLoop
CHECK_DEADLOCK FALSE
