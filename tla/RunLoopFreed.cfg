SPECIFICATION Spec
CONSTANTS
    Objects = {o1}
    FDs = {f1}
    Items = {i1, i2}
    Files = {}
    Backends = {"epoll"}
    Disciplined = TRUE
    NoFD = NoFD
    NoItem = NoItem
    NoQueue = NoQueue
SYMMETRY Symmetry
INVARIANTS FreedUntouched
CHECK_DEADLOCK FALSE
