SPECIFICATION Spec
CONSTANTS
    Objects = {o1, o2}
    FDs = {f1, f2}
    Items = {i1, i2}
    Files = {}
    Backends = {"epoll"}
    Disciplined = TRUE
    NoFD = NoFD
    NoItem = NoItem
    NoQueue = NoQueue
SYMMETRY Symmetry
INVARIANTS ReadyHasQueue
CHECK_DEADLOCK FALSE
