SPECIFICATION Spec
CONSTANTS
    Objects = {o1, o2, o3}
    FDs = {f1, f2}
    Items = {i1, i2, i3}
    Files = {o3}
    Backends = {"epoll", "poll"}
    Disciplined = TRUE
    NoFD = NoFD
    NoItem = NoItem
    NoQueue = NoQueue
SYMMETRY Symmetry
INVARIANTS TypeOK WatchedIffPending CountsAgree OnlyRefusedLeaveEmptyQueues
PROPERTIES ImplementsAsyncRequests
CHECK_DEADLOCK FALSE
