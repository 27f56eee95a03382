SPECIFICATION Spec
CONSTANTS
    k1 = k1
    k2 = k2
    k3 = k3
    k4 = k4
    h1 = h1
    h2 = h2
    Keys = {k1, k2, k3, k4}
    Values = {v1, v2}
    Hashes <- MCHashes
    MinCapacity = 4
    MaxCapacity = 8
    None = None
    MinReadSize = 3
    PageSize = 4
    Messages <- MCMessages
    MaxRead = 4
    MaxObjects = 5
    MaxDepth = 3
    MaxPools = 2
    FirstSize = 2
    Requests = {r1, r2}
    Hosts = {h1, h2}
    Replies <- MCReplies
    NoHost = NoHost
    Redirects = 1
    MaxConnections = 3
INVARIANTS IsDictionary EnumeratesOnce BodyInOrder ReleasedOnce OwnAnswers
CHECK_DEADLOCK FALSE
