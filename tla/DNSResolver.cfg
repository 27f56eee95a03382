SPECIFICATION FairSpec
CONSTANTS
    Queries = {q1, q2}
    NameServers = 2
    MaxAttempts = 2
INVARIANTS TypeOK CalledOnce LiveHasTimer SendsBounded
PROPERTIES AnsweredEventually
CHECK_DEADLOCK FALSE
