SPECIFICATION FairSpec
CONSTANTS
    a = a
    b = b
    Addresses = {a, b}
    Families = {"AAAA", "A"}
    Answers <- MCAnswers
    StaticAddresses <- MCStatic
    MaxDomains = 2
    MaxAliases = 1
    Connects = {c1, c2}
    Named = c1
    Literal = b
    NoSocket = NoSocket
INVARIANTS OneRoundAtATime ToldOnce ToldTruth
PROPERTIES ConnectEnds
CHECK_DEADLOCK FALSE
