SPECIFICATION Spec
CONSTANTS
    Queries = {q1}
    NameServers = 2
    MaxAttempts = 1
INVARIANTS ReportHasContext
CHECK_DEADLOCK FALSE
