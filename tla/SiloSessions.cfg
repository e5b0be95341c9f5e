SPECIFICATION FairSpec
CONSTANTS
    Clients = {c1, c2}
    Queries <- MCQueries
    MAX_TRANSACTION = 1
    UintMax = 7
    SizeMax = 15
    Memory = 2
    MaxQueries = 2
INVARIANTS TypeOK ThreadLimit RunOnce EndsOnlyAfter OneOperationEach
PROPERTY Answered
CHECK_DEADLOCK FALSE
