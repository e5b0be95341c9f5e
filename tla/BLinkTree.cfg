SPECIFICATION FairSpec
CONSTANTS
    N = 4
    Size_thread = 2
    KeyVectors <- MCKeyVectors
INVARIANTS
    TypeOK
    NeverTooFarRight
    KeysStayReachable
    KeysSorted
    NullLockedOnlyAfterEarlySplit
PROPERTY AllKeysFound
