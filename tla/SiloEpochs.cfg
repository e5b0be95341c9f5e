SPECIFICATION FairSpec
CONSTANTS
    MaxThreads = 3
    Keys = {0, 1}
    Value <- MCValue
    Transactions <- MCTransactions
    MaxRuns = 2
    MaxEpoch = 2
INVARIANTS
    TypeOK
    EpochLag
    CommitEpoch
    LogOnceInOrder
PROPERTIES
    OldEntriesFlushed
    EpochAdvances
