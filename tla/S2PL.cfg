SPECIFICATION FairSpec
CONSTANTS
    Threads = {t1, t2, t3}
    MAX_OBJ = 3
    MAX_OPERATION = 2
    Nobody = Nobody
INVARIANTS TypeOK TwoPhaseLocking OwnerWillUnlock
PROPERTY AllCommit
