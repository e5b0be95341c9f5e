SPECIFICATION Spec
CONSTANTS
    THREAD_NUM = 2
    MAX_TRANSACTION = 2
    MAX_OPERATION = 1
    MAX_ROW = 2
INVARIANTS TypeOK NoLeakedLock
