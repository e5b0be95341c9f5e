SPECIFICATION Spec
CONSTANTS
    THREAD_NUM = 2
    MAX_TRANSACTION = 1
    MAX_OPERATION = 2
    MAX_ROW = 2
INVARIANT Serializable
