SPECIFICATION Spec
CONSTANTS
    Threads = {t1, t2}
    MAX_OBJ = 4
    MAX_OPERATION = 2
    Nobody = Nobody
INVARIANT NoLostUpdate
