SPECIFICATION Spec
CONSTANTS
    N = 4
    Size_thread = 2
    KeyVectors <- WindowKeyVectors
INVARIANT NeverKeyNotFound
