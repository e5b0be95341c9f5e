SPECIFICATION Spec
CONSTANTS
    N = 4
    Keys <- MCKeys
    Inputs <- RepeatedInputs
INVARIANT NeverKeyNotFound
