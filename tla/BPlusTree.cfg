SPECIFICATION Spec
CONSTANTS
    N = 4
    Keys <- MCKeys
    Inputs <- MCInputs
INVARIANTS
    TypeOK
    NoKeyLost
    WellFormed
    KeysFound
