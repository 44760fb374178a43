CONSTANTS
    Data = {d1, d2}
    Verifier = {v1, v2}
    TimeBase = 2
    MaxBlocks = 4
SPECIFICATION Spec
INVARIANTS TypeOK BlocksNumbered
PROPERTIES BlocksKept ImplementsLog
